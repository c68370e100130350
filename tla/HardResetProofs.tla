--------------------------- MODULE HardResetProofs ---------------------------
(***************************************************************************)
(* Proofs about HardReset, for any number of vports and any troubles.      *)
(***************************************************************************)
EXTENDS HardReset, TLAPS

(* Where the event task may be: closing the network devices, holding the   *)
(* control lock, and opening them again                                    *)
Closing  == {"begin", "detach", "close"}
Finding  == {"cause", "detect", "corer", "wait_corer", "poll"}
Tearing  == {"deinit", "release", "mbx_down"}
Building == {"recover", "core", "core_done", "wait", "init_err", "fail"}
Holding  == Finding \cup Tearing \cup Building
Opening  == {"attach", "reopen", "open"}

PcFun  == pc = [a \in Actor |-> pc[a]]
CurFun == cur \in [Actor -> 0 .. NumVports]
PlaceInv ==
  /\ pc["serv"] \in {"idle", "check", "reset", "rearm"}
  /\ pc["init"] \in {"idle", "create", "register", "loaded", "unwound",
                     "cancel", "failed"}
  /\ pc["event"] \in {"idle"} \cup Closing \cup Holding \cup Opening
  /\ pc["pci"] \in {"idle", "serv", "event", "init", "begin", "detach",
                    "close", "prepared", "bus", "resume", "lost"} \cup Tearing
  /\ pc["remove"] \in {"idle", "event", "unregister", "gone"} \cup Tearing
  /\ pc["user"] \in {"idle", "open", "close"}

(* A lock has the holder whose place says so.                              *)
LockInv ==
  /\ ctrl = IF pc["event"] \in Holding THEN "event"
            ELSE IF pc["pci"] \in Tearing THEN "pci" ELSE None
  /\ pc["event"] \in Holding => pc["pci"] \notin Tearing
  /\ rtnl \in {"event", "pci", "user", None}
  /\ \A a \in {"event", "pci", "user"} : rtnl = a <=> pc[a] \in {"open", "close"}

(* An actor inside dev_open or dev_close, or about to be, has its vport.   *)
WorkOnInv == \A a \in {"event", "pci", "user"} :
               pc[a] \in {"reopen", "open", "close"} => cur[a] \in Vport

(* What is torn down is idle: the works are cancelled before the core is   *)
(* marked as gone, and queued again only when it is built anew.            *)
CoreGone == "VC_CORE_INIT" \notin flags
CoreInv ==
  /\ CoreGone /\ pc["event"] # "core_done" =>
       /\ "MB_INTR_MODE" \notin flags /\ vports = {}
       /\ pc["init"] = "idle" /\ "init" \notin pend
  /\ CoreGone /\ pc["event"] \notin {"core", "core_done", "init_err"} =>
       pc["serv"] = "idle" /\ "serv" \notin pend
  /\ \A a \in {"event", "pci", "remove"} : pc[a] = "release" =>
       /\ "MB_INTR_MODE" \notin flags /\ vports = {}
       /\ pc["init"] = "idle" /\ "init" \notin pend
  /\ \A a \in {"event", "pci", "remove"} : pc[a] = "mbx_down" => CoreGone
  /\ pc["remove"] \notin {"idle", "event"} => pc["event"] = "idle"
  /\ pc["remove"] # "idle" =>
       /\ "REMOVE_IN_PROG" \in flags
       /\ pc["pci"] \in {"idle", "bus", "resume", "lost"}
  /\ pc["remove"] \in {"unregister", "gone"} => CoreGone

(* Without a task beside the PCI callbacks: the init task is only active   *)
(* while the event task waits for it.                                      *)
InitActive == pc["init"] \notin {"idle", "loaded"} \/ "init" \in pend
TurnInv ==
  /\ pc["pci"] \in {"init", "begin", "detach", "close", "prepared", "bus",
                    "resume"} \cup Tearing => pc["event"] = "idle"
  /\ InitActive => /\ pc["event"] \in {"core_done", "wait"}
                   /\ "HR_RESET_IN_PROG" \in flags
  /\ pc["init"] \notin {"idle", "loaded"} => "init" \notin pend
  /\ pc["event"] \in {"detach", "close", "core"} \cup Finding \cup Tearing
                       \cup {"recover"} =>
       "HR_RESET_IN_PROG" \in flags
  /\ pc["pci"] \in {"detach", "close"} \cup Tearing => "HR_RESET_IN_PROG" \in flags
  /\ pc["event"] \in Opening => "HR_RESET_IN_PROG" \notin flags

(* Network devices have vports, and the reset has closed them all.         *)
Closes(a) == pc[a] = "close" /\ a # "user"
NetInv ==
  /\ present \subseteq vports
  /\ pc["init"] = "register" => vports = Vport
  /\ up \subseteq running
  /\ \A v \in running : v \in present \/ \E a \in {"event", "pci"} :
                                           pc[a] = "close" /\ cur[a] = v
  /\ \A a \in {"event", "pci"} : pc[a] = "close" => cur[a] \in vports
  /\ pc["event"] = "reopen" => cur["event"] \in present
  /\ \A a \in {"event", "user"} :
       pc[a] = "open" => cur[a] \in (running \cap present) \ up
  /\ "HR_RESET_IN_PROG" \in flags
     /\ pc["event"] \notin {"detach", "close"} /\ pc["pci"] \notin {"detach", "close"}
     /\ pc["init"] # "register" => present = {}

(* Recovery without teardown: there is nothing to tear down.               *)
Bare == ~ mbx /\ CoreGone
LoadInv ==
  /\ pc["pci"] \in {"prepared", "bus", "resume"} => Bare
  /\ "PCI_CB_RESET" \in flags =>
       Bare /\ pc["event"] \in {"idle", "cause"} \cup Closing
  /\ pc["event"] \in Closing \cup Finding \cup {"deinit"}
     /\ "HR_FUNC_RESET" \notin flags => Bare
  /\ pc["event"] = "recover" => ~ mbx
  /\ pc["event"] \in {"recover", "core", "core_done", "init_err"} => CoreGone
  /\ "HR_DRV_LOAD" \in flags /\ "event" \in pend =>
       \/ pc["event"] = "init_err"
       \/ pc["event"] \in {"idle", "fail"} /\ Bare
  /\ pc["serv"] = "reset" /\ "HR_DRV_LOAD" \in flags => pc["event"] = "init_err"

(* The ranges of the variables that no other part speaks of                *)
TypeInv ==
  /\ flags \subseteq Flag /\ pend \subseteq Work
  /\ netdev \in [Vport -> {"none", "alloc", "reg"}]
  /\ vports \subseteq Vport /\ present \subseteq Vport /\ running \subseteq Vport
  /\ upreq \subseteq Vport /\ up \subseteq Vport
  /\ mbx \in BOOLEAN /\ active \in BOOLEAN /\ corer_done \in BOOLEAN
  /\ arqena \in BOOLEAN /\ rdy \in BOOLEAN /\ devreq \in BOOLEAN
  /\ beside \in BOOLEAN
  /\ corer \in {"none", "begin", "run", "end"}
  /\ mb_wait_count \in Nat
  /\ had \subseteq Troubles

IInv ==
  /\ TypeInv /\ PcFun /\ CurFun /\ PlaceInv /\ LockInv /\ WorkOnInv /\ CoreInv
  /\ ~ beside => TurnInv /\ NetInv /\ LoadInv

--------------------------------------------------------------------------------
(* What the helpers do                                                     *)

(* One actor goes to another place, and the others stay where they are.    *)
LEMMA GoIs ==
  ASSUME PcFun, NEW a \in Actor, NEW l, Go(a, l)
  PROVE  /\ PcFun'
         /\ pc'["serv"] = IF a = "serv" THEN l ELSE pc["serv"]
         /\ pc'["init"] = IF a = "init" THEN l ELSE pc["init"]
         /\ pc'["event"] = IF a = "event" THEN l ELSE pc["event"]
         /\ pc'["pci"] = IF a = "pci" THEN l ELSE pc["pci"]
         /\ pc'["remove"] = IF a = "remove" THEN l ELSE pc["remove"]
         /\ pc'["user"] = IF a = "user" THEN l ELSE pc["user"]
<1>1. pc' = [b \in Actor |-> IF b = a THEN l ELSE pc[b]]
  BY DEF Go, PcFun
<1>2. /\ "serv" \in Actor /\ "init" \in Actor /\ "event" \in Actor
      /\ "pci" \in Actor /\ "remove" \in Actor /\ "user" \in Actor
  BY DEF Actor, Work
<1> QED
  BY <1>1, <1>2 DEF PcFun

(* An actor remembers the vport it works on.                               *)
LEMMA CurIs ==
  ASSUME CurFun, NEW a \in Actor, NEW v \in Vport, cur' = [cur EXCEPT ![a] = v]
  PROVE  /\ CurFun' /\ cur'[a] = v
         /\ \A b \in Actor : b # a => cur'[b] = cur[b]
BY DEF CurFun, Vport

(* Every actor is one.                                                     *)
LEMMA Actors ==
  /\ "serv" \in Actor /\ "init" \in Actor /\ "event" \in Actor
  /\ "pci" \in Actor /\ "remove" \in Actor /\ "user" \in Actor
BY DEF Actor, Work

--------------------------------------------------------------------------------
(* The places are a function of the actors.                                *)
LEMMA PcKept == IInv /\ [Next]_vars => PcFun'
<1> SUFFICES ASSUME IInv, [Next]_vars PROVE PcFun'
  OBVIOUS
<1> USE DEF vars, netVars, devVars, mbxVars, At, Fault, Trouble, IInv, PcFun
<1>1. CASE ServStart
  BY <1>1 DEF ServStart, Go
<1>2. CASE ServCheck
  BY <1>2 DEF ServCheck, Go
<1>3. CASE ServReset
  BY <1>3 DEF ServReset, Go
<1>4. CASE ServRearm
  BY <1>4 DEF ServRearm, Go
<1>5. CASE InitStart
  BY <1>5 DEF InitStart, Go
<1>6. CASE InitCreate
  BY <1>6 DEF InitCreate, Go
<1>7. ASSUME NEW v \in Vport, InitRegister(v) PROVE PcFun'
  BY <1>7 DEF InitRegister, Go
<1>8. CASE InitReady
  BY <1>8 DEF InitReady, Go
<1>9. CASE InitLoaded
  BY <1>9 DEF InitLoaded, Go
<1>10. CASE InitUnwind
  BY <1>10 DEF InitUnwind, Dealloc, Go
<1>11. CASE InitUnwound
  BY <1>11 DEF InitUnwound, Go
<1>12. CASE InitCancel
  BY <1>12 DEF InitCancel, Cancel, Go
<1>13. CASE InitFailed
  BY <1>13 DEF InitFailed, Go
<1>14. CASE EventStart
  BY <1>14 DEF EventStart, CallbackRuns, Go
<1>15. CASE EventBegin
  BY <1>15 DEF EventBegin, Go
<1>16. ASSUME NEW v \in Vport, Detach("event", v) PROVE PcFun'
  BY <1>16 DEF Detach, Go
<1>17. CASE Close("event", "detach")
  BY <1>17 DEF Close, Go
<1>18. CASE EventLock
  BY <1>18 DEF EventLock, Go
<1>19. CASE EventCallback
  BY <1>19 DEF EventCallback, Go
<1>20. CASE EventTrigger
  BY <1>20 DEF EventTrigger, Go
<1>21. CASE EventDetected
  BY <1>21 DEF EventDetected, Go
<1>22. CASE EventUndetected
  BY <1>22 DEF EventUndetected, Go
<1>23. CASE EventCorer
  BY <1>23 DEF EventCorer, Go
<1>24. CASE EventCorerDone
  BY <1>24 DEF EventCorerDone, Go
<1>25. CASE EventCorerTimeout
  BY <1>25 DEF EventCorerTimeout, Go
<1>26. CASE EventPoll
  BY <1>26 DEF EventPoll, Go
<1>27. CASE EventPollTimeout
  BY <1>27 DEF EventPollTimeout, Go
<1>28. CASE EventDeinit
  BY <1>28 DEF EventDeinit, CoreDown, CoreDeinitSkip, Cancel, Dealloc, Go
<1>29. CASE EventRelease
  BY <1>29 DEF EventRelease, CoreRelease, Cancel, Go
<1>30. CASE EventMbxDown
  BY <1>30 DEF EventMbxDown, Go
<1>31. CASE EventNoDeinit
  BY <1>31 DEF EventNoDeinit, Go
<1>32. CASE EventRecover
  BY <1>32 DEF EventRecover, Go
<1>33. CASE EventNoMbx
  BY <1>33 DEF EventNoMbx, Go
<1>34. CASE EventCore
  BY <1>34 DEF EventCore, Go
<1>35. CASE EventCoreDone
  BY <1>35 DEF EventCoreDone, Go
<1>36. CASE EventCoreRetry
  BY <1>36 DEF EventCoreRetry, Go
<1>37. CASE EventCoreError
  BY <1>37 DEF EventCoreError, Go
<1>38. CASE EventInitErr
  BY <1>38 DEF EventInitErr, Cancel, Go
<1>39. CASE EventWait
  BY <1>39 DEF EventWait, Go
<1>40. CASE EventFail
  BY <1>40 DEF EventFail, Go
<1>41. ASSUME NEW v \in Vport, EventAttach(v) PROVE PcFun'
  BY <1>41 DEF EventAttach, Go
<1>42. CASE EventReopen
  BY <1>42 DEF EventReopen, StartOpen, Go
<1>43. CASE Open("event", "attach")
  BY <1>43 DEF Open, Go
<1>44. CASE EventEnd
  BY <1>44 DEF EventEnd, Go
<1>45. CASE PciCancelServ
  BY <1>45 DEF PciCancelServ, Cancel, Go
<1>46. CASE PciCancelEvent
  BY <1>46 DEF PciCancelEvent, Cancel, Go
<1>47. CASE PciCancelInit
  BY <1>47 DEF PciCancelInit, Cancel, Go
<1>48. CASE PciBegin
  BY <1>48 DEF PciBegin, Go
<1>49. ASSUME NEW v \in Vport, Detach("pci", v) PROVE PcFun'
  BY <1>49 DEF Detach, Go
<1>50. CASE Close("pci", "detach")
  BY <1>50 DEF Close, Go
<1>51. CASE PciLock
  BY <1>51 DEF PciLock, Go
<1>52. CASE PciDeinit
  BY <1>52 DEF PciDeinit, CoreDown, CoreDeinitSkip, Cancel, Dealloc, Go
<1>53. CASE PciRelease
  BY <1>53 DEF PciRelease, CoreRelease, Cancel, Go
<1>54. CASE PciMbxDown
  BY <1>54 DEF PciMbxDown, Go
<1>55. CASE PciPrepared
  BY <1>55 DEF PciPrepared, Go
<1>56. CASE PciBusReset
  BY <1>56 DEF PciBusReset, Go
<1>57. CASE PciSlotLost
  BY <1>57 DEF PciSlotLost, Go
<1>58. CASE PciResume
  BY <1>58 DEF PciResume, Go
<1>59. CASE PciError
  BY <1>59 DEF PciError, PciStart, Go
<1>60. CASE PciFlr
  BY <1>60 DEF PciFlr, PciStart, Go
<1>61. CASE RemoveStart
  BY <1>61 DEF RemoveStart, Go
<1>62. CASE RemoveCancelEvent
  BY <1>62 DEF RemoveCancelEvent, Cancel, Go
<1>63. CASE RemoveDeinit
  BY <1>63 DEF RemoveDeinit, CoreDown, CoreDeinitSkip, Cancel, Dealloc, Go
<1>64. CASE RemoveRelease
  BY <1>64 DEF RemoveRelease, CoreRelease, Cancel, Go
<1>65. CASE RemoveMbxDown
  BY <1>65 DEF RemoveMbxDown, Go
<1>66. ASSUME NEW v \in Vport, RemoveUnregister(v) PROVE PcFun'
  BY <1>66 DEF RemoveUnregister, Go
<1>67. CASE RemoveFree
  BY <1>67 DEF RemoveFree, Go
<1>68. CASE Open("user", "idle")
  BY <1>68 DEF Open, Go
<1>69. CASE Close("user", "idle")
  BY <1>69 DEF Close, Go
<1>70. ASSUME NEW v \in Vport, UserOpen(v) PROVE PcFun'
  BY <1>70 DEF UserOpen, StartOpen, Go
<1>71. ASSUME NEW v \in Vport, UserClose(v) PROVE PcFun'
  BY <1>71 DEF UserClose, Go
<1>72. CASE RequestReset
  BY <1>72 DEF RequestReset, Go
<1>73. CASE MbIntrMsg
  BY <1>73 DEF MbIntrMsg, Go
<1>74. CASE MbIntrCorer
  BY <1>74 DEF MbIntrCorer, AfterIntr, Go
<1>75. CASE MbIntrCorerEnd
  BY <1>75 DEF MbIntrCorerEnd, AfterIntr, Go
<1>76. CASE MbIntrLost
  BY <1>76 DEF MbIntrLost, Go
<1>77. CASE DevReset("none")
  BY <1>77 DEF DevReset, Go
<1>78. CASE DevReset("begin")
  BY <1>78 DEF DevReset, Go
<1>79. CASE DevReady
  BY <1>79 DEF DevReady, Go
<1>80. CASE UNCHANGED vars
  BY <1>80 DEF Go
<1>81. CASE ServTask
  BY <1>81, <1>1, <1>2, <1>3, <1>4 DEF ServTask
<1>82. CASE InitTask
  BY <1>82, <1>5, <1>6, <1>7, <1>8, <1>9, <1>10, <1>11, <1>12, <1>13
     DEF InitTask
<1>83. CASE EventTask
  BY <1>83, <1>14, <1>15, <1>16, <1>17, <1>18, <1>19, <1>20, <1>21, <1>22,
     <1>23, <1>24, <1>25, <1>26, <1>27, <1>28, <1>29, <1>30, <1>31, <1>32,
     <1>33, <1>34, <1>35, <1>36, <1>37, <1>38, <1>39, <1>40, <1>41, <1>42,
     <1>43, <1>44
     DEF EventTask, EventReset, EventRecovery
<1>84. CASE PciAny
  BY <1>84, <1>45, <1>46, <1>47, <1>48, <1>49, <1>50, <1>51, <1>52, <1>53,
     <1>54, <1>55, <1>56, <1>57, <1>58, <1>59, <1>60
     DEF PciAny, PciTask
<1>85. CASE RemoveStart
  BY <1>85, <1>61
<1>86. CASE RemoveTask
  BY <1>86, <1>62, <1>63, <1>64, <1>65, <1>66, <1>67 DEF RemoveTask
<1>87. CASE Users
  BY <1>87, <1>68, <1>69, <1>70, <1>71 DEF Users, UserTask
<1>88. CASE RequestReset
  BY <1>88, <1>72
<1>89. CASE MbIntr
  BY <1>89, <1>73, <1>74, <1>75, <1>76 DEF MbIntr
<1>90. CASE DevTask
  BY <1>90, <1>77, <1>78, <1>79 DEF DevTask
<1> QED
  BY <1>81, <1>82, <1>83, <1>84, <1>85, <1>86, <1>87, <1>88, <1>89, <1>90,
     <1>80
     DEF Next

(* So are the vports they work on.                                         *)
LEMMA CurKept == IInv /\ [Next]_vars => CurFun'
<1> SUFFICES ASSUME IInv, [Next]_vars PROVE CurFun'
  OBVIOUS
<1> USE DEF vars, netVars, devVars, mbxVars, At, Fault, Trouble, IInv
<1>1. CASE ServStart
  BY <1>1, GoIs, Actors DEF ServStart, CurFun, Vport
<1>2. CASE ServCheck
  BY <1>2, GoIs, Actors DEF ServCheck, CurFun, Vport
<1>3. CASE ServReset
  BY <1>3, GoIs, Actors DEF ServReset, CurFun, Vport
<1>4. CASE ServRearm
  BY <1>4, GoIs, Actors DEF ServRearm, CurFun, Vport
<1>5. CASE InitStart
  BY <1>5, GoIs, Actors DEF InitStart, CurFun, Vport
<1>6. CASE InitCreate
  BY <1>6, GoIs, Actors DEF InitCreate, CurFun, Vport
<1>7. ASSUME NEW v \in Vport, InitRegister(v) PROVE CurFun'
  BY <1>7 DEF InitRegister, CurFun, Vport
<1>8. CASE InitReady
  BY <1>8, GoIs, Actors DEF InitReady, CurFun, Vport
<1>9. CASE InitLoaded
  BY <1>9, GoIs, Actors DEF InitLoaded, CurFun, Vport
<1>10. CASE InitUnwind
  BY <1>10, GoIs, Actors DEF InitUnwind, Dealloc, CurFun, Vport
<1>11. CASE InitUnwound
  BY <1>11, GoIs, Actors DEF InitUnwound, CurFun, Vport
<1>12. CASE InitCancel
  BY <1>12, GoIs, Actors DEF InitCancel, Cancel, CurFun, Vport
<1>13. CASE InitFailed
  BY <1>13, GoIs, Actors DEF InitFailed, CurFun, Vport
<1>14. CASE EventStart
  BY <1>14, GoIs, Actors DEF EventStart, CallbackRuns, CurFun, Vport
<1>15. CASE EventBegin
  BY <1>15, GoIs, Actors DEF EventBegin, CurFun, Vport
<1>16. ASSUME NEW v \in Vport, Detach("event", v) PROVE CurFun'
  BY <1>16, GoIs, Actors, CurIs DEF Detach, CurFun, Vport
<1>17. CASE Close("event", "detach")
  BY <1>17, GoIs, Actors DEF Close, CurFun, Vport
<1>18. CASE EventLock
  BY <1>18, GoIs, Actors DEF EventLock, CurFun, Vport
<1>19. CASE EventCallback
  BY <1>19, GoIs, Actors DEF EventCallback, CurFun, Vport
<1>20. CASE EventTrigger
  BY <1>20, GoIs, Actors DEF EventTrigger, CurFun, Vport
<1>21. CASE EventDetected
  BY <1>21, GoIs, Actors DEF EventDetected, CurFun, Vport
<1>22. CASE EventUndetected
  BY <1>22, GoIs, Actors DEF EventUndetected, CurFun, Vport
<1>23. CASE EventCorer
  BY <1>23, GoIs, Actors DEF EventCorer, CurFun, Vport
<1>24. CASE EventCorerDone
  BY <1>24, GoIs, Actors DEF EventCorerDone, CurFun, Vport
<1>25. CASE EventCorerTimeout
  BY <1>25, GoIs, Actors DEF EventCorerTimeout, CurFun, Vport
<1>26. CASE EventPoll
  BY <1>26, GoIs, Actors DEF EventPoll, CurFun, Vport
<1>27. CASE EventPollTimeout
  BY <1>27, GoIs, Actors DEF EventPollTimeout, CurFun, Vport
<1>28. CASE EventDeinit
  BY <1>28, GoIs, Actors
     DEF EventDeinit, CoreDown, CoreDeinitSkip, Cancel, Dealloc, CurFun, Vport
<1>29. CASE EventRelease
  BY <1>29, GoIs, Actors DEF EventRelease, CoreRelease, Cancel, CurFun, Vport
<1>30. CASE EventMbxDown
  BY <1>30, GoIs, Actors DEF EventMbxDown, CurFun, Vport
<1>31. CASE EventNoDeinit
  BY <1>31, GoIs, Actors DEF EventNoDeinit, CurFun, Vport
<1>32. CASE EventRecover
  BY <1>32, GoIs, Actors DEF EventRecover, CurFun, Vport
<1>33. CASE EventNoMbx
  BY <1>33, GoIs, Actors DEF EventNoMbx, CurFun, Vport
<1>34. CASE EventCore
  BY <1>34, GoIs, Actors DEF EventCore, CurFun, Vport
<1>35. CASE EventCoreDone
  BY <1>35, GoIs, Actors DEF EventCoreDone, CurFun, Vport
<1>36. CASE EventCoreRetry
  BY <1>36, GoIs, Actors DEF EventCoreRetry, CurFun, Vport
<1>37. CASE EventCoreError
  BY <1>37, GoIs, Actors DEF EventCoreError, CurFun, Vport
<1>38. CASE EventInitErr
  BY <1>38, GoIs, Actors DEF EventInitErr, Cancel, CurFun, Vport
<1>39. CASE EventWait
  BY <1>39, GoIs, Actors DEF EventWait, CurFun, Vport
<1>40. CASE EventFail
  BY <1>40, GoIs, Actors DEF EventFail, CurFun, Vport
<1>41. ASSUME NEW v \in Vport, EventAttach(v) PROVE CurFun'
  BY <1>41, GoIs, Actors, CurIs DEF EventAttach, CurFun, Vport
<1>42. CASE EventReopen
  BY <1>42, GoIs, Actors, CurIs DEF EventReopen, StartOpen, CurFun, Vport
<1>43. CASE Open("event", "attach")
  BY <1>43, GoIs, Actors DEF Open, CurFun, Vport
<1>44. CASE EventEnd
  BY <1>44, GoIs, Actors DEF EventEnd, CurFun, Vport
<1>45. CASE PciCancelServ
  BY <1>45, GoIs, Actors DEF PciCancelServ, Cancel, CurFun, Vport
<1>46. CASE PciCancelEvent
  BY <1>46, GoIs, Actors DEF PciCancelEvent, Cancel, CurFun, Vport
<1>47. CASE PciCancelInit
  BY <1>47, GoIs, Actors DEF PciCancelInit, Cancel, CurFun, Vport
<1>48. CASE PciBegin
  BY <1>48, GoIs, Actors DEF PciBegin, CurFun, Vport
<1>49. ASSUME NEW v \in Vport, Detach("pci", v) PROVE CurFun'
  BY <1>49, GoIs, Actors, CurIs DEF Detach, CurFun, Vport
<1>50. CASE Close("pci", "detach")
  BY <1>50, GoIs, Actors DEF Close, CurFun, Vport
<1>51. CASE PciLock
  BY <1>51, GoIs, Actors DEF PciLock, CurFun, Vport
<1>52. CASE PciDeinit
  BY <1>52, GoIs, Actors
     DEF PciDeinit, CoreDown, CoreDeinitSkip, Cancel, Dealloc, CurFun, Vport
<1>53. CASE PciRelease
  BY <1>53, GoIs, Actors DEF PciRelease, CoreRelease, Cancel, CurFun, Vport
<1>54. CASE PciMbxDown
  BY <1>54, GoIs, Actors DEF PciMbxDown, CurFun, Vport
<1>55. CASE PciPrepared
  BY <1>55, GoIs, Actors DEF PciPrepared, CurFun, Vport
<1>56. CASE PciBusReset
  BY <1>56, GoIs, Actors DEF PciBusReset, CurFun, Vport
<1>57. CASE PciSlotLost
  BY <1>57, GoIs, Actors DEF PciSlotLost, CurFun, Vport
<1>58. CASE PciResume
  BY <1>58, GoIs, Actors DEF PciResume, CurFun, Vport
<1>59. CASE PciError
  BY <1>59, GoIs, Actors DEF PciError, PciStart, CurFun, Vport
<1>60. CASE PciFlr
  BY <1>60, GoIs, Actors DEF PciFlr, PciStart, CurFun, Vport
<1>61. CASE RemoveStart
  BY <1>61, GoIs, Actors DEF RemoveStart, CurFun, Vport
<1>62. CASE RemoveCancelEvent
  BY <1>62, GoIs, Actors DEF RemoveCancelEvent, Cancel, CurFun, Vport
<1>63. CASE RemoveDeinit
  BY <1>63, GoIs, Actors
     DEF RemoveDeinit, CoreDown, CoreDeinitSkip, Cancel, Dealloc, CurFun,
         Vport
<1>64. CASE RemoveRelease
  BY <1>64, GoIs, Actors DEF RemoveRelease, CoreRelease, Cancel, CurFun, Vport
<1>65. CASE RemoveMbxDown
  BY <1>65, GoIs, Actors DEF RemoveMbxDown, CurFun, Vport
<1>66. ASSUME NEW v \in Vport, RemoveUnregister(v) PROVE CurFun'
  BY <1>66 DEF RemoveUnregister, CurFun, Vport
<1>67. CASE RemoveFree
  BY <1>67, GoIs, Actors DEF RemoveFree, CurFun, Vport
<1>68. CASE Open("user", "idle")
  BY <1>68, GoIs, Actors DEF Open, CurFun, Vport
<1>69. CASE Close("user", "idle")
  BY <1>69, GoIs, Actors DEF Close, CurFun, Vport
<1>70. ASSUME NEW v \in Vport, UserOpen(v) PROVE CurFun'
  BY <1>70, GoIs, Actors, CurIs DEF UserOpen, StartOpen, CurFun, Vport
<1>71. ASSUME NEW v \in Vport, UserClose(v) PROVE CurFun'
  BY <1>71, GoIs, Actors, CurIs DEF UserClose, CurFun, Vport
<1>72. CASE RequestReset
  BY <1>72 DEF RequestReset, CurFun, Vport
<1>73. CASE MbIntrMsg
  BY <1>73 DEF MbIntrMsg, CurFun, Vport
<1>74. CASE MbIntrCorer
  BY <1>74 DEF MbIntrCorer, AfterIntr, CurFun, Vport
<1>75. CASE MbIntrCorerEnd
  BY <1>75 DEF MbIntrCorerEnd, AfterIntr, CurFun, Vport
<1>76. CASE MbIntrLost
  BY <1>76 DEF MbIntrLost, CurFun, Vport
<1>77. CASE DevReset("none")
  BY <1>77 DEF DevReset, CurFun, Vport
<1>78. CASE DevReset("begin")
  BY <1>78 DEF DevReset, CurFun, Vport
<1>79. CASE DevReady
  BY <1>79 DEF DevReady, CurFun, Vport
<1>80. CASE UNCHANGED vars
  BY <1>80 DEF CurFun, Vport
<1>81. CASE ServTask
  BY <1>81, <1>1, <1>2, <1>3, <1>4 DEF ServTask
<1>82. CASE InitTask
  BY <1>82, <1>5, <1>6, <1>7, <1>8, <1>9, <1>10, <1>11, <1>12, <1>13
     DEF InitTask
<1>83. CASE EventTask
  BY <1>83, <1>14, <1>15, <1>16, <1>17, <1>18, <1>19, <1>20, <1>21, <1>22,
     <1>23, <1>24, <1>25, <1>26, <1>27, <1>28, <1>29, <1>30, <1>31, <1>32,
     <1>33, <1>34, <1>35, <1>36, <1>37, <1>38, <1>39, <1>40, <1>41, <1>42,
     <1>43, <1>44
     DEF EventTask, EventReset, EventRecovery
<1>84. CASE PciAny
  BY <1>84, <1>45, <1>46, <1>47, <1>48, <1>49, <1>50, <1>51, <1>52, <1>53,
     <1>54, <1>55, <1>56, <1>57, <1>58, <1>59, <1>60
     DEF PciAny, PciTask
<1>85. CASE RemoveStart
  BY <1>85, <1>61
<1>86. CASE RemoveTask
  BY <1>86, <1>62, <1>63, <1>64, <1>65, <1>66, <1>67 DEF RemoveTask
<1>87. CASE Users
  BY <1>87, <1>68, <1>69, <1>70, <1>71 DEF Users, UserTask
<1>88. CASE RequestReset
  BY <1>88, <1>72
<1>89. CASE MbIntr
  BY <1>89, <1>73, <1>74, <1>75, <1>76 DEF MbIntr
<1>90. CASE DevTask
  BY <1>90, <1>77, <1>78, <1>79 DEF DevTask
<1> QED
  BY <1>81, <1>82, <1>83, <1>84, <1>85, <1>86, <1>87, <1>88, <1>89, <1>90,
     <1>80
     DEF Next

(* Every actor goes from one of its places to another.                     *)
LEMMA PlaceKept == IInv /\ [Next]_vars => PlaceInv'
<1> SUFFICES ASSUME IInv, [Next]_vars PROVE PlaceInv'
  OBVIOUS
<1> USE DEF vars, netVars, devVars, mbxVars, At, Fault, Trouble, IInv,
            PlaceInv, Closing, Finding, Tearing, Building, Holding, Opening
<1>1. CASE ServStart
  BY <1>1, GoIs, Actors DEF ServStart
<1>2. CASE ServCheck
  BY <1>2, GoIs, Actors DEF ServCheck
<1>3. CASE ServReset
  BY <1>3, GoIs, Actors DEF ServReset
<1>4. CASE ServRearm
  BY <1>4, GoIs, Actors DEF ServRearm
<1>5. CASE InitStart
  BY <1>5, GoIs, Actors DEF InitStart
<1>6. CASE InitCreate
  BY <1>6, GoIs, Actors DEF InitCreate
<1>7. ASSUME NEW v \in Vport, InitRegister(v) PROVE PlaceInv'
  BY <1>7 DEF InitRegister
<1>8. CASE InitReady
  BY <1>8, GoIs, Actors DEF InitReady
<1>9. CASE InitLoaded
  BY <1>9, GoIs, Actors DEF InitLoaded
<1>10. CASE InitUnwind
  BY <1>10, GoIs, Actors DEF InitUnwind, Dealloc
<1>11. CASE InitUnwound
  BY <1>11, GoIs, Actors DEF InitUnwound
<1>12. CASE InitCancel
  BY <1>12, GoIs, Actors DEF InitCancel, Cancel
<1>13. CASE InitFailed
  BY <1>13, GoIs, Actors DEF InitFailed
<1>14. CASE EventStart
  BY <1>14, GoIs, Actors DEF EventStart, CallbackRuns
<1>15. CASE EventBegin
  BY <1>15, GoIs, Actors DEF EventBegin
<1>16. ASSUME NEW v \in Vport, Detach("event", v) PROVE PlaceInv'
  BY <1>16, GoIs, Actors, CurIs DEF Detach
<1>17. CASE Close("event", "detach")
  BY <1>17, GoIs, Actors DEF Close
<1>18. CASE EventLock
  BY <1>18, GoIs, Actors DEF EventLock
<1>19. CASE EventCallback
  BY <1>19, GoIs, Actors DEF EventCallback
<1>20. CASE EventTrigger
  BY <1>20, GoIs, Actors DEF EventTrigger
<1>21. CASE EventDetected
  BY <1>21, GoIs, Actors DEF EventDetected
<1>22. CASE EventUndetected
  BY <1>22, GoIs, Actors DEF EventUndetected
<1>23. CASE EventCorer
  BY <1>23, GoIs, Actors DEF EventCorer
<1>24. CASE EventCorerDone
  BY <1>24, GoIs, Actors DEF EventCorerDone
<1>25. CASE EventCorerTimeout
  BY <1>25, GoIs, Actors DEF EventCorerTimeout
<1>26. CASE EventPoll
  BY <1>26, GoIs, Actors DEF EventPoll
<1>27. CASE EventPollTimeout
  BY <1>27, GoIs, Actors DEF EventPollTimeout
<1>28. CASE EventDeinit
  BY <1>28, GoIs, Actors
     DEF EventDeinit, CoreDown, CoreDeinitSkip, Cancel, Dealloc
<1>29. CASE EventRelease
  BY <1>29, GoIs, Actors DEF EventRelease, CoreRelease, Cancel
<1>30. CASE EventMbxDown
  BY <1>30, GoIs, Actors DEF EventMbxDown
<1>31. CASE EventNoDeinit
  BY <1>31, GoIs, Actors DEF EventNoDeinit
<1>32. CASE EventRecover
  BY <1>32, GoIs, Actors DEF EventRecover
<1>33. CASE EventNoMbx
  BY <1>33, GoIs, Actors DEF EventNoMbx
<1>34. CASE EventCore
  BY <1>34, GoIs, Actors DEF EventCore
<1>35. CASE EventCoreDone
  BY <1>35, GoIs, Actors DEF EventCoreDone
<1>36. CASE EventCoreRetry
  BY <1>36, GoIs, Actors DEF EventCoreRetry
<1>37. CASE EventCoreError
  BY <1>37, GoIs, Actors DEF EventCoreError
<1>38. CASE EventInitErr
  BY <1>38, GoIs, Actors DEF EventInitErr, Cancel
<1>39. CASE EventWait
  BY <1>39, GoIs, Actors DEF EventWait
<1>40. CASE EventFail
  BY <1>40, GoIs, Actors DEF EventFail
<1>41. ASSUME NEW v \in Vport, EventAttach(v) PROVE PlaceInv'
  BY <1>41, GoIs, Actors, CurIs DEF EventAttach, Vport
<1>42. CASE EventReopen
  BY <1>42, GoIs, Actors, CurIs DEF EventReopen, StartOpen
<1>43. CASE Open("event", "attach")
  BY <1>43, GoIs, Actors DEF Open
<1>44. CASE EventEnd
  BY <1>44, GoIs, Actors DEF EventEnd
<1>45. CASE PciCancelServ
  BY <1>45, GoIs, Actors DEF PciCancelServ, Cancel
<1>46. CASE PciCancelEvent
  BY <1>46, GoIs, Actors DEF PciCancelEvent, Cancel
<1>47. CASE PciCancelInit
  BY <1>47, GoIs, Actors DEF PciCancelInit, Cancel
<1>48. CASE PciBegin
  BY <1>48, GoIs, Actors DEF PciBegin
<1>49. ASSUME NEW v \in Vport, Detach("pci", v) PROVE PlaceInv'
  BY <1>49, GoIs, Actors, CurIs DEF Detach
<1>50. CASE Close("pci", "detach")
  BY <1>50, GoIs, Actors DEF Close
<1>51. CASE PciLock
  BY <1>51, GoIs, Actors DEF PciLock
<1>52. CASE PciDeinit
  BY <1>52, GoIs, Actors
     DEF PciDeinit, CoreDown, CoreDeinitSkip, Cancel, Dealloc
<1>53. CASE PciRelease
  BY <1>53, GoIs, Actors DEF PciRelease, CoreRelease, Cancel
<1>54. CASE PciMbxDown
  BY <1>54, GoIs, Actors DEF PciMbxDown
<1>55. CASE PciPrepared
  BY <1>55, GoIs, Actors DEF PciPrepared
<1>56. CASE PciBusReset
  BY <1>56, GoIs, Actors DEF PciBusReset
<1>57. CASE PciSlotLost
  BY <1>57, GoIs, Actors DEF PciSlotLost
<1>58. CASE PciResume
  BY <1>58, GoIs, Actors DEF PciResume
<1>59. CASE PciError
  BY <1>59, GoIs, Actors DEF PciError, PciStart
<1>60. CASE PciFlr
  BY <1>60, GoIs, Actors DEF PciFlr, PciStart
<1>61. CASE RemoveStart
  BY <1>61, GoIs, Actors DEF RemoveStart
<1>62. CASE RemoveCancelEvent
  BY <1>62, GoIs, Actors DEF RemoveCancelEvent, Cancel
<1>63. CASE RemoveDeinit
  BY <1>63, GoIs, Actors
     DEF RemoveDeinit, CoreDown, CoreDeinitSkip, Cancel, Dealloc
<1>64. CASE RemoveRelease
  BY <1>64, GoIs, Actors DEF RemoveRelease, CoreRelease, Cancel
<1>65. CASE RemoveMbxDown
  BY <1>65, GoIs, Actors DEF RemoveMbxDown
<1>66. ASSUME NEW v \in Vport, RemoveUnregister(v) PROVE PlaceInv'
  BY <1>66 DEF RemoveUnregister
<1>67. CASE RemoveFree
  BY <1>67, GoIs, Actors DEF RemoveFree
<1>68. CASE Open("user", "idle")
  BY <1>68, GoIs, Actors DEF Open
<1>69. CASE Close("user", "idle")
  BY <1>69, GoIs, Actors DEF Close
<1>70. ASSUME NEW v \in Vport, UserOpen(v) PROVE PlaceInv'
  BY <1>70, GoIs, Actors, CurIs DEF UserOpen, StartOpen
<1>71. ASSUME NEW v \in Vport, UserClose(v) PROVE PlaceInv'
  BY <1>71, GoIs, Actors, CurIs DEF UserClose
<1>72. CASE RequestReset
  BY <1>72 DEF RequestReset
<1>73. CASE MbIntrMsg
  BY <1>73 DEF MbIntrMsg
<1>74. CASE MbIntrCorer
  BY <1>74 DEF MbIntrCorer, AfterIntr
<1>75. CASE MbIntrCorerEnd
  BY <1>75 DEF MbIntrCorerEnd, AfterIntr
<1>76. CASE MbIntrLost
  BY <1>76 DEF MbIntrLost
<1>77. CASE DevReset("none")
  BY <1>77 DEF DevReset
<1>78. CASE DevReset("begin")
  BY <1>78 DEF DevReset
<1>79. CASE DevReady
  BY <1>79 DEF DevReady
<1>80. CASE UNCHANGED vars
  BY <1>80
<1>81. CASE ServTask
  BY <1>81, <1>1, <1>2, <1>3, <1>4 DEF ServTask
<1>82. CASE InitTask
  BY <1>82, <1>5, <1>6, <1>7, <1>8, <1>9, <1>10, <1>11, <1>12, <1>13
     DEF InitTask
<1>83. CASE EventTask
  BY <1>83, <1>14, <1>15, <1>16, <1>17, <1>18, <1>19, <1>20, <1>21, <1>22,
     <1>23, <1>24, <1>25, <1>26, <1>27, <1>28, <1>29, <1>30, <1>31, <1>32,
     <1>33, <1>34, <1>35, <1>36, <1>37, <1>38, <1>39, <1>40, <1>41, <1>42,
     <1>43, <1>44
     DEF EventTask, EventReset, EventRecovery
<1>84. CASE PciAny
  BY <1>84, <1>45, <1>46, <1>47, <1>48, <1>49, <1>50, <1>51, <1>52, <1>53,
     <1>54, <1>55, <1>56, <1>57, <1>58, <1>59, <1>60
     DEF PciAny, PciTask
<1>85. CASE RemoveStart
  BY <1>85, <1>61
<1>86. CASE RemoveTask
  BY <1>86, <1>62, <1>63, <1>64, <1>65, <1>66, <1>67 DEF RemoveTask
<1>87. CASE Users
  BY <1>87, <1>68, <1>69, <1>70, <1>71 DEF Users, UserTask
<1>88. CASE RequestReset
  BY <1>88, <1>72
<1>89. CASE MbIntr
  BY <1>89, <1>73, <1>74, <1>75, <1>76 DEF MbIntr
<1>90. CASE DevTask
  BY <1>90, <1>77, <1>78, <1>79 DEF DevTask
<1> QED
  BY <1>81, <1>82, <1>83, <1>84, <1>85, <1>86, <1>87, <1>88, <1>89, <1>90,
     <1>80
     DEF Next
(* Every variable keeps to its range.                                      *)
LEMMA TypeKept == IInv /\ [Next]_vars => TypeInv'
<1> SUFFICES ASSUME IInv, [Next]_vars PROVE TypeInv'
  OBVIOUS
<1> USE DEF vars, netVars, devVars, mbxVars, At, Fault, Trouble, IInv, TypeInv
<1>1. CASE ServStart
  BY <1>1 DEF ServStart, Flag, Work
<1>2. CASE ServCheck
  BY <1>2 DEF ServCheck, Flag, Work
<1>3. CASE ServReset
  BY <1>3 DEF ServReset, Flag, Work
<1>4. CASE ServRearm
  BY <1>4 DEF ServRearm, Flag, Work
<1>5. CASE InitStart
  BY <1>5 DEF InitStart, Flag, Work
<1>6. CASE InitCreate
  <2>1. PICK w \in Vport \ vports :
          /\ vports' = vports \cup {w}
          /\ netdev' = [netdev EXCEPT ![w] = IF netdev[w] = "reg" THEN "reg"
                                         ELSE "alloc"]
    BY <1>6 DEF InitCreate
  <2>2. vports' \subseteq Vport /\ netdev' \in [Vport -> {"none", "alloc", "reg"}]
    BY <2>1
  <2>3. pend' \subseteq Work
    <3>1. pend' = pend \/ pend' = pend \cup {"init"}
      BY <1>6 DEF InitCreate
    <3> QED
      BY <3>1 DEF Work
  <2> QED
    BY <1>6, <2>2, <2>3 DEF InitCreate
<1>7. ASSUME NEW v \in Vport, InitRegister(v) PROVE TypeInv'
  BY <1>7 DEF InitRegister, Flag, Work
<1>8. CASE InitReady
  BY <1>8 DEF InitReady, Flag, Work
<1>9. CASE InitLoaded
  BY <1>9 DEF InitLoaded, Flag, Work
<1>10. CASE InitUnwind
  BY <1>10 DEF InitUnwind, Dealloc, Flag, Work
<1>11. CASE InitUnwound
  BY <1>11 DEF InitUnwound, Flag, Work
<1>12. CASE InitCancel
  BY <1>12 DEF InitCancel, Cancel, Flag, Work
<1>13. CASE InitFailed
  BY <1>13 DEF InitFailed, Flag, Work
<1>14. CASE EventStart
  BY <1>14 DEF EventStart, CallbackRuns, Flag, Work
<1>15. CASE EventBegin
  BY <1>15 DEF EventBegin, Flag, Work
<1>16. ASSUME NEW v \in Vport, Detach("event", v) PROVE TypeInv'
  BY <1>16 DEF Detach, Flag, Work
<1>17. CASE Close("event", "detach")
  BY <1>17 DEF Close, Flag, Work
<1>18. CASE EventLock
  BY <1>18 DEF EventLock, Flag, Work
<1>19. CASE EventCallback
  BY <1>19 DEF EventCallback, Flag, Work
<1>20. CASE EventTrigger
  BY <1>20 DEF EventTrigger, Flag, Work
<1>21. CASE EventDetected
  BY <1>21 DEF EventDetected, Flag, Work
<1>22. CASE EventUndetected
  BY <1>22 DEF EventUndetected, Flag, Work
<1>23. CASE EventCorer
  BY <1>23 DEF EventCorer, Flag, Work
<1>24. CASE EventCorerDone
  BY <1>24 DEF EventCorerDone, Flag, Work
<1>25. CASE EventCorerTimeout
  BY <1>25 DEF EventCorerTimeout, Flag, Work
<1>26. CASE EventPoll
  BY <1>26 DEF EventPoll, Flag, Work
<1>27. CASE EventPollTimeout
  BY <1>27 DEF EventPollTimeout, Flag, Work
<1>28. CASE EventDeinit
  <2>1. CASE CoreDown("event", "release")
    BY <1>28, <2>1 DEF CoreDown, Cancel, Dealloc, Flag, Work
  <2>2. CASE CoreDeinitSkip("event", "mbx_down")
    BY <1>28, <2>2 DEF CoreDeinitSkip, Flag, Work
  <2> QED
    BY <1>28, <2>1, <2>2 DEF EventDeinit
<1>29. CASE EventRelease
  BY <1>29 DEF EventRelease, CoreRelease, Cancel, Flag, Work
<1>30. CASE EventMbxDown
  BY <1>30 DEF EventMbxDown, Flag, Work
<1>31. CASE EventNoDeinit
  BY <1>31 DEF EventNoDeinit, Flag, Work
<1>32. CASE EventRecover
  BY <1>32 DEF EventRecover, Flag, Work
<1>33. CASE EventNoMbx
  BY <1>33 DEF EventNoMbx, Flag, Work
<1>34. CASE EventCore
  BY <1>34 DEF EventCore, Flag, Work
<1>35. CASE EventCoreDone
  BY <1>35 DEF EventCoreDone, Flag, Work
<1>36. CASE EventCoreRetry
  BY <1>36 DEF EventCoreRetry, Flag, Work
<1>37. CASE EventCoreError
  BY <1>37 DEF EventCoreError, Flag, Work
<1>38. CASE EventInitErr
  BY <1>38 DEF EventInitErr, Cancel, Flag, Work
<1>39. CASE EventWait
  BY <1>39 DEF EventWait, Flag, Work
<1>40. CASE EventFail
  BY <1>40 DEF EventFail, Flag, Work
<1>41. ASSUME NEW v \in Vport, EventAttach(v) PROVE TypeInv'
  BY <1>41 DEF EventAttach, Flag, Work
<1>42. CASE EventReopen
  <2>1. cur["event"] \in Vport
    BY <1>42 DEF EventReopen, WorkOnInv
  <2> QED
    BY <1>42, <2>1 DEF EventReopen, StartOpen
<1>43. CASE Open("event", "attach")
  <2>1. cur["event"] \in Vport
    BY <1>43 DEF Open, WorkOnInv
  <2> QED
    BY <1>43, <2>1 DEF Open
<1>44. CASE EventEnd
  BY <1>44 DEF EventEnd, Flag, Work
<1>45. CASE PciCancelServ
  BY <1>45 DEF PciCancelServ, Cancel, Flag, Work
<1>46. CASE PciCancelEvent
  BY <1>46 DEF PciCancelEvent, Cancel, Flag, Work
<1>47. CASE PciCancelInit
  BY <1>47 DEF PciCancelInit, Cancel, Flag, Work
<1>48. CASE PciBegin
  BY <1>48 DEF PciBegin, Flag, Work
<1>49. ASSUME NEW v \in Vport, Detach("pci", v) PROVE TypeInv'
  BY <1>49 DEF Detach, Flag, Work
<1>50. CASE Close("pci", "detach")
  BY <1>50 DEF Close, Flag, Work
<1>51. CASE PciLock
  BY <1>51 DEF PciLock, Flag, Work
<1>52. CASE PciDeinit
  <2>1. CASE CoreDown("pci", "release")
    BY <1>52, <2>1 DEF CoreDown, Cancel, Dealloc, Flag, Work
  <2>2. CASE CoreDeinitSkip("pci", "mbx_down")
    BY <1>52, <2>2 DEF CoreDeinitSkip, Flag, Work
  <2> QED
    BY <1>52, <2>1, <2>2 DEF PciDeinit
<1>53. CASE PciRelease
  BY <1>53 DEF PciRelease, CoreRelease, Cancel, Flag, Work
<1>54. CASE PciMbxDown
  BY <1>54 DEF PciMbxDown, Flag, Work
<1>55. CASE PciPrepared
  BY ZenonT(30), <1>55 DEF PciPrepared, Flag, Work
<1>56. CASE PciBusReset
  BY <1>56 DEF PciBusReset, Flag, Work
<1>57. CASE PciSlotLost
  BY <1>57 DEF PciSlotLost, Flag, Work
<1>58. CASE PciResume
  BY <1>58 DEF PciResume, Flag, Work
<1>59. CASE PciError
  BY ZenonT(30), <1>59 DEF PciError, PciStart, Flag, Work
<1>60. CASE PciFlr
  BY <1>60 DEF PciFlr, PciStart, Flag, Work
<1>61. CASE RemoveStart
  BY <1>61 DEF RemoveStart, Flag, Work
<1>62. CASE RemoveCancelEvent
  BY <1>62 DEF RemoveCancelEvent, Cancel, Flag, Work
<1>63. CASE RemoveDeinit
  <2>1. CASE CoreDown("remove", "release")
    BY <1>63, <2>1 DEF CoreDown, Cancel, Dealloc, Flag, Work
  <2>2. CASE CoreDeinitSkip("remove", "mbx_down")
    BY <1>63, <2>2 DEF CoreDeinitSkip, Flag, Work
  <2> QED
    BY <1>63, <2>1, <2>2 DEF RemoveDeinit
<1>64. CASE RemoveRelease
  BY <1>64 DEF RemoveRelease, CoreRelease, Cancel, Flag, Work
<1>65. CASE RemoveMbxDown
  BY <1>65 DEF RemoveMbxDown, Flag, Work
<1>66. ASSUME NEW v \in Vport, RemoveUnregister(v) PROVE TypeInv'
  BY <1>66 DEF RemoveUnregister, Flag, Work
<1>67. CASE RemoveFree
  BY <1>67 DEF RemoveFree, Flag, Work
<1>68. CASE Open("user", "idle")
  <2>1. cur["user"] \in Vport
    BY <1>68 DEF Open, WorkOnInv
  <2> QED
    BY <1>68, <2>1 DEF Open
<1>69. CASE Close("user", "idle")
  BY <1>69 DEF Close, Flag, Work
<1>70. ASSUME NEW v \in Vport, UserOpen(v) PROVE TypeInv'
  BY <1>70 DEF UserOpen, StartOpen, Flag, Work
<1>71. ASSUME NEW v \in Vport, UserClose(v) PROVE TypeInv'
  BY <1>71 DEF UserClose, Flag, Work
<1>72. CASE RequestReset
  BY <1>72 DEF RequestReset, Flag, Work
<1>73. CASE MbIntrMsg
  BY <1>73 DEF MbIntrMsg, Flag, Work
<1>74. CASE MbIntrCorer
  BY <1>74 DEF MbIntrCorer, AfterIntr, Flag, Work
<1>75. CASE MbIntrCorerEnd
  BY <1>75 DEF MbIntrCorerEnd, AfterIntr, Flag, Work
<1>76. CASE MbIntrLost
  BY <1>76 DEF MbIntrLost, Flag, Work
<1>77. CASE DevReset("none")
  BY <1>77 DEF DevReset, Flag, Work
<1>78. CASE DevReset("begin")
  BY <1>78 DEF DevReset, Flag, Work
<1>79. CASE DevReady
  BY <1>79 DEF DevReady, Flag, Work
<1>80. CASE UNCHANGED vars
  BY <1>80 DEF Flag, Work
<1>81. CASE ServTask
  BY <1>81, <1>1, <1>2, <1>3, <1>4 DEF ServTask
<1>82. CASE InitTask
  BY <1>82, <1>5, <1>6, <1>7, <1>8, <1>9, <1>10, <1>11, <1>12, <1>13
     DEF InitTask
<1>83. CASE EventTask
  BY <1>83, <1>14, <1>15, <1>16, <1>17, <1>18, <1>19, <1>20, <1>21, <1>22,
     <1>23, <1>24, <1>25, <1>26, <1>27, <1>28, <1>29, <1>30, <1>31, <1>32,
     <1>33, <1>34, <1>35, <1>36, <1>37, <1>38, <1>39, <1>40, <1>41, <1>42,
     <1>43, <1>44
     DEF EventTask, EventReset, EventRecovery
<1>84. CASE PciAny
  BY <1>84, <1>45, <1>46, <1>47, <1>48, <1>49, <1>50, <1>51, <1>52, <1>53,
     <1>54, <1>55, <1>56, <1>57, <1>58, <1>59, <1>60
     DEF PciAny, PciTask
<1>85. CASE RemoveStart
  BY <1>85, <1>61
<1>86. CASE RemoveTask
  BY <1>86, <1>62, <1>63, <1>64, <1>65, <1>66, <1>67 DEF RemoveTask
<1>87. CASE Users
  BY <1>87, <1>68, <1>69, <1>70, <1>71 DEF Users, UserTask
<1>88. CASE RequestReset
  BY <1>88, <1>72
<1>89. CASE MbIntr
  BY <1>89, <1>73, <1>74, <1>75, <1>76 DEF MbIntr
<1>90. CASE DevTask
  BY <1>90, <1>77, <1>78, <1>79 DEF DevTask
<1> QED
  BY <1>81, <1>82, <1>83, <1>84, <1>85, <1>86, <1>87, <1>88, <1>89, <1>90,
     <1>80
     DEF Next

(* A lock is taken and released as its holder goes from place to place.    *)
LEMMA LockKept == IInv /\ [Next]_vars => LockInv'
<1> SUFFICES ASSUME IInv, [Next]_vars PROVE LockInv'
  OBVIOUS
<1> USE DEF vars, netVars, devVars, mbxVars, At, Fault, Trouble, IInv,
            PlaceInv, Closing, Finding, Tearing, Building, Holding, Opening,
            LockInv, None
<1>1. CASE ServStart
  BY <1>1, GoIs, Actors DEF ServStart
<1>2. CASE ServCheck
  BY <1>2, GoIs, Actors DEF ServCheck
<1>3. CASE ServReset
  BY <1>3, GoIs, Actors DEF ServReset
<1>4. CASE ServRearm
  BY <1>4, GoIs, Actors DEF ServRearm
<1>5. CASE InitStart
  BY <1>5, GoIs, Actors DEF InitStart
<1>6. CASE InitCreate
  BY <1>6, GoIs, Actors DEF InitCreate
<1>7. ASSUME NEW v \in Vport, InitRegister(v) PROVE LockInv'
  BY <1>7 DEF InitRegister
<1>8. CASE InitReady
  BY <1>8, GoIs, Actors DEF InitReady
<1>9. CASE InitLoaded
  BY <1>9, GoIs, Actors DEF InitLoaded
<1>10. CASE InitUnwind
  BY <1>10, GoIs, Actors DEF InitUnwind, Dealloc
<1>11. CASE InitUnwound
  BY <1>11, GoIs, Actors DEF InitUnwound
<1>12. CASE InitCancel
  BY <1>12, GoIs, Actors DEF InitCancel, Cancel
<1>13. CASE InitFailed
  BY <1>13, GoIs, Actors DEF InitFailed
<1>14. CASE EventStart
  BY <1>14, GoIs, Actors DEF EventStart, CallbackRuns
<1>15. CASE EventBegin
  BY <1>15, GoIs, Actors DEF EventBegin
<1>16. ASSUME NEW v \in Vport, Detach("event", v) PROVE LockInv'
  BY <1>16, GoIs, Actors, CurIs DEF Detach
<1>17. CASE Close("event", "detach")
  BY <1>17, GoIs, Actors DEF Close
<1>18. CASE EventLock
  BY <1>18, GoIs, Actors DEF EventLock
<1>19. CASE EventCallback
  BY <1>19, GoIs, Actors DEF EventCallback
<1>20. CASE EventTrigger
  BY <1>20, GoIs, Actors DEF EventTrigger
<1>21. CASE EventDetected
  BY <1>21, GoIs, Actors DEF EventDetected
<1>22. CASE EventUndetected
  BY <1>22, GoIs, Actors DEF EventUndetected
<1>23. CASE EventCorer
  BY <1>23, GoIs, Actors DEF EventCorer
<1>24. CASE EventCorerDone
  BY <1>24, GoIs, Actors DEF EventCorerDone
<1>25. CASE EventCorerTimeout
  BY <1>25, GoIs, Actors DEF EventCorerTimeout
<1>26. CASE EventPoll
  BY <1>26, GoIs, Actors DEF EventPoll
<1>27. CASE EventPollTimeout
  BY <1>27, GoIs, Actors DEF EventPollTimeout
<1>28. CASE EventDeinit
  BY <1>28, GoIs, Actors
     DEF EventDeinit, CoreDown, CoreDeinitSkip, Cancel, Dealloc
<1>29. CASE EventRelease
  BY <1>29, GoIs, Actors DEF EventRelease, CoreRelease, Cancel
<1>30. CASE EventMbxDown
  BY <1>30, GoIs, Actors DEF EventMbxDown
<1>31. CASE EventNoDeinit
  BY <1>31, GoIs, Actors DEF EventNoDeinit
<1>32. CASE EventRecover
  BY <1>32, GoIs, Actors DEF EventRecover
<1>33. CASE EventNoMbx
  BY <1>33, GoIs, Actors DEF EventNoMbx
<1>34. CASE EventCore
  BY <1>34, GoIs, Actors DEF EventCore
<1>35. CASE EventCoreDone
  BY <1>35, GoIs, Actors DEF EventCoreDone
<1>36. CASE EventCoreRetry
  BY <1>36, GoIs, Actors DEF EventCoreRetry
<1>37. CASE EventCoreError
  BY <1>37, GoIs, Actors DEF EventCoreError
<1>38. CASE EventInitErr
  BY <1>38, GoIs, Actors DEF EventInitErr, Cancel
<1>39. CASE EventWait
  BY <1>39, GoIs, Actors DEF EventWait
<1>40. CASE EventFail
  BY <1>40, GoIs, Actors DEF EventFail
<1>41. ASSUME NEW v \in Vport, EventAttach(v) PROVE LockInv'
  BY <1>41, GoIs, Actors, CurIs DEF EventAttach
<1>42. CASE EventReopen
  BY <1>42, GoIs, Actors, CurIs DEF EventReopen, StartOpen
<1>43. CASE Open("event", "attach")
  BY <1>43, GoIs, Actors DEF Open
<1>44. CASE EventEnd
  BY <1>44, GoIs, Actors DEF EventEnd
<1>45. CASE PciCancelServ
  BY <1>45, GoIs, Actors DEF PciCancelServ, Cancel
<1>46. CASE PciCancelEvent
  BY <1>46, GoIs, Actors DEF PciCancelEvent, Cancel
<1>47. CASE PciCancelInit
  BY <1>47, GoIs, Actors DEF PciCancelInit, Cancel
<1>48. CASE PciBegin
  BY <1>48, GoIs, Actors DEF PciBegin
<1>49. ASSUME NEW v \in Vport, Detach("pci", v) PROVE LockInv'
  BY <1>49, GoIs, Actors, CurIs DEF Detach
<1>50. CASE Close("pci", "detach")
  BY <1>50, GoIs, Actors DEF Close
<1>51. CASE PciLock
  BY <1>51, GoIs, Actors DEF PciLock
<1>52. CASE PciDeinit
  BY <1>52, GoIs, Actors
     DEF PciDeinit, CoreDown, CoreDeinitSkip, Cancel, Dealloc
<1>53. CASE PciRelease
  BY <1>53, GoIs, Actors DEF PciRelease, CoreRelease, Cancel
<1>54. CASE PciMbxDown
  BY <1>54, GoIs, Actors DEF PciMbxDown
<1>55. CASE PciPrepared
  BY <1>55, GoIs, Actors DEF PciPrepared
<1>56. CASE PciBusReset
  BY <1>56, GoIs, Actors DEF PciBusReset
<1>57. CASE PciSlotLost
  BY <1>57, GoIs, Actors DEF PciSlotLost
<1>58. CASE PciResume
  BY <1>58, GoIs, Actors DEF PciResume
<1>59. CASE PciError
  BY <1>59, GoIs, Actors DEF PciError, PciStart
<1>60. CASE PciFlr
  BY <1>60, GoIs, Actors DEF PciFlr, PciStart
<1>61. CASE RemoveStart
  BY <1>61, GoIs, Actors DEF RemoveStart
<1>62. CASE RemoveCancelEvent
  BY <1>62, GoIs, Actors DEF RemoveCancelEvent, Cancel
<1>63. CASE RemoveDeinit
  BY <1>63, GoIs, Actors
     DEF RemoveDeinit, CoreDown, CoreDeinitSkip, Cancel, Dealloc
<1>64. CASE RemoveRelease
  BY <1>64, GoIs, Actors DEF RemoveRelease, CoreRelease, Cancel
<1>65. CASE RemoveMbxDown
  BY <1>65, GoIs, Actors DEF RemoveMbxDown
<1>66. ASSUME NEW v \in Vport, RemoveUnregister(v) PROVE LockInv'
  BY <1>66 DEF RemoveUnregister
<1>67. CASE RemoveFree
  BY <1>67, GoIs, Actors DEF RemoveFree
<1>68. CASE Open("user", "idle")
  BY <1>68, GoIs, Actors DEF Open
<1>69. CASE Close("user", "idle")
  BY <1>69, GoIs, Actors DEF Close
<1>70. ASSUME NEW v \in Vport, UserOpen(v) PROVE LockInv'
  BY <1>70, GoIs, Actors, CurIs DEF UserOpen, StartOpen
<1>71. ASSUME NEW v \in Vport, UserClose(v) PROVE LockInv'
  BY <1>71, GoIs, Actors, CurIs DEF UserClose
<1>72. CASE RequestReset
  BY <1>72 DEF RequestReset
<1>73. CASE MbIntrMsg
  BY <1>73 DEF MbIntrMsg
<1>74. CASE MbIntrCorer
  BY <1>74 DEF MbIntrCorer, AfterIntr
<1>75. CASE MbIntrCorerEnd
  BY <1>75 DEF MbIntrCorerEnd, AfterIntr
<1>76. CASE MbIntrLost
  BY <1>76 DEF MbIntrLost
<1>77. CASE DevReset("none")
  BY <1>77 DEF DevReset
<1>78. CASE DevReset("begin")
  BY <1>78 DEF DevReset
<1>79. CASE DevReady
  BY <1>79 DEF DevReady
<1>80. CASE UNCHANGED vars
  BY <1>80
<1>81. CASE ServTask
  BY <1>81, <1>1, <1>2, <1>3, <1>4 DEF ServTask
<1>82. CASE InitTask
  BY <1>82, <1>5, <1>6, <1>7, <1>8, <1>9, <1>10, <1>11, <1>12, <1>13
     DEF InitTask
<1>83. CASE EventTask
  BY <1>83, <1>14, <1>15, <1>16, <1>17, <1>18, <1>19, <1>20, <1>21, <1>22,
     <1>23, <1>24, <1>25, <1>26, <1>27, <1>28, <1>29, <1>30, <1>31, <1>32,
     <1>33, <1>34, <1>35, <1>36, <1>37, <1>38, <1>39, <1>40, <1>41, <1>42,
     <1>43, <1>44
     DEF EventTask, EventReset, EventRecovery
<1>84. CASE PciAny
  BY <1>84, <1>45, <1>46, <1>47, <1>48, <1>49, <1>50, <1>51, <1>52, <1>53,
     <1>54, <1>55, <1>56, <1>57, <1>58, <1>59, <1>60
     DEF PciAny, PciTask
<1>85. CASE RemoveStart
  BY <1>85, <1>61
<1>86. CASE RemoveTask
  BY <1>86, <1>62, <1>63, <1>64, <1>65, <1>66, <1>67 DEF RemoveTask
<1>87. CASE Users
  BY <1>87, <1>68, <1>69, <1>70, <1>71 DEF Users, UserTask
<1>88. CASE RequestReset
  BY <1>88, <1>72
<1>89. CASE MbIntr
  BY <1>89, <1>73, <1>74, <1>75, <1>76 DEF MbIntr
<1>90. CASE DevTask
  BY <1>90, <1>77, <1>78, <1>79 DEF DevTask
<1> QED
  BY <1>81, <1>82, <1>83, <1>84, <1>85, <1>86, <1>87, <1>88, <1>89, <1>90,
     <1>80
     DEF Next

(* The vport an actor works on stays the one it has chosen.                *)
LEMMA WorkOnKept == IInv /\ [Next]_vars => WorkOnInv'
<1> SUFFICES ASSUME IInv, [Next]_vars PROVE WorkOnInv'
  OBVIOUS
<1> USE DEF vars, netVars, devVars, mbxVars, At, Fault, Trouble, IInv,
            PlaceInv, Closing, Finding, Tearing, Building, Holding, Opening,
            WorkOnInv, CurFun
<1>1. CASE ServStart
  BY <1>1, GoIs, Actors DEF ServStart
<1>2. CASE ServCheck
  BY <1>2, GoIs, Actors DEF ServCheck
<1>3. CASE ServReset
  BY <1>3, GoIs, Actors DEF ServReset
<1>4. CASE ServRearm
  BY <1>4, GoIs, Actors DEF ServRearm
<1>5. CASE InitStart
  BY <1>5, GoIs, Actors DEF InitStart
<1>6. CASE InitCreate
  BY <1>6, GoIs, Actors DEF InitCreate
<1>7. ASSUME NEW v \in Vport, InitRegister(v) PROVE WorkOnInv'
  BY <1>7 DEF InitRegister
<1>8. CASE InitReady
  BY <1>8, GoIs, Actors DEF InitReady
<1>9. CASE InitLoaded
  BY <1>9, GoIs, Actors DEF InitLoaded
<1>10. CASE InitUnwind
  BY <1>10, GoIs, Actors DEF InitUnwind, Dealloc
<1>11. CASE InitUnwound
  BY <1>11, GoIs, Actors DEF InitUnwound
<1>12. CASE InitCancel
  BY <1>12, GoIs, Actors DEF InitCancel, Cancel
<1>13. CASE InitFailed
  BY <1>13, GoIs, Actors DEF InitFailed
<1>14. CASE EventStart
  BY <1>14, GoIs, Actors DEF EventStart, CallbackRuns
<1>15. CASE EventBegin
  BY <1>15, GoIs, Actors DEF EventBegin
<1>16. ASSUME NEW v \in Vport, Detach("event", v) PROVE WorkOnInv'
  BY <1>16, GoIs, Actors, CurIs DEF Detach
<1>17. CASE Close("event", "detach")
  BY <1>17, GoIs, Actors DEF Close
<1>18. CASE EventLock
  BY <1>18, GoIs, Actors DEF EventLock
<1>19. CASE EventCallback
  BY <1>19, GoIs, Actors DEF EventCallback
<1>20. CASE EventTrigger
  BY <1>20, GoIs, Actors DEF EventTrigger
<1>21. CASE EventDetected
  BY <1>21, GoIs, Actors DEF EventDetected
<1>22. CASE EventUndetected
  BY <1>22, GoIs, Actors DEF EventUndetected
<1>23. CASE EventCorer
  BY <1>23, GoIs, Actors DEF EventCorer
<1>24. CASE EventCorerDone
  BY <1>24, GoIs, Actors DEF EventCorerDone
<1>25. CASE EventCorerTimeout
  BY <1>25, GoIs, Actors DEF EventCorerTimeout
<1>26. CASE EventPoll
  BY <1>26, GoIs, Actors DEF EventPoll
<1>27. CASE EventPollTimeout
  BY <1>27, GoIs, Actors DEF EventPollTimeout
<1>28. CASE EventDeinit
  BY <1>28, GoIs, Actors
     DEF EventDeinit, CoreDown, CoreDeinitSkip, Cancel, Dealloc
<1>29. CASE EventRelease
  BY <1>29, GoIs, Actors DEF EventRelease, CoreRelease, Cancel
<1>30. CASE EventMbxDown
  BY <1>30, GoIs, Actors DEF EventMbxDown
<1>31. CASE EventNoDeinit
  BY <1>31, GoIs, Actors DEF EventNoDeinit
<1>32. CASE EventRecover
  BY <1>32, GoIs, Actors DEF EventRecover
<1>33. CASE EventNoMbx
  BY <1>33, GoIs, Actors DEF EventNoMbx
<1>34. CASE EventCore
  BY <1>34, GoIs, Actors DEF EventCore
<1>35. CASE EventCoreDone
  BY <1>35, GoIs, Actors DEF EventCoreDone
<1>36. CASE EventCoreRetry
  BY <1>36, GoIs, Actors DEF EventCoreRetry
<1>37. CASE EventCoreError
  BY <1>37, GoIs, Actors DEF EventCoreError
<1>38. CASE EventInitErr
  BY <1>38, GoIs, Actors DEF EventInitErr, Cancel
<1>39. CASE EventWait
  BY <1>39, GoIs, Actors DEF EventWait
<1>40. CASE EventFail
  BY <1>40, GoIs, Actors DEF EventFail
<1>41. ASSUME NEW v \in Vport, EventAttach(v) PROVE WorkOnInv'
  BY <1>41, GoIs, Actors, CurIs DEF EventAttach
<1>42. CASE EventReopen
  BY <1>42, GoIs, Actors, CurIs DEF EventReopen, StartOpen
<1>43. CASE Open("event", "attach")
  BY <1>43, GoIs, Actors DEF Open
<1>44. CASE EventEnd
  BY <1>44, GoIs, Actors DEF EventEnd
<1>45. CASE PciCancelServ
  BY <1>45, GoIs, Actors DEF PciCancelServ, Cancel
<1>46. CASE PciCancelEvent
  BY <1>46, GoIs, Actors DEF PciCancelEvent, Cancel
<1>47. CASE PciCancelInit
  BY <1>47, GoIs, Actors DEF PciCancelInit, Cancel
<1>48. CASE PciBegin
  BY <1>48, GoIs, Actors DEF PciBegin
<1>49. ASSUME NEW v \in Vport, Detach("pci", v) PROVE WorkOnInv'
  BY <1>49, GoIs, Actors, CurIs DEF Detach
<1>50. CASE Close("pci", "detach")
  BY <1>50, GoIs, Actors DEF Close
<1>51. CASE PciLock
  BY <1>51, GoIs, Actors DEF PciLock
<1>52. CASE PciDeinit
  BY <1>52, GoIs, Actors
     DEF PciDeinit, CoreDown, CoreDeinitSkip, Cancel, Dealloc
<1>53. CASE PciRelease
  BY <1>53, GoIs, Actors DEF PciRelease, CoreRelease, Cancel
<1>54. CASE PciMbxDown
  BY <1>54, GoIs, Actors DEF PciMbxDown
<1>55. CASE PciPrepared
  BY <1>55, GoIs, Actors DEF PciPrepared
<1>56. CASE PciBusReset
  BY <1>56, GoIs, Actors DEF PciBusReset
<1>57. CASE PciSlotLost
  BY <1>57, GoIs, Actors DEF PciSlotLost
<1>58. CASE PciResume
  BY <1>58, GoIs, Actors DEF PciResume
<1>59. CASE PciError
  BY <1>59, GoIs, Actors DEF PciError, PciStart
<1>60. CASE PciFlr
  BY <1>60, GoIs, Actors DEF PciFlr, PciStart
<1>61. CASE RemoveStart
  BY <1>61, GoIs, Actors DEF RemoveStart
<1>62. CASE RemoveCancelEvent
  BY <1>62, GoIs, Actors DEF RemoveCancelEvent, Cancel
<1>63. CASE RemoveDeinit
  BY <1>63, GoIs, Actors
     DEF RemoveDeinit, CoreDown, CoreDeinitSkip, Cancel, Dealloc
<1>64. CASE RemoveRelease
  BY <1>64, GoIs, Actors DEF RemoveRelease, CoreRelease, Cancel
<1>65. CASE RemoveMbxDown
  BY <1>65, GoIs, Actors DEF RemoveMbxDown
<1>66. ASSUME NEW v \in Vport, RemoveUnregister(v) PROVE WorkOnInv'
  BY <1>66 DEF RemoveUnregister
<1>67. CASE RemoveFree
  BY <1>67, GoIs, Actors DEF RemoveFree
<1>68. CASE Open("user", "idle")
  BY <1>68, GoIs, Actors DEF Open
<1>69. CASE Close("user", "idle")
  BY <1>69, GoIs, Actors DEF Close
<1>70. ASSUME NEW v \in Vport, UserOpen(v) PROVE WorkOnInv'
  BY <1>70, GoIs, Actors, CurIs DEF UserOpen, StartOpen
<1>71. ASSUME NEW v \in Vport, UserClose(v) PROVE WorkOnInv'
  BY <1>71, GoIs, Actors, CurIs DEF UserClose
<1>72. CASE RequestReset
  BY <1>72 DEF RequestReset
<1>73. CASE MbIntrMsg
  BY <1>73 DEF MbIntrMsg
<1>74. CASE MbIntrCorer
  BY <1>74 DEF MbIntrCorer, AfterIntr
<1>75. CASE MbIntrCorerEnd
  BY <1>75 DEF MbIntrCorerEnd, AfterIntr
<1>76. CASE MbIntrLost
  BY <1>76 DEF MbIntrLost
<1>77. CASE DevReset("none")
  BY <1>77 DEF DevReset
<1>78. CASE DevReset("begin")
  BY <1>78 DEF DevReset
<1>79. CASE DevReady
  BY <1>79 DEF DevReady
<1>80. CASE UNCHANGED vars
  BY <1>80
<1>81. CASE ServTask
  BY <1>81, <1>1, <1>2, <1>3, <1>4 DEF ServTask
<1>82. CASE InitTask
  BY <1>82, <1>5, <1>6, <1>7, <1>8, <1>9, <1>10, <1>11, <1>12, <1>13
     DEF InitTask
<1>83. CASE EventTask
  BY <1>83, <1>14, <1>15, <1>16, <1>17, <1>18, <1>19, <1>20, <1>21, <1>22,
     <1>23, <1>24, <1>25, <1>26, <1>27, <1>28, <1>29, <1>30, <1>31, <1>32,
     <1>33, <1>34, <1>35, <1>36, <1>37, <1>38, <1>39, <1>40, <1>41, <1>42,
     <1>43, <1>44
     DEF EventTask, EventReset, EventRecovery
<1>84. CASE PciAny
  BY <1>84, <1>45, <1>46, <1>47, <1>48, <1>49, <1>50, <1>51, <1>52, <1>53,
     <1>54, <1>55, <1>56, <1>57, <1>58, <1>59, <1>60
     DEF PciAny, PciTask
<1>85. CASE RemoveStart
  BY <1>85, <1>61
<1>86. CASE RemoveTask
  BY <1>86, <1>62, <1>63, <1>64, <1>65, <1>66, <1>67 DEF RemoveTask
<1>87. CASE Users
  BY <1>87, <1>68, <1>69, <1>70, <1>71 DEF Users, UserTask
<1>88. CASE RequestReset
  BY <1>88, <1>72
<1>89. CASE MbIntr
  BY <1>89, <1>73, <1>74, <1>75, <1>76 DEF MbIntr
<1>90. CASE DevTask
  BY <1>90, <1>77, <1>78, <1>79 DEF DevTask
<1> QED
  BY <1>81, <1>82, <1>83, <1>84, <1>85, <1>86, <1>87, <1>88, <1>89, <1>90,
     <1>80
     DEF Next

(* Nothing that is torn down runs, or is queued, before it is built again. *)
LEMMA CoreKept == IInv /\ [Next]_vars => CoreInv'
<1> SUFFICES ASSUME IInv, [Next]_vars PROVE CoreInv'
  OBVIOUS
<1> USE DEF vars, netVars, devVars, mbxVars, At, Fault, Trouble, IInv,
            PlaceInv, Closing, Finding, Tearing, Building, Holding, Opening,
            LockInv, CoreInv, CoreGone, None
<1>1. CASE ServStart
  BY <1>1, GoIs, Actors DEF ServStart
<1>2. CASE ServCheck
  BY <1>2, GoIs, Actors DEF ServCheck
<1>3. CASE ServReset
  BY <1>3, GoIs, Actors DEF ServReset
<1>4. CASE ServRearm
  BY <1>4, GoIs, Actors DEF ServRearm
<1>5. CASE InitStart
  BY <1>5, GoIs, Actors DEF InitStart
<1>6. CASE InitCreate
  BY <1>6, GoIs, Actors DEF InitCreate
<1>7. ASSUME NEW v \in Vport, InitRegister(v) PROVE CoreInv'
  BY <1>7 DEF InitRegister
<1>8. CASE InitReady
  BY <1>8, GoIs, Actors DEF InitReady
<1>9. CASE InitLoaded
  BY <1>9, GoIs, Actors DEF InitLoaded
<1>10. CASE InitUnwind
  BY <1>10, GoIs, Actors DEF InitUnwind, Dealloc
<1>11. CASE InitUnwound
  BY <1>11, GoIs, Actors DEF InitUnwound
<1>12. CASE InitCancel
  BY <1>12, GoIs, Actors DEF InitCancel, Cancel
<1>13. CASE InitFailed
  BY <1>13, GoIs, Actors DEF InitFailed
<1>14. CASE EventStart
  BY <1>14, GoIs, Actors DEF EventStart, CallbackRuns
<1>15. CASE EventBegin
  BY <1>15, GoIs, Actors DEF EventBegin
<1>16. ASSUME NEW v \in Vport, Detach("event", v) PROVE CoreInv'
  BY <1>16, GoIs, Actors, CurIs DEF Detach
<1>17. CASE Close("event", "detach")
  BY <1>17, GoIs, Actors DEF Close
<1>18. CASE EventLock
  BY <1>18, GoIs, Actors DEF EventLock
<1>19. CASE EventCallback
  BY <1>19, GoIs, Actors DEF EventCallback
<1>20. CASE EventTrigger
  BY <1>20, GoIs, Actors DEF EventTrigger
<1>21. CASE EventDetected
  BY <1>21, GoIs, Actors DEF EventDetected
<1>22. CASE EventUndetected
  BY <1>22, GoIs, Actors DEF EventUndetected
<1>23. CASE EventCorer
  BY <1>23, GoIs, Actors DEF EventCorer
<1>24. CASE EventCorerDone
  BY <1>24, GoIs, Actors DEF EventCorerDone
<1>25. CASE EventCorerTimeout
  BY <1>25, GoIs, Actors DEF EventCorerTimeout
<1>26. CASE EventPoll
  BY <1>26, GoIs, Actors DEF EventPoll
<1>27. CASE EventPollTimeout
  BY <1>27, GoIs, Actors DEF EventPollTimeout
<1>28. CASE EventDeinit
  BY <1>28, GoIs, Actors
     DEF EventDeinit, CoreDown, CoreDeinitSkip, Cancel, Dealloc
<1>29. CASE EventRelease
  BY <1>29, GoIs, Actors DEF EventRelease, CoreRelease, Cancel
<1>30. CASE EventMbxDown
  BY <1>30, GoIs, Actors DEF EventMbxDown
<1>31. CASE EventNoDeinit
  BY <1>31, GoIs, Actors DEF EventNoDeinit
<1>32. CASE EventRecover
  BY <1>32, GoIs, Actors DEF EventRecover
<1>33. CASE EventNoMbx
  BY <1>33, GoIs, Actors DEF EventNoMbx
<1>34. CASE EventCore
  BY <1>34, GoIs, Actors DEF EventCore
<1>35. CASE EventCoreDone
  BY <1>35, GoIs, Actors DEF EventCoreDone
<1>36. CASE EventCoreRetry
  BY <1>36, GoIs, Actors DEF EventCoreRetry
<1>37. CASE EventCoreError
  BY <1>37, GoIs, Actors DEF EventCoreError
<1>38. CASE EventInitErr
  BY <1>38, GoIs, Actors DEF EventInitErr, Cancel
<1>39. CASE EventWait
  BY <1>39, GoIs, Actors DEF EventWait
<1>40. CASE EventFail
  BY <1>40, GoIs, Actors DEF EventFail
<1>41. ASSUME NEW v \in Vport, EventAttach(v) PROVE CoreInv'
  BY <1>41, GoIs, Actors, CurIs DEF EventAttach
<1>42. CASE EventReopen
  BY <1>42, GoIs, Actors, CurIs DEF EventReopen, StartOpen
<1>43. CASE Open("event", "attach")
  BY <1>43, GoIs, Actors DEF Open
<1>44. CASE EventEnd
  BY <1>44, GoIs, Actors DEF EventEnd
<1>45. CASE PciCancelServ
  BY <1>45, GoIs, Actors DEF PciCancelServ, Cancel
<1>46. CASE PciCancelEvent
  BY <1>46, GoIs, Actors DEF PciCancelEvent, Cancel
<1>47. CASE PciCancelInit
  BY <1>47, GoIs, Actors DEF PciCancelInit, Cancel
<1>48. CASE PciBegin
  BY <1>48, GoIs, Actors DEF PciBegin
<1>49. ASSUME NEW v \in Vport, Detach("pci", v) PROVE CoreInv'
  BY <1>49, GoIs, Actors, CurIs DEF Detach
<1>50. CASE Close("pci", "detach")
  BY <1>50, GoIs, Actors DEF Close
<1>51. CASE PciLock
  BY <1>51, GoIs, Actors DEF PciLock
<1>52. CASE PciDeinit
  BY <1>52, GoIs, Actors
     DEF PciDeinit, CoreDown, CoreDeinitSkip, Cancel, Dealloc
<1>53. CASE PciRelease
  BY <1>53, GoIs, Actors DEF PciRelease, CoreRelease, Cancel
<1>54. CASE PciMbxDown
  BY <1>54, GoIs, Actors DEF PciMbxDown
<1>55. CASE PciPrepared
  BY <1>55, GoIs, Actors DEF PciPrepared
<1>56. CASE PciBusReset
  BY <1>56, GoIs, Actors DEF PciBusReset
<1>57. CASE PciSlotLost
  BY <1>57, GoIs, Actors DEF PciSlotLost
<1>58. CASE PciResume
  BY <1>58, GoIs, Actors DEF PciResume
<1>59. CASE PciError
  BY <1>59, GoIs, Actors DEF PciError, PciStart
<1>60. CASE PciFlr
  BY <1>60, GoIs, Actors DEF PciFlr, PciStart
<1>61. CASE RemoveStart
  BY <1>61, GoIs, Actors DEF RemoveStart
<1>62. CASE RemoveCancelEvent
  BY <1>62, GoIs, Actors DEF RemoveCancelEvent, Cancel
<1>63. CASE RemoveDeinit
  BY <1>63, GoIs, Actors
     DEF RemoveDeinit, CoreDown, CoreDeinitSkip, Cancel, Dealloc
<1>64. CASE RemoveRelease
  BY <1>64, GoIs, Actors DEF RemoveRelease, CoreRelease, Cancel
<1>65. CASE RemoveMbxDown
  BY <1>65, GoIs, Actors DEF RemoveMbxDown
<1>66. ASSUME NEW v \in Vport, RemoveUnregister(v) PROVE CoreInv'
  BY <1>66 DEF RemoveUnregister
<1>67. CASE RemoveFree
  BY <1>67, GoIs, Actors DEF RemoveFree
<1>68. CASE Open("user", "idle")
  BY <1>68, GoIs, Actors DEF Open
<1>69. CASE Close("user", "idle")
  BY <1>69, GoIs, Actors DEF Close
<1>70. ASSUME NEW v \in Vport, UserOpen(v) PROVE CoreInv'
  BY <1>70, GoIs, Actors, CurIs DEF UserOpen, StartOpen
<1>71. ASSUME NEW v \in Vport, UserClose(v) PROVE CoreInv'
  BY <1>71, GoIs, Actors, CurIs DEF UserClose
<1>72. CASE RequestReset
  BY <1>72 DEF RequestReset
<1>73. CASE MbIntrMsg
  BY <1>73 DEF MbIntrMsg
<1>74. CASE MbIntrCorer
  BY <1>74 DEF MbIntrCorer, AfterIntr
<1>75. CASE MbIntrCorerEnd
  BY <1>75 DEF MbIntrCorerEnd, AfterIntr
<1>76. CASE MbIntrLost
  BY <1>76 DEF MbIntrLost
<1>77. CASE DevReset("none")
  BY <1>77 DEF DevReset
<1>78. CASE DevReset("begin")
  BY <1>78 DEF DevReset
<1>79. CASE DevReady
  BY <1>79 DEF DevReady
<1>80. CASE UNCHANGED vars
  BY <1>80
<1>81. CASE ServTask
  BY <1>81, <1>1, <1>2, <1>3, <1>4 DEF ServTask
<1>82. CASE InitTask
  BY <1>82, <1>5, <1>6, <1>7, <1>8, <1>9, <1>10, <1>11, <1>12, <1>13
     DEF InitTask
<1>83. CASE EventTask
  BY <1>83, <1>14, <1>15, <1>16, <1>17, <1>18, <1>19, <1>20, <1>21, <1>22,
     <1>23, <1>24, <1>25, <1>26, <1>27, <1>28, <1>29, <1>30, <1>31, <1>32,
     <1>33, <1>34, <1>35, <1>36, <1>37, <1>38, <1>39, <1>40, <1>41, <1>42,
     <1>43, <1>44
     DEF EventTask, EventReset, EventRecovery
<1>84. CASE PciAny
  BY <1>84, <1>45, <1>46, <1>47, <1>48, <1>49, <1>50, <1>51, <1>52, <1>53,
     <1>54, <1>55, <1>56, <1>57, <1>58, <1>59, <1>60
     DEF PciAny, PciTask
<1>85. CASE RemoveStart
  BY <1>85, <1>61
<1>86. CASE RemoveTask
  BY <1>86, <1>62, <1>63, <1>64, <1>65, <1>66, <1>67 DEF RemoveTask
<1>87. CASE Users
  BY <1>87, <1>68, <1>69, <1>70, <1>71 DEF Users, UserTask
<1>88. CASE RequestReset
  BY <1>88, <1>72
<1>89. CASE MbIntr
  BY <1>89, <1>73, <1>74, <1>75, <1>76 DEF MbIntr
<1>90. CASE DevTask
  BY <1>90, <1>77, <1>78, <1>79 DEF DevTask
<1> QED
  BY <1>81, <1>82, <1>83, <1>84, <1>85, <1>86, <1>87, <1>88, <1>89, <1>90,
     <1>80
     DEF Next

(* That a task ran beside the callbacks is not forgotten.                  *)
LEMMA BesideStays == IInv /\ ~ beside' /\ [Next]_vars => ~ beside
<1> SUFFICES ASSUME IInv /\ ~ beside', [Next]_vars PROVE ~ beside
  OBVIOUS
<1> USE DEF vars, netVars, devVars, mbxVars, At, Fault, Trouble, IInv, TypeInv
<1>1. CASE ServStart
  BY <1>1 DEF ServStart
<1>2. CASE ServCheck
  BY <1>2 DEF ServCheck
<1>3. CASE ServReset
  BY <1>3 DEF ServReset
<1>4. CASE ServRearm
  BY <1>4 DEF ServRearm
<1>5. CASE InitStart
  BY <1>5 DEF InitStart
<1>6. CASE InitCreate
  BY <1>6 DEF InitCreate
<1>7. ASSUME NEW v \in Vport, InitRegister(v) PROVE ~ beside
  BY <1>7 DEF InitRegister
<1>8. CASE InitReady
  BY <1>8 DEF InitReady
<1>9. CASE InitLoaded
  BY <1>9 DEF InitLoaded
<1>10. CASE InitUnwind
  BY <1>10 DEF InitUnwind, Dealloc
<1>11. CASE InitUnwound
  BY <1>11 DEF InitUnwound
<1>12. CASE InitCancel
  BY <1>12 DEF InitCancel, Cancel
<1>13. CASE InitFailed
  BY <1>13 DEF InitFailed
<1>14. CASE EventStart
  BY <1>14 DEF EventStart, CallbackRuns
<1>15. CASE EventBegin
  BY <1>15 DEF EventBegin
<1>16. ASSUME NEW v \in Vport, Detach("event", v) PROVE ~ beside
  BY <1>16 DEF Detach
<1>17. CASE Close("event", "detach")
  BY <1>17 DEF Close
<1>18. CASE EventLock
  BY <1>18 DEF EventLock
<1>19. CASE EventCallback
  BY <1>19 DEF EventCallback
<1>20. CASE EventTrigger
  BY <1>20 DEF EventTrigger
<1>21. CASE EventDetected
  BY <1>21 DEF EventDetected
<1>22. CASE EventUndetected
  BY <1>22 DEF EventUndetected
<1>23. CASE EventCorer
  BY <1>23 DEF EventCorer
<1>24. CASE EventCorerDone
  BY <1>24 DEF EventCorerDone
<1>25. CASE EventCorerTimeout
  BY <1>25 DEF EventCorerTimeout
<1>26. CASE EventPoll
  BY <1>26 DEF EventPoll
<1>27. CASE EventPollTimeout
  BY <1>27 DEF EventPollTimeout
<1>28. CASE EventDeinit
  BY <1>28 DEF EventDeinit, CoreDown, CoreDeinitSkip, Cancel, Dealloc
<1>29. CASE EventRelease
  BY <1>29 DEF EventRelease, CoreRelease, Cancel
<1>30. CASE EventMbxDown
  BY <1>30 DEF EventMbxDown
<1>31. CASE EventNoDeinit
  BY <1>31 DEF EventNoDeinit
<1>32. CASE EventRecover
  BY <1>32 DEF EventRecover
<1>33. CASE EventNoMbx
  BY <1>33 DEF EventNoMbx
<1>34. CASE EventCore
  BY <1>34 DEF EventCore
<1>35. CASE EventCoreDone
  BY <1>35 DEF EventCoreDone
<1>36. CASE EventCoreRetry
  BY <1>36 DEF EventCoreRetry
<1>37. CASE EventCoreError
  BY <1>37 DEF EventCoreError
<1>38. CASE EventInitErr
  BY <1>38 DEF EventInitErr, Cancel
<1>39. CASE EventWait
  BY <1>39 DEF EventWait
<1>40. CASE EventFail
  BY <1>40 DEF EventFail
<1>41. ASSUME NEW v \in Vport, EventAttach(v) PROVE ~ beside
  BY <1>41 DEF EventAttach
<1>42. CASE EventReopen
  BY <1>42 DEF EventReopen, StartOpen
<1>43. CASE Open("event", "attach")
  BY <1>43 DEF Open
<1>44. CASE EventEnd
  BY <1>44 DEF EventEnd
<1>45. CASE PciCancelServ
  BY <1>45 DEF PciCancelServ, Cancel
<1>46. CASE PciCancelEvent
  BY <1>46 DEF PciCancelEvent, Cancel
<1>47. CASE PciCancelInit
  BY <1>47 DEF PciCancelInit, Cancel
<1>48. CASE PciBegin
  BY <1>48 DEF PciBegin
<1>49. ASSUME NEW v \in Vport, Detach("pci", v) PROVE ~ beside
  BY <1>49 DEF Detach
<1>50. CASE Close("pci", "detach")
  BY <1>50 DEF Close
<1>51. CASE PciLock
  BY <1>51 DEF PciLock
<1>52. CASE PciDeinit
  BY <1>52 DEF PciDeinit, CoreDown, CoreDeinitSkip, Cancel, Dealloc
<1>53. CASE PciRelease
  BY <1>53 DEF PciRelease, CoreRelease, Cancel
<1>54. CASE PciMbxDown
  BY <1>54 DEF PciMbxDown
<1>55. CASE PciPrepared
  BY <1>55 DEF PciPrepared
<1>56. CASE PciBusReset
  BY <1>56 DEF PciBusReset
<1>57. CASE PciSlotLost
  BY <1>57 DEF PciSlotLost
<1>58. CASE PciResume
  BY <1>58 DEF PciResume
<1>59. CASE PciError
  BY <1>59 DEF PciError, PciStart
<1>60. CASE PciFlr
  BY <1>60 DEF PciFlr, PciStart
<1>61. CASE RemoveStart
  BY <1>61 DEF RemoveStart
<1>62. CASE RemoveCancelEvent
  BY <1>62 DEF RemoveCancelEvent, Cancel
<1>63. CASE RemoveDeinit
  BY <1>63 DEF RemoveDeinit, CoreDown, CoreDeinitSkip, Cancel, Dealloc
<1>64. CASE RemoveRelease
  BY <1>64 DEF RemoveRelease, CoreRelease, Cancel
<1>65. CASE RemoveMbxDown
  BY <1>65 DEF RemoveMbxDown
<1>66. ASSUME NEW v \in Vport, RemoveUnregister(v) PROVE ~ beside
  BY <1>66 DEF RemoveUnregister
<1>67. CASE RemoveFree
  BY <1>67 DEF RemoveFree
<1>68. CASE Open("user", "idle")
  BY <1>68 DEF Open
<1>69. CASE Close("user", "idle")
  BY <1>69 DEF Close
<1>70. ASSUME NEW v \in Vport, UserOpen(v) PROVE ~ beside
  BY <1>70 DEF UserOpen, StartOpen
<1>71. ASSUME NEW v \in Vport, UserClose(v) PROVE ~ beside
  BY <1>71 DEF UserClose
<1>72. CASE RequestReset
  BY <1>72 DEF RequestReset
<1>73. CASE MbIntrMsg
  BY <1>73 DEF MbIntrMsg
<1>74. CASE MbIntrCorer
  BY <1>74 DEF MbIntrCorer, AfterIntr
<1>75. CASE MbIntrCorerEnd
  BY <1>75 DEF MbIntrCorerEnd, AfterIntr
<1>76. CASE MbIntrLost
  BY <1>76 DEF MbIntrLost
<1>77. CASE DevReset("none")
  BY <1>77 DEF DevReset
<1>78. CASE DevReset("begin")
  BY <1>78 DEF DevReset
<1>79. CASE DevReady
  BY <1>79 DEF DevReady
<1>80. CASE UNCHANGED vars
  BY <1>80
<1>81. CASE ServTask
  BY <1>81, <1>1, <1>2, <1>3, <1>4 DEF ServTask
<1>82. CASE InitTask
  BY <1>82, <1>5, <1>6, <1>7, <1>8, <1>9, <1>10, <1>11, <1>12, <1>13
     DEF InitTask
<1>83. CASE EventTask
  BY <1>83, <1>14, <1>15, <1>16, <1>17, <1>18, <1>19, <1>20, <1>21, <1>22,
     <1>23, <1>24, <1>25, <1>26, <1>27, <1>28, <1>29, <1>30, <1>31, <1>32,
     <1>33, <1>34, <1>35, <1>36, <1>37, <1>38, <1>39, <1>40, <1>41, <1>42,
     <1>43, <1>44
     DEF EventTask, EventReset, EventRecovery
<1>84. CASE PciAny
  BY <1>84, <1>45, <1>46, <1>47, <1>48, <1>49, <1>50, <1>51, <1>52, <1>53,
     <1>54, <1>55, <1>56, <1>57, <1>58, <1>59, <1>60
     DEF PciAny, PciTask
<1>85. CASE RemoveStart
  BY <1>85, <1>61
<1>86. CASE RemoveTask
  BY <1>86, <1>62, <1>63, <1>64, <1>65, <1>66, <1>67 DEF RemoveTask
<1>87. CASE Users
  BY <1>87, <1>68, <1>69, <1>70, <1>71 DEF Users, UserTask
<1>88. CASE RequestReset
  BY <1>88, <1>72
<1>89. CASE MbIntr
  BY <1>89, <1>73, <1>74, <1>75, <1>76 DEF MbIntr
<1>90. CASE DevTask
  BY <1>90, <1>77, <1>78, <1>79 DEF DevTask
<1> QED
  BY <1>81, <1>82, <1>83, <1>84, <1>85, <1>86, <1>87, <1>88, <1>89, <1>90,
     <1>80
     DEF Next

(* The tasks and the callbacks take turns.                                 *)
LEMMA TurnKept == IInv /\ ~ beside' /\ [Next]_vars => TurnInv'
<1> SUFFICES ASSUME IInv /\ ~ beside', [Next]_vars PROVE TurnInv'
  OBVIOUS
<1> USE DEF vars, netVars, devVars, mbxVars, At, Fault, Trouble, IInv,
            PlaceInv, Closing, Finding, Tearing, Building, Holding, Opening,
            LockInv, CoreInv, CoreGone, None, TurnInv, InitActive
<1>0. ~ beside
  BY BesideStays
<1>1. CASE ServStart
  BY <1>0, <1>1, GoIs, Actors DEF ServStart
<1>2. CASE ServCheck
  BY <1>0, <1>2, GoIs, Actors DEF ServCheck, idpf_is_reset_in_prog
<1>3. CASE ServReset
  BY <1>0, <1>3, GoIs, Actors DEF ServReset
<1>4. CASE ServRearm
  BY <1>0, <1>4, GoIs, Actors DEF ServRearm
<1>5. CASE InitStart
  BY <1>0, <1>5, GoIs, Actors DEF InitStart
<1>6. CASE InitCreate
  BY <1>0, <1>6, GoIs, Actors DEF InitCreate
<1>7. ASSUME NEW v \in Vport, InitRegister(v) PROVE TurnInv'
  BY <1>0, <1>7 DEF InitRegister
<1>8. CASE InitReady
  BY <1>0, <1>8, GoIs, Actors DEF InitReady
<1>9. CASE InitLoaded
  BY <1>0, <1>9, GoIs, Actors DEF InitLoaded
<1>10. CASE InitUnwind
  BY <1>0, <1>10, GoIs, Actors DEF InitUnwind, Dealloc
<1>11. CASE InitUnwound
  BY <1>0, <1>11, GoIs, Actors DEF InitUnwound
<1>12. CASE InitCancel
  BY <1>0, <1>12, GoIs, Actors DEF InitCancel, Cancel
<1>13. CASE InitFailed
  BY <1>0, <1>13, GoIs, Actors DEF InitFailed
<1>14. CASE EventStart
  <2>1. /\ pc["event"] = "idle" /\ "event" \in pend /\ pend' = pend \ {"event"}
        /\ UNCHANGED <<flags>>
    BY <1>14 DEF EventStart
  <2>2. \/ Go("event", "idle")
        \/ /\ Go("event", "begin")
           /\ beside' = (beside \/ CallbackRuns)
    <3> DEFINE func == "HR_FUNC_RESET" \in flags
               load == flags \cap {"HR_DRV_LOAD", "PCI_CB_RESET"} # {}
               runs == "REMOVE_IN_PROG" \notin flags /\ (func \/ load)
    <3>1. /\ Go("event", IF runs THEN "begin" ELSE "idle")
          /\ beside' = (beside \/ (runs /\ CallbackRuns))
      BY <1>14 DEF EventStart
    <3> HIDE DEF func, load, runs
    <3>2. CASE runs
      BY <3>1, <3>2
    <3>3. CASE ~ runs
      BY <3>1, <3>3
    <3> QED
      BY <3>2, <3>3
  <2>3. CASE Go("event", "idle")
    BY <1>0, <2>1, <2>3, GoIs, Actors
  <2>4. CASE Go("event", "begin") /\ beside' = (beside \/ CallbackRuns)
    <3>1. ~ CallbackRuns
      BY <2>4
    <3> QED
      BY <1>0, <2>1, <2>4, <3>1, GoIs, Actors DEF CallbackRuns
  <2> QED
    BY <2>2, <2>3, <2>4
<1>15. CASE EventBegin
  BY <1>0, <1>15, GoIs, Actors DEF EventBegin
<1>16. ASSUME NEW v \in Vport, Detach("event", v) PROVE TurnInv'
  BY <1>0, <1>16, GoIs, Actors, CurIs DEF Detach
<1>17. CASE Close("event", "detach")
  BY <1>0, <1>17, GoIs, Actors DEF Close
<1>18. CASE EventLock
  BY <1>0, <1>18, GoIs, Actors DEF EventLock
<1>19. CASE EventCallback
  BY <1>0, <1>19, GoIs, Actors DEF EventCallback
<1>20. CASE EventTrigger
  BY <1>0, <1>20, GoIs, Actors DEF EventTrigger
<1>21. CASE EventDetected
  BY <1>0, <1>21, GoIs, Actors DEF EventDetected
<1>22. CASE EventUndetected
  BY <1>0, <1>22, GoIs, Actors DEF EventUndetected
<1>23. CASE EventCorer
  BY <1>0, <1>23, GoIs, Actors DEF EventCorer
<1>24. CASE EventCorerDone
  BY <1>0, <1>24, GoIs, Actors DEF EventCorerDone
<1>25. CASE EventCorerTimeout
  BY <1>0, <1>25, GoIs, Actors DEF EventCorerTimeout
<1>26. CASE EventPoll
  BY <1>0, <1>26, GoIs, Actors DEF EventPoll
<1>27. CASE EventPollTimeout
  BY <1>0, <1>27, GoIs, Actors DEF EventPollTimeout
<1>28. CASE EventDeinit
  BY <1>0, <1>28, GoIs, Actors
     DEF EventDeinit, CoreDown, CoreDeinitSkip, Cancel, Dealloc
<1>29. CASE EventRelease
  BY <1>0, <1>29, GoIs, Actors DEF EventRelease, CoreRelease, Cancel
<1>30. CASE EventMbxDown
  BY <1>0, <1>30, GoIs, Actors DEF EventMbxDown
<1>31. CASE EventNoDeinit
  BY <1>0, <1>31, GoIs, Actors DEF EventNoDeinit
<1>32. CASE EventRecover
  BY <1>0, <1>32, GoIs, Actors DEF EventRecover
<1>33. CASE EventNoMbx
  BY <1>0, <1>33, GoIs, Actors DEF EventNoMbx
<1>34. CASE EventCore
  BY <1>0, <1>34, GoIs, Actors DEF EventCore
<1>35. CASE EventCoreDone
  BY <1>0, <1>35, GoIs, Actors DEF EventCoreDone
<1>36. CASE EventCoreRetry
  BY <1>0, <1>36, GoIs, Actors DEF EventCoreRetry
<1>37. CASE EventCoreError
  BY <1>0, <1>37, GoIs, Actors DEF EventCoreError
<1>38. CASE EventInitErr
  BY <1>0, <1>38, GoIs, Actors DEF EventInitErr, Cancel
<1>39. CASE EventWait
  BY <1>0, <1>39, GoIs, Actors DEF EventWait
<1>40. CASE EventFail
  BY <1>0, <1>40, GoIs, Actors DEF EventFail
<1>41. ASSUME NEW v \in Vport, EventAttach(v) PROVE TurnInv'
  BY <1>0, <1>41, GoIs, Actors, CurIs DEF EventAttach
<1>42. CASE EventReopen
  BY <1>0, <1>42, GoIs, Actors, CurIs DEF EventReopen, StartOpen
<1>43. CASE Open("event", "attach")
  BY <1>0, <1>43, GoIs, Actors DEF Open
<1>44. CASE EventEnd
  BY <1>0, <1>44, GoIs, Actors DEF EventEnd
<1>45. CASE PciCancelServ
  BY <1>0, <1>45, GoIs, Actors DEF PciCancelServ, Cancel
<1>46. CASE PciCancelEvent
  BY <1>0, <1>46, GoIs, Actors DEF PciCancelEvent, Cancel
<1>47. CASE PciCancelInit
  BY <1>0, <1>47, GoIs, Actors DEF PciCancelInit, Cancel
<1>48. CASE PciBegin
  BY <1>0, <1>48, GoIs, Actors DEF PciBegin
<1>49. ASSUME NEW v \in Vport, Detach("pci", v) PROVE TurnInv'
  BY <1>0, <1>49, GoIs, Actors, CurIs DEF Detach
<1>50. CASE Close("pci", "detach")
  BY <1>0, <1>50, GoIs, Actors DEF Close
<1>51. CASE PciLock
  BY <1>0, <1>51, GoIs, Actors DEF PciLock
<1>52. CASE PciDeinit
  BY <1>0, <1>52, GoIs, Actors
     DEF PciDeinit, CoreDown, CoreDeinitSkip, Cancel, Dealloc
<1>53. CASE PciRelease
  BY <1>0, <1>53, GoIs, Actors DEF PciRelease, CoreRelease, Cancel
<1>54. CASE PciMbxDown
  BY <1>0, <1>54, GoIs, Actors DEF PciMbxDown
<1>55. CASE PciPrepared
  BY <1>0, <1>55, GoIs, Actors DEF PciPrepared
<1>56. CASE PciBusReset
  BY <1>0, <1>56, GoIs, Actors DEF PciBusReset
<1>57. CASE PciSlotLost
  BY <1>0, <1>57, GoIs, Actors DEF PciSlotLost
<1>58. CASE PciResume
  BY <1>0, <1>58, GoIs, Actors DEF PciResume
<1>59. CASE PciError
  BY <1>0, <1>59, GoIs, Actors DEF PciError, PciStart
<1>60. CASE PciFlr
  BY <1>0, <1>60, GoIs, Actors DEF PciFlr, PciStart
<1>61. CASE RemoveStart
  BY <1>0, <1>61, GoIs, Actors DEF RemoveStart
<1>62. CASE RemoveCancelEvent
  BY <1>0, <1>62, GoIs, Actors DEF RemoveCancelEvent, Cancel
<1>63. CASE RemoveDeinit
  BY <1>0, <1>63, GoIs, Actors
     DEF RemoveDeinit, CoreDown, CoreDeinitSkip, Cancel, Dealloc
<1>64. CASE RemoveRelease
  BY <1>0, <1>64, GoIs, Actors DEF RemoveRelease, CoreRelease, Cancel
<1>65. CASE RemoveMbxDown
  BY <1>0, <1>65, GoIs, Actors DEF RemoveMbxDown
<1>66. ASSUME NEW v \in Vport, RemoveUnregister(v) PROVE TurnInv'
  BY <1>0, <1>66 DEF RemoveUnregister
<1>67. CASE RemoveFree
  BY <1>0, <1>67, GoIs, Actors DEF RemoveFree
<1>68. CASE Open("user", "idle")
  BY <1>0, <1>68, GoIs, Actors DEF Open
<1>69. CASE Close("user", "idle")
  BY <1>0, <1>69, GoIs, Actors DEF Close
<1>70. ASSUME NEW v \in Vport, UserOpen(v) PROVE TurnInv'
  BY <1>0, <1>70, GoIs, Actors, CurIs DEF UserOpen, StartOpen
<1>71. ASSUME NEW v \in Vport, UserClose(v) PROVE TurnInv'
  BY <1>0, <1>71, GoIs, Actors, CurIs DEF UserClose
<1>72. CASE RequestReset
  BY <1>0, <1>72 DEF RequestReset
<1>73. CASE MbIntrMsg
  BY <1>0, <1>73 DEF MbIntrMsg
<1>74. CASE MbIntrCorer
  BY <1>0, <1>74 DEF MbIntrCorer, AfterIntr
<1>75. CASE MbIntrCorerEnd
  BY <1>0, <1>75 DEF MbIntrCorerEnd, AfterIntr
<1>76. CASE MbIntrLost
  BY <1>0, <1>76 DEF MbIntrLost
<1>77. CASE DevReset("none")
  BY <1>0, <1>77 DEF DevReset
<1>78. CASE DevReset("begin")
  BY <1>0, <1>78 DEF DevReset
<1>79. CASE DevReady
  BY <1>0, <1>79 DEF DevReady
<1>80. CASE UNCHANGED vars
  BY <1>0, <1>80
<1>81. CASE ServTask
  BY <1>81, <1>1, <1>2, <1>3, <1>4 DEF ServTask
<1>82. CASE InitTask
  BY <1>82, <1>5, <1>6, <1>7, <1>8, <1>9, <1>10, <1>11, <1>12, <1>13
     DEF InitTask
<1>83. CASE EventTask
  BY <1>83, <1>14, <1>15, <1>16, <1>17, <1>18, <1>19, <1>20, <1>21, <1>22,
     <1>23, <1>24, <1>25, <1>26, <1>27, <1>28, <1>29, <1>30, <1>31, <1>32,
     <1>33, <1>34, <1>35, <1>36, <1>37, <1>38, <1>39, <1>40, <1>41, <1>42,
     <1>43, <1>44
     DEF EventTask, EventReset, EventRecovery
<1>84. CASE PciAny
  BY <1>84, <1>45, <1>46, <1>47, <1>48, <1>49, <1>50, <1>51, <1>52, <1>53,
     <1>54, <1>55, <1>56, <1>57, <1>58, <1>59, <1>60
     DEF PciAny, PciTask
<1>85. CASE RemoveStart
  BY <1>85, <1>61
<1>86. CASE RemoveTask
  BY <1>86, <1>62, <1>63, <1>64, <1>65, <1>66, <1>67 DEF RemoveTask
<1>87. CASE Users
  BY <1>87, <1>68, <1>69, <1>70, <1>71 DEF Users, UserTask
<1>88. CASE RequestReset
  BY <1>88, <1>72
<1>89. CASE MbIntr
  BY <1>89, <1>73, <1>74, <1>75, <1>76 DEF MbIntr
<1>90. CASE DevTask
  BY <1>90, <1>77, <1>78, <1>79 DEF DevTask
<1> QED
  BY <1>81, <1>82, <1>83, <1>84, <1>85, <1>86, <1>87, <1>88, <1>89, <1>90,
     <1>80
     DEF Next

(* Whatever recovers without a teardown has nothing to tear down.          *)
LEMMA LoadKept == IInv /\ ~ beside' /\ [Next]_vars => LoadInv'
<1> SUFFICES ASSUME IInv /\ ~ beside', [Next]_vars PROVE LoadInv'
  OBVIOUS
<1> USE DEF vars, netVars, devVars, mbxVars, At, Fault, Trouble, IInv,
            PlaceInv, Closing, Finding, Tearing, Building, Holding, Opening,
            LockInv, CoreInv, CoreGone, None, TurnInv, InitActive, LoadInv,
            Bare
<1>0. ~ beside
  BY BesideStays
<1>1. CASE ServStart
  BY <1>0, <1>1, GoIs, Actors DEF ServStart
<1>2. CASE ServCheck
  BY <1>0, <1>2, GoIs, Actors DEF ServCheck, idpf_is_reset_in_prog
<1>3. CASE ServReset
  BY <1>0, <1>3, GoIs, Actors DEF ServReset
<1>4. CASE ServRearm
  BY <1>0, <1>4, GoIs, Actors DEF ServRearm
<1>5. CASE InitStart
  BY <1>0, <1>5, GoIs, Actors DEF InitStart
<1>6. CASE InitCreate
  BY <1>0, <1>6, GoIs, Actors DEF InitCreate
<1>7. ASSUME NEW v \in Vport, InitRegister(v) PROVE LoadInv'
  BY <1>0, <1>7 DEF InitRegister
<1>8. CASE InitReady
  BY <1>0, <1>8, GoIs, Actors DEF InitReady
<1>9. CASE InitLoaded
  BY <1>0, <1>9, GoIs, Actors DEF InitLoaded
<1>10. CASE InitUnwind
  BY <1>0, <1>10, GoIs, Actors DEF InitUnwind, Dealloc
<1>11. CASE InitUnwound
  BY <1>0, <1>11, GoIs, Actors DEF InitUnwound
<1>12. CASE InitCancel
  BY <1>0, <1>12, GoIs, Actors DEF InitCancel, Cancel
<1>13. CASE InitFailed
  BY <1>0, <1>13, GoIs, Actors DEF InitFailed
<1>14. CASE EventStart
  BY <1>0, <1>14, GoIs, Actors DEF EventStart, CallbackRuns
<1>15. CASE EventBegin
  BY <1>0, <1>15, GoIs, Actors DEF EventBegin
<1>16. ASSUME NEW v \in Vport, Detach("event", v) PROVE LoadInv'
  BY <1>0, <1>16, GoIs, Actors, CurIs DEF Detach
<1>17. CASE Close("event", "detach")
  BY <1>0, <1>17, GoIs, Actors DEF Close
<1>18. CASE EventLock
  BY <1>0, <1>18, GoIs, Actors DEF EventLock
<1>19. CASE EventCallback
  BY <1>0, <1>19, GoIs, Actors DEF EventCallback
<1>20. CASE EventTrigger
  BY <1>0, <1>20, GoIs, Actors DEF EventTrigger
<1>21. CASE EventDetected
  BY <1>0, <1>21, GoIs, Actors DEF EventDetected
<1>22. CASE EventUndetected
  BY <1>0, <1>22, GoIs, Actors DEF EventUndetected
<1>23. CASE EventCorer
  BY <1>0, <1>23, GoIs, Actors DEF EventCorer
<1>24. CASE EventCorerDone
  BY <1>0, <1>24, GoIs, Actors DEF EventCorerDone
<1>25. CASE EventCorerTimeout
  BY <1>0, <1>25, GoIs, Actors DEF EventCorerTimeout
<1>26. CASE EventPoll
  BY <1>0, <1>26, GoIs, Actors DEF EventPoll
<1>27. CASE EventPollTimeout
  BY <1>0, <1>27, GoIs, Actors DEF EventPollTimeout
<1>28. CASE EventDeinit
  BY <1>0, <1>28, GoIs, Actors
     DEF EventDeinit, CoreDown, CoreDeinitSkip, Cancel, Dealloc
<1>29. CASE EventRelease
  BY <1>0, <1>29, GoIs, Actors DEF EventRelease, CoreRelease, Cancel
<1>30. CASE EventMbxDown
  BY <1>0, <1>30, GoIs, Actors DEF EventMbxDown
<1>31. CASE EventNoDeinit
  BY <1>0, <1>31, GoIs, Actors DEF EventNoDeinit
<1>32. CASE EventRecover
  BY <1>0, <1>32, GoIs, Actors DEF EventRecover
<1>33. CASE EventNoMbx
  BY <1>0, <1>33, GoIs, Actors DEF EventNoMbx
<1>34. CASE EventCore
  BY <1>0, <1>34, GoIs, Actors DEF EventCore
<1>35. CASE EventCoreDone
  BY <1>0, <1>35, GoIs, Actors DEF EventCoreDone
<1>36. CASE EventCoreRetry
  BY <1>0, <1>36, GoIs, Actors DEF EventCoreRetry
<1>37. CASE EventCoreError
  BY <1>0, <1>37, GoIs, Actors DEF EventCoreError
<1>38. CASE EventInitErr
  BY <1>0, <1>38, GoIs, Actors DEF EventInitErr, Cancel
<1>39. CASE EventWait
  BY <1>0, <1>39, GoIs, Actors DEF EventWait
<1>40. CASE EventFail
  BY <1>0, <1>40, GoIs, Actors DEF EventFail
<1>41. ASSUME NEW v \in Vport, EventAttach(v) PROVE LoadInv'
  BY <1>0, <1>41, GoIs, Actors, CurIs DEF EventAttach
<1>42. CASE EventReopen
  BY <1>0, <1>42, GoIs, Actors, CurIs DEF EventReopen, StartOpen
<1>43. CASE Open("event", "attach")
  BY <1>0, <1>43, GoIs, Actors DEF Open
<1>44. CASE EventEnd
  BY <1>0, <1>44, GoIs, Actors DEF EventEnd
<1>45. CASE PciCancelServ
  BY <1>0, <1>45, GoIs, Actors DEF PciCancelServ, Cancel
<1>46. CASE PciCancelEvent
  BY <1>0, <1>46, GoIs, Actors DEF PciCancelEvent, Cancel
<1>47. CASE PciCancelInit
  BY <1>0, <1>47, GoIs, Actors DEF PciCancelInit, Cancel
<1>48. CASE PciBegin
  BY <1>0, <1>48, GoIs, Actors DEF PciBegin
<1>49. ASSUME NEW v \in Vport, Detach("pci", v) PROVE LoadInv'
  BY <1>0, <1>49, GoIs, Actors, CurIs DEF Detach
<1>50. CASE Close("pci", "detach")
  BY <1>0, <1>50, GoIs, Actors DEF Close
<1>51. CASE PciLock
  BY <1>0, <1>51, GoIs, Actors DEF PciLock
<1>52. CASE PciDeinit
  BY <1>0, <1>52, GoIs, Actors
     DEF PciDeinit, CoreDown, CoreDeinitSkip, Cancel, Dealloc
<1>53. CASE PciRelease
  BY <1>0, <1>53, GoIs, Actors DEF PciRelease, CoreRelease, Cancel
<1>54. CASE PciMbxDown
  BY <1>0, <1>54, GoIs, Actors DEF PciMbxDown
<1>55. CASE PciPrepared
  BY <1>0, <1>55, GoIs, Actors DEF PciPrepared
<1>56. CASE PciBusReset
  BY <1>0, <1>56, GoIs, Actors DEF PciBusReset
<1>57. CASE PciSlotLost
  BY <1>0, <1>57, GoIs, Actors DEF PciSlotLost
<1>58. CASE PciResume
  BY <1>0, <1>58, GoIs, Actors DEF PciResume
<1>59. CASE PciError
  BY <1>0, <1>59, GoIs, Actors DEF PciError, PciStart
<1>60. CASE PciFlr
  BY <1>0, <1>60, GoIs, Actors DEF PciFlr, PciStart
<1>61. CASE RemoveStart
  BY <1>0, <1>61, GoIs, Actors DEF RemoveStart
<1>62. CASE RemoveCancelEvent
  BY <1>0, <1>62, GoIs, Actors DEF RemoveCancelEvent, Cancel
<1>63. CASE RemoveDeinit
  BY <1>0, <1>63, GoIs, Actors
     DEF RemoveDeinit, CoreDown, CoreDeinitSkip, Cancel, Dealloc
<1>64. CASE RemoveRelease
  BY <1>0, <1>64, GoIs, Actors DEF RemoveRelease, CoreRelease, Cancel
<1>65. CASE RemoveMbxDown
  BY <1>0, <1>65, GoIs, Actors DEF RemoveMbxDown
<1>66. ASSUME NEW v \in Vport, RemoveUnregister(v) PROVE LoadInv'
  BY <1>0, <1>66 DEF RemoveUnregister
<1>67. CASE RemoveFree
  BY <1>0, <1>67, GoIs, Actors DEF RemoveFree
<1>68. CASE Open("user", "idle")
  BY <1>0, <1>68, GoIs, Actors DEF Open
<1>69. CASE Close("user", "idle")
  BY <1>0, <1>69, GoIs, Actors DEF Close
<1>70. ASSUME NEW v \in Vport, UserOpen(v) PROVE LoadInv'
  BY <1>0, <1>70, GoIs, Actors, CurIs DEF UserOpen, StartOpen
<1>71. ASSUME NEW v \in Vport, UserClose(v) PROVE LoadInv'
  BY <1>0, <1>71, GoIs, Actors, CurIs DEF UserClose
<1>72. CASE RequestReset
  BY <1>0, <1>72 DEF RequestReset, idpf_is_reset_in_prog
<1>73. CASE MbIntrMsg
  BY <1>0, <1>73 DEF MbIntrMsg
<1>74. CASE MbIntrCorer
  BY <1>0, <1>74 DEF MbIntrCorer, AfterIntr
<1>75. CASE MbIntrCorerEnd
  BY <1>0, <1>75 DEF MbIntrCorerEnd, AfterIntr
<1>76. CASE MbIntrLost
  BY <1>0, <1>76 DEF MbIntrLost
<1>77. CASE DevReset("none")
  BY <1>0, <1>77 DEF DevReset
<1>78. CASE DevReset("begin")
  BY <1>0, <1>78 DEF DevReset
<1>79. CASE DevReady
  BY <1>0, <1>79 DEF DevReady
<1>80. CASE UNCHANGED vars
  BY <1>0, <1>80
<1>81. CASE ServTask
  BY <1>81, <1>1, <1>2, <1>3, <1>4 DEF ServTask
<1>82. CASE InitTask
  BY <1>82, <1>5, <1>6, <1>7, <1>8, <1>9, <1>10, <1>11, <1>12, <1>13
     DEF InitTask
<1>83. CASE EventTask
  BY <1>83, <1>14, <1>15, <1>16, <1>17, <1>18, <1>19, <1>20, <1>21, <1>22,
     <1>23, <1>24, <1>25, <1>26, <1>27, <1>28, <1>29, <1>30, <1>31, <1>32,
     <1>33, <1>34, <1>35, <1>36, <1>37, <1>38, <1>39, <1>40, <1>41, <1>42,
     <1>43, <1>44
     DEF EventTask, EventReset, EventRecovery
<1>84. CASE PciAny
  BY <1>84, <1>45, <1>46, <1>47, <1>48, <1>49, <1>50, <1>51, <1>52, <1>53,
     <1>54, <1>55, <1>56, <1>57, <1>58, <1>59, <1>60
     DEF PciAny, PciTask
<1>85. CASE RemoveStart
  BY <1>85, <1>61
<1>86. CASE RemoveTask
  BY <1>86, <1>62, <1>63, <1>64, <1>65, <1>66, <1>67 DEF RemoveTask
<1>87. CASE Users
  BY <1>87, <1>68, <1>69, <1>70, <1>71 DEF Users, UserTask
<1>88. CASE RequestReset
  BY <1>88, <1>72
<1>89. CASE MbIntr
  BY <1>89, <1>73, <1>74, <1>75, <1>76 DEF MbIntr
<1>90. CASE DevTask
  BY <1>90, <1>77, <1>78, <1>79 DEF DevTask
<1> QED
  BY <1>81, <1>82, <1>83, <1>84, <1>85, <1>86, <1>87, <1>88, <1>89, <1>90,
     <1>80
     DEF Next

(* Network devices have vports.                                            *)
LEMMA NetKept == IInv /\ ~ beside' /\ [Next]_vars => NetInv'
<1> SUFFICES ASSUME IInv /\ ~ beside', [Next]_vars PROVE NetInv'
  OBVIOUS
<1> USE DEF vars, netVars, devVars, mbxVars, At, Fault, Trouble, IInv,
            PlaceInv, Closing, Finding, Tearing, Building, Holding, Opening,
            LockInv, CoreInv, CoreGone, None, TurnInv, InitActive, NetInv,
            WorkOnInv
<1>0. ~ beside
  BY BesideStays
<1>1. CASE ServStart
  BY <1>0, <1>1, GoIs, Actors DEF ServStart
<1>2. CASE ServCheck
  BY <1>0, <1>2, GoIs, Actors DEF ServCheck, idpf_is_reset_in_prog
<1>3. CASE ServReset
  BY <1>0, <1>3, GoIs, Actors DEF ServReset
<1>4. CASE ServRearm
  BY <1>0, <1>4, GoIs, Actors DEF ServRearm
<1>5. CASE InitStart
  BY <1>0, <1>5, GoIs, Actors DEF InitStart
<1>6. CASE InitCreate
  BY <1>0, <1>6, GoIs, Actors DEF InitCreate
<1>7. ASSUME NEW v \in Vport, InitRegister(v) PROVE NetInv'
  BY <1>0, <1>7 DEF InitRegister
<1>8. CASE InitReady
  BY <1>0, <1>8, GoIs, Actors DEF InitReady
<1>9. CASE InitLoaded
  BY <1>0, <1>9, GoIs, Actors DEF InitLoaded
<1>10. CASE InitUnwind
  BY <1>0, <1>10, GoIs, Actors DEF InitUnwind, Dealloc
<1>11. CASE InitUnwound
  BY <1>0, <1>11, GoIs, Actors DEF InitUnwound
<1>12. CASE InitCancel
  BY <1>0, <1>12, GoIs, Actors DEF InitCancel, Cancel
<1>13. CASE InitFailed
  BY <1>0, <1>13, GoIs, Actors DEF InitFailed
<1>14. CASE EventStart
  BY <1>0, <1>14, GoIs, Actors DEF EventStart, CallbackRuns
<1>15. CASE EventBegin
  BY <1>0, <1>15, GoIs, Actors DEF EventBegin
<1>16. ASSUME NEW v \in Vport, Detach("event", v) PROVE NetInv'
  BY <1>0, <1>16, GoIs, Actors, CurIs DEF Detach
<1>17. CASE Close("event", "detach")
  BY <1>0, <1>17, GoIs, Actors DEF Close
<1>18. CASE EventLock
  BY <1>0, <1>18, GoIs, Actors DEF EventLock
<1>19. CASE EventCallback
  BY <1>0, <1>19, GoIs, Actors DEF EventCallback
<1>20. CASE EventTrigger
  BY <1>0, <1>20, GoIs, Actors DEF EventTrigger
<1>21. CASE EventDetected
  BY <1>0, <1>21, GoIs, Actors DEF EventDetected
<1>22. CASE EventUndetected
  BY <1>0, <1>22, GoIs, Actors DEF EventUndetected
<1>23. CASE EventCorer
  BY <1>0, <1>23, GoIs, Actors DEF EventCorer
<1>24. CASE EventCorerDone
  BY <1>0, <1>24, GoIs, Actors DEF EventCorerDone
<1>25. CASE EventCorerTimeout
  BY <1>0, <1>25, GoIs, Actors DEF EventCorerTimeout
<1>26. CASE EventPoll
  BY <1>0, <1>26, GoIs, Actors DEF EventPoll
<1>27. CASE EventPollTimeout
  BY <1>0, <1>27, GoIs, Actors DEF EventPollTimeout
<1>28. CASE EventDeinit
  BY <1>0, <1>28, GoIs, Actors
     DEF EventDeinit, CoreDown, CoreDeinitSkip, Cancel, Dealloc
<1>29. CASE EventRelease
  BY <1>0, <1>29, GoIs, Actors DEF EventRelease, CoreRelease, Cancel
<1>30. CASE EventMbxDown
  BY <1>0, <1>30, GoIs, Actors DEF EventMbxDown
<1>31. CASE EventNoDeinit
  BY <1>0, <1>31, GoIs, Actors DEF EventNoDeinit
<1>32. CASE EventRecover
  BY <1>0, <1>32, GoIs, Actors DEF EventRecover
<1>33. CASE EventNoMbx
  BY <1>0, <1>33, GoIs, Actors DEF EventNoMbx
<1>34. CASE EventCore
  BY <1>0, <1>34, GoIs, Actors DEF EventCore
<1>35. CASE EventCoreDone
  BY <1>0, <1>35, GoIs, Actors DEF EventCoreDone
<1>36. CASE EventCoreRetry
  BY <1>0, <1>36, GoIs, Actors DEF EventCoreRetry
<1>37. CASE EventCoreError
  BY <1>0, <1>37, GoIs, Actors DEF EventCoreError
<1>38. CASE EventInitErr
  BY <1>0, <1>38, GoIs, Actors DEF EventInitErr, Cancel
<1>39. CASE EventWait
  BY <1>0, <1>39, GoIs, Actors DEF EventWait
<1>40. CASE EventFail
  BY <1>0, <1>40, GoIs, Actors DEF EventFail
<1>41. ASSUME NEW v \in Vport, EventAttach(v) PROVE NetInv'
  <2>1. /\ pc["event"] = "attach" /\ v \in vports /\ v \notin present
        /\ present' = present \cup {v}
        /\ cur' = [cur EXCEPT !["event"] = v]
        /\ UNCHANGED <<flags, vports, running, up, rtnl>>
    BY <1>41 DEF EventAttach
  <2>2. /\ cur'["event"] = v /\ cur'["pci"] = cur["pci"]
        /\ cur'["user"] = cur["user"]
    BY <2>1, Actors DEF CurFun
  <2>3. /\ pc'["event"] \in {"reopen", "attach"} /\ pc'["init"] = pc["init"]
        /\ pc'["pci"] = pc["pci"] /\ pc'["user"] = pc["user"]
    BY <1>41, GoIs, Actors DEF EventAttach
  <2>4. "HR_RESET_IN_PROG" \notin flags /\ pc["pci"] # "close"
    BY <1>0, <2>1
  <2> QED
    BY <1>0, <2>1, <2>2, <2>3, <2>4
<1>42. CASE EventReopen
  BY <1>0, <1>42, GoIs, Actors, CurIs DEF EventReopen, StartOpen
<1>43. CASE Open("event", "attach")
  BY <1>0, <1>43, GoIs, Actors DEF Open
<1>44. CASE EventEnd
  BY <1>0, <1>44, GoIs, Actors DEF EventEnd
<1>45. CASE PciCancelServ
  BY <1>0, <1>45, GoIs, Actors DEF PciCancelServ, Cancel
<1>46. CASE PciCancelEvent
  BY <1>0, <1>46, GoIs, Actors DEF PciCancelEvent, Cancel
<1>47. CASE PciCancelInit
  BY <1>0, <1>47, GoIs, Actors DEF PciCancelInit, Cancel
<1>48. CASE PciBegin
  BY <1>0, <1>48, GoIs, Actors DEF PciBegin
<1>49. ASSUME NEW v \in Vport, Detach("pci", v) PROVE NetInv'
  BY <1>0, <1>49, GoIs, Actors, CurIs DEF Detach
<1>50. CASE Close("pci", "detach")
  BY <1>0, <1>50, GoIs, Actors DEF Close
<1>51. CASE PciLock
  BY <1>0, <1>51, GoIs, Actors DEF PciLock
<1>52. CASE PciDeinit
  BY <1>0, <1>52, GoIs, Actors
     DEF PciDeinit, CoreDown, CoreDeinitSkip, Cancel, Dealloc
<1>53. CASE PciRelease
  BY <1>0, <1>53, GoIs, Actors DEF PciRelease, CoreRelease, Cancel
<1>54. CASE PciMbxDown
  BY <1>0, <1>54, GoIs, Actors DEF PciMbxDown
<1>55. CASE PciPrepared
  BY <1>0, <1>55, GoIs, Actors DEF PciPrepared
<1>56. CASE PciBusReset
  BY <1>0, <1>56, GoIs, Actors DEF PciBusReset
<1>57. CASE PciSlotLost
  BY <1>0, <1>57, GoIs, Actors DEF PciSlotLost
<1>58. CASE PciResume
  BY <1>0, <1>58, GoIs, Actors DEF PciResume
<1>59. CASE PciError
  BY <1>0, <1>59, GoIs, Actors DEF PciError, PciStart
<1>60. CASE PciFlr
  BY <1>0, <1>60, GoIs, Actors DEF PciFlr, PciStart
<1>61. CASE RemoveStart
  BY <1>0, <1>61, GoIs, Actors DEF RemoveStart
<1>62. CASE RemoveCancelEvent
  BY <1>0, <1>62, GoIs, Actors DEF RemoveCancelEvent, Cancel
<1>63. CASE RemoveDeinit
  BY <1>0, <1>63, GoIs, Actors
     DEF RemoveDeinit, CoreDown, CoreDeinitSkip, Cancel, Dealloc
<1>64. CASE RemoveRelease
  BY <1>0, <1>64, GoIs, Actors DEF RemoveRelease, CoreRelease, Cancel
<1>65. CASE RemoveMbxDown
  BY <1>0, <1>65, GoIs, Actors DEF RemoveMbxDown
<1>66. ASSUME NEW v \in Vport, RemoveUnregister(v) PROVE NetInv'
  BY <1>0, <1>66 DEF RemoveUnregister
<1>67. CASE RemoveFree
  BY <1>0, <1>67, GoIs, Actors DEF RemoveFree
<1>68. CASE Open("user", "idle")
  BY <1>0, <1>68, GoIs, Actors DEF Open
<1>69. CASE Close("user", "idle")
  BY <1>0, <1>69, GoIs, Actors DEF Close
<1>70. ASSUME NEW v \in Vport, UserOpen(v) PROVE NetInv'
  <2>1. /\ pc["user"] = "idle" /\ v \in present /\ v \notin running
        /\ rtnl = None /\ running' = running \cup {v}
        /\ cur' = [cur EXCEPT !["user"] = v]
        /\ UNCHANGED <<flags, vports, present, up>>
    BY <1>70 DEF UserOpen, StartOpen
  <2>2. /\ cur'["user"] = v /\ cur'["pci"] = cur["pci"]
        /\ cur'["event"] = cur["event"]
    BY <2>1, Actors DEF CurFun
  <2>3. /\ pc'["user"] \in {"idle", "open"} /\ pc'["init"] = pc["init"]
        /\ pc'["pci"] = pc["pci"] /\ pc'["event"] = pc["event"]
    BY <1>70, GoIs, Actors DEF UserOpen, StartOpen
  <2> QED
    BY <1>0, <2>1, <2>2, <2>3
<1>71. ASSUME NEW v \in Vport, UserClose(v) PROVE NetInv'
  BY <1>0, <1>71, GoIs, Actors, CurIs DEF UserClose
<1>72. CASE RequestReset
  BY <1>0, <1>72 DEF RequestReset
<1>73. CASE MbIntrMsg
  BY <1>0, <1>73 DEF MbIntrMsg
<1>74. CASE MbIntrCorer
  BY <1>0, <1>74 DEF MbIntrCorer, AfterIntr
<1>75. CASE MbIntrCorerEnd
  BY <1>0, <1>75 DEF MbIntrCorerEnd, AfterIntr
<1>76. CASE MbIntrLost
  BY <1>0, <1>76 DEF MbIntrLost
<1>77. CASE DevReset("none")
  BY <1>0, <1>77 DEF DevReset
<1>78. CASE DevReset("begin")
  BY <1>0, <1>78 DEF DevReset
<1>79. CASE DevReady
  BY <1>0, <1>79 DEF DevReady
<1>80. CASE UNCHANGED vars
  BY <1>0, <1>80
<1>81. CASE ServTask
  BY <1>81, <1>1, <1>2, <1>3, <1>4 DEF ServTask
<1>82. CASE InitTask
  BY <1>82, <1>5, <1>6, <1>7, <1>8, <1>9, <1>10, <1>11, <1>12, <1>13
     DEF InitTask
<1>83. CASE EventTask
  BY <1>83, <1>14, <1>15, <1>16, <1>17, <1>18, <1>19, <1>20, <1>21, <1>22,
     <1>23, <1>24, <1>25, <1>26, <1>27, <1>28, <1>29, <1>30, <1>31, <1>32,
     <1>33, <1>34, <1>35, <1>36, <1>37, <1>38, <1>39, <1>40, <1>41, <1>42,
     <1>43, <1>44
     DEF EventTask, EventReset, EventRecovery
<1>84. CASE PciAny
  BY <1>84, <1>45, <1>46, <1>47, <1>48, <1>49, <1>50, <1>51, <1>52, <1>53,
     <1>54, <1>55, <1>56, <1>57, <1>58, <1>59, <1>60
     DEF PciAny, PciTask
<1>85. CASE RemoveStart
  BY <1>85, <1>61
<1>86. CASE RemoveTask
  BY <1>86, <1>62, <1>63, <1>64, <1>65, <1>66, <1>67 DEF RemoveTask
<1>87. CASE Users
  BY <1>87, <1>68, <1>69, <1>70, <1>71 DEF Users, UserTask
<1>88. CASE RequestReset
  BY <1>88, <1>72
<1>89. CASE MbIntr
  BY <1>89, <1>73, <1>74, <1>75, <1>76 DEF MbIntr
<1>90. CASE DevTask
  BY <1>90, <1>77, <1>78, <1>79 DEF DevTask
<1> QED
  BY <1>81, <1>82, <1>83, <1>84, <1>85, <1>86, <1>87, <1>88, <1>89, <1>90,
     <1>80
     DEF Next

--------------------------------------------------------------------------------
(* The adapter as the probe leaves it                                      *)
LEMMA HardInit == Init => IInv
<1> SUFFICES ASSUME Init PROVE IInv
  OBVIOUS
<1> USE DEF Init
<1>0. PcFun /\ CurFun
  BY NumVportsAssumption DEF PcFun, CurFun
<1>1. /\ pc["serv"] = "idle" /\ pc["init"] = "idle" /\ pc["event"] = "idle"
      /\ pc["pci"] = "idle" /\ pc["remove"] = "idle" /\ pc["user"] = "idle"
  BY Actors
<1> USE DEF Closing, Finding, Tearing, Building, Holding, Opening, None
<1>2. TypeInv /\ PlaceInv
  BY <1>1 DEF TypeInv, PlaceInv, Flag, Work
<1>3. LockInv /\ WorkOnInv
  BY <1>1 DEF LockInv, WorkOnInv
<1>4. CoreInv /\ TurnInv
  BY <1>1 DEF CoreInv, CoreGone, TurnInv, InitActive
<1>5. NetInv /\ LoadInv
  BY <1>1 DEF NetInv, LoadInv, Bare, CoreGone
<1> QED
  BY <1>0, <1>2, <1>3, <1>4, <1>5 DEF IInv

(* The inductive invariant of loading, resetting and removing              *)
LEMMA HardInvariant == Spec => []IInv
<1>1. IInv /\ [Next]_vars => IInv'
  <2> SUFFICES ASSUME IInv, [Next]_vars PROVE IInv'
    OBVIOUS
  <2>1. TypeInv' /\ PcFun' /\ CurFun' /\ PlaceInv'
    BY TypeKept, PcKept, CurKept, PlaceKept
  <2>2. LockInv' /\ WorkOnInv' /\ CoreInv'
    BY LockKept, WorkOnKept, CoreKept
  <2>3. ~ beside' => TurnInv' /\ NetInv' /\ LoadInv'
    BY TurnKept, NetKept, LoadKept
  <2> QED
    BY <2>1, <2>2, <2>3 DEF IInv
<1> QED
  BY HardInit, <1>1, PTL DEF Spec

(* The state of the adapter is well formed, and unless the event task ran  *)
(* beside the PCI callbacks, a network device that is attached, runs or is *)
(* up has a vport, through idpf_vport_dealloc in a reset and out of one.   *)
THEOREM VportsSafe == Spec => []VportsSound
<1>1. IInv => VportsSound
  <2> SUFFICES ASSUME IInv PROVE VportsSound
    OBVIOUS
  <2> USE DEF IInv
  <2>1. TypeOK
    <3>1. {rtnl, ctrl} \subseteq Actor \cup {None}
      BY Actors DEF LockInv
    <3>2. \A S \in {vports, present, running, upreq, up} : S \subseteq Vport
      BY DEF TypeInv
    <3>3. {mbx, active, corer_done, arqena, rdy, devreq, beside} \subseteq BOOLEAN
      BY DEF TypeInv
    <3> QED
      BY <3>1, <3>2, <3>3 DEF TypeOK, TypeInv, CurFun
  <2>2. ASSUME ~ beside PROVE VportLive
    <3>1. NetInv
      BY <2>2
    <3>2. present \subseteq vports /\ up \subseteq running
      BY <3>1 DEF NetInv
    <3>3. ASSUME NEW v \in running PROVE v \in vports
      BY <3>1, <3>2, <3>3 DEF NetInv
    <3> QED
      BY <3>2, <3>3 DEF VportLive
  <2> QED
    BY <2>1, <2>2 DEF VportsSound, VportLiveAlone
<1> QED
  BY HardInvariant, <1>1, PTL

(* idpf_init_dflt_mbx and idpf_vc_core_init find neither a mailbox nor a   *)
(* core, nor vports, nor an init task at work, unless the event task ran   *)
(* beside the PCI callbacks.                                               *)
THEOREM RecoverSafe == Spec => []RecoversFromNothing
<1>1. IInv => RecoversFromNothing
  <2> SUFFICES ASSUME IInv, ~ beside PROVE RecoversFromNothing
    BY DEF RecoversFromNothing
  <2> USE DEF IInv
  <2>1. pc["event"] = "recover" => ~ mbx
    BY DEF LoadInv
  <2>2. pc["event"] \in {"recover", "core"} => CoreGone
    BY DEF LoadInv
  <2>3. CoreGone /\ pc["event"] # "core_done" => vports = {} /\ pc["init"] = "idle"
    BY DEF CoreInv
  <2> QED
    BY <2>1, <2>2, <2>3 DEF RecoversFromNothing, At, CoreGone
<1> QED
  BY HardInvariant, <1>1, PTL

(* idpf_remove leaves neither service nor init work behind, queued or at   *)
(* work, and no event task at work.                                        *)
THEOREM DrainSafe == Spec => []WorksDrained
<1>1. IInv => WorksDrained
  <2> SUFFICES ASSUME IInv, pc["remove"] = "gone" PROVE WorksDrained
    BY DEF WorksDrained, At
  <2>1. CoreGone /\ pc["event"] = "idle"
    BY DEF IInv, CoreInv
  <2>2. /\ pc["init"] = "idle" /\ "init" \notin pend
        /\ pc["serv"] = "idle" /\ "serv" \notin pend
    BY <2>1 DEF IInv, CoreInv
  <2> QED
    BY <2>1, <2>2 DEF WorksDrained, At, Work
<1> QED
  BY HardInvariant, <1>1, PTL

(* Nothing but an error or a reset of the PCI core runs its callbacks.     *)
NoCallback == pc["pci"] = "idle" /\ ~ beside

(* Without such troubles no callback ever starts.                          *)
LEMMA CallbackNever ==
  ASSUME Troubles \cap {"err", "flr"} = {}, IInv, NoCallback, [Next]_vars
  PROVE  NoCallback'
<1> USE DEF vars, netVars, devVars, mbxVars, At, Fault, Trouble, NoCallback
<1>0. PcFun /\ PlaceInv
  BY DEF IInv
<1>1. CASE ServStart
  BY <1>1, <1>0, GoIs, Actors DEF ServStart
<1>2. CASE ServCheck
  BY <1>2, <1>0, GoIs, Actors DEF ServCheck
<1>3. CASE ServReset
  BY <1>3, <1>0, GoIs, Actors DEF ServReset
<1>4. CASE ServRearm
  BY <1>4, <1>0, GoIs, Actors DEF ServRearm
<1>5. CASE InitStart
  BY <1>5, <1>0, GoIs, Actors DEF InitStart
<1>6. CASE InitCreate
  BY <1>6, <1>0, GoIs, Actors DEF InitCreate
<1>7. ASSUME NEW v \in Vport, InitRegister(v) PROVE NoCallback'
  BY <1>7 DEF InitRegister
<1>8. CASE InitReady
  BY <1>8, <1>0, GoIs, Actors DEF InitReady
<1>9. CASE InitLoaded
  BY <1>9, <1>0, GoIs, Actors DEF InitLoaded
<1>10. CASE InitUnwind
  BY <1>10, <1>0, GoIs, Actors DEF InitUnwind, Dealloc
<1>11. CASE InitUnwound
  BY <1>11, <1>0, GoIs, Actors DEF InitUnwound
<1>12. CASE InitCancel
  BY <1>12, <1>0, GoIs, Actors DEF InitCancel, Cancel
<1>13. CASE InitFailed
  BY <1>13, <1>0, GoIs, Actors DEF InitFailed
<1>14. CASE EventStart
  BY <1>14, <1>0, GoIs, Actors DEF EventStart, CallbackRuns
<1>15. CASE EventBegin
  BY <1>15, <1>0, GoIs, Actors DEF EventBegin
<1>16. ASSUME NEW v \in Vport, Detach("event", v) PROVE NoCallback'
  BY <1>16, <1>0, GoIs, Actors DEF Detach
<1>17. CASE Close("event", "detach")
  BY <1>17, <1>0, GoIs, Actors DEF Close
<1>18. CASE EventLock
  BY <1>18, <1>0, GoIs, Actors DEF EventLock
<1>19. CASE EventCallback
  BY <1>19, <1>0, GoIs, Actors DEF EventCallback
<1>20. CASE EventTrigger
  BY <1>20, <1>0, GoIs, Actors DEF EventTrigger
<1>21. CASE EventDetected
  BY <1>21, <1>0, GoIs, Actors DEF EventDetected
<1>22. CASE EventUndetected
  BY <1>22, <1>0, GoIs, Actors DEF EventUndetected
<1>23. CASE EventCorer
  BY <1>23, <1>0, GoIs, Actors DEF EventCorer
<1>24. CASE EventCorerDone
  BY <1>24, <1>0, GoIs, Actors DEF EventCorerDone
<1>25. CASE EventCorerTimeout
  BY <1>25, <1>0, GoIs, Actors DEF EventCorerTimeout
<1>26. CASE EventPoll
  BY <1>26, <1>0, GoIs, Actors DEF EventPoll
<1>27. CASE EventPollTimeout
  BY <1>27, <1>0, GoIs, Actors DEF EventPollTimeout
<1>28. CASE EventDeinit
  BY <1>28, <1>0, GoIs, Actors
     DEF EventDeinit, CoreDown, CoreDeinitSkip, Cancel, Dealloc
<1>29. CASE EventRelease
  BY <1>29, <1>0, GoIs, Actors DEF EventRelease, CoreRelease, Cancel
<1>30. CASE EventMbxDown
  BY <1>30, <1>0, GoIs, Actors DEF EventMbxDown
<1>31. CASE EventNoDeinit
  BY <1>31, <1>0, GoIs, Actors DEF EventNoDeinit
<1>32. CASE EventRecover
  BY <1>32, <1>0, GoIs, Actors DEF EventRecover
<1>33. CASE EventNoMbx
  BY <1>33, <1>0, GoIs, Actors DEF EventNoMbx
<1>34. CASE EventCore
  BY <1>34, <1>0, GoIs, Actors DEF EventCore
<1>35. CASE EventCoreDone
  BY <1>35, <1>0, GoIs, Actors DEF EventCoreDone
<1>36. CASE EventCoreRetry
  BY <1>36, <1>0, GoIs, Actors DEF EventCoreRetry
<1>37. CASE EventCoreError
  BY <1>37, <1>0, GoIs, Actors DEF EventCoreError
<1>38. CASE EventInitErr
  BY <1>38, <1>0, GoIs, Actors DEF EventInitErr, Cancel
<1>39. CASE EventWait
  BY <1>39, <1>0, GoIs, Actors DEF EventWait
<1>40. CASE EventFail
  BY <1>40, <1>0, GoIs, Actors DEF EventFail
<1>41. ASSUME NEW v \in Vport, EventAttach(v) PROVE NoCallback'
  BY <1>41, <1>0, GoIs, Actors DEF EventAttach, Vport
<1>42. CASE EventReopen
  BY <1>42, <1>0, GoIs, Actors DEF EventReopen, StartOpen
<1>43. CASE Open("event", "attach")
  BY <1>43, <1>0, GoIs, Actors DEF Open
<1>44. CASE EventEnd
  BY <1>44, <1>0, GoIs, Actors DEF EventEnd
<1>45. CASE PciCancelServ
  BY <1>45, <1>0, GoIs, Actors DEF PciCancelServ, Cancel
<1>46. CASE PciCancelEvent
  BY <1>46, <1>0, GoIs, Actors DEF PciCancelEvent, Cancel
<1>47. CASE PciCancelInit
  BY <1>47, <1>0, GoIs, Actors DEF PciCancelInit, Cancel
<1>48. CASE PciBegin
  BY <1>48, <1>0, GoIs, Actors DEF PciBegin
<1>49. ASSUME NEW v \in Vport, Detach("pci", v) PROVE NoCallback'
  BY <1>49, <1>0, GoIs, Actors DEF Detach
<1>50. CASE Close("pci", "detach")
  BY <1>50, <1>0, GoIs, Actors DEF Close
<1>51. CASE PciLock
  BY <1>51, <1>0, GoIs, Actors DEF PciLock
<1>52. CASE PciDeinit
  BY <1>52, <1>0, GoIs, Actors
     DEF PciDeinit, CoreDown, CoreDeinitSkip, Cancel, Dealloc
<1>53. CASE PciRelease
  BY <1>53, <1>0, GoIs, Actors DEF PciRelease, CoreRelease, Cancel
<1>54. CASE PciMbxDown
  BY <1>54, <1>0, GoIs, Actors DEF PciMbxDown
<1>55. CASE PciPrepared
  BY <1>55, <1>0, GoIs, Actors DEF PciPrepared
<1>56. CASE PciBusReset
  BY <1>56, <1>0, GoIs, Actors DEF PciBusReset
<1>57. CASE PciSlotLost
  BY <1>57, <1>0, GoIs, Actors DEF PciSlotLost
<1>58. CASE PciResume
  BY <1>58, <1>0, GoIs, Actors DEF PciResume
<1>59. CASE PciError
  BY <1>59, <1>0, GoIs, Actors DEF PciError, PciStart
<1>60. CASE PciFlr
  BY <1>60, <1>0, GoIs, Actors DEF PciFlr, PciStart
<1>61. CASE RemoveStart
  BY <1>61, <1>0, GoIs, Actors DEF RemoveStart
<1>62. CASE RemoveCancelEvent
  BY <1>62, <1>0, GoIs, Actors DEF RemoveCancelEvent, Cancel
<1>63. CASE RemoveDeinit
  BY <1>63, <1>0, GoIs, Actors
     DEF RemoveDeinit, CoreDown, CoreDeinitSkip, Cancel, Dealloc
<1>64. CASE RemoveRelease
  BY <1>64, <1>0, GoIs, Actors DEF RemoveRelease, CoreRelease, Cancel
<1>65. CASE RemoveMbxDown
  BY <1>65, <1>0, GoIs, Actors DEF RemoveMbxDown
<1>66. ASSUME NEW v \in Vport, RemoveUnregister(v) PROVE NoCallback'
  BY <1>66 DEF RemoveUnregister
<1>67. CASE RemoveFree
  BY <1>67, <1>0, GoIs, Actors DEF RemoveFree
<1>68. CASE Open("user", "idle")
  BY <1>68, <1>0, GoIs, Actors DEF Open
<1>69. CASE Close("user", "idle")
  BY <1>69, <1>0, GoIs, Actors DEF Close
<1>70. ASSUME NEW v \in Vport, UserOpen(v) PROVE NoCallback'
  BY <1>70, <1>0, GoIs, Actors DEF UserOpen, StartOpen
<1>71. ASSUME NEW v \in Vport, UserClose(v) PROVE NoCallback'
  BY <1>71, <1>0, GoIs, Actors DEF UserClose
<1>72. CASE RequestReset
  BY <1>72 DEF RequestReset
<1>73. CASE MbIntrMsg
  BY <1>73 DEF MbIntrMsg
<1>74. CASE MbIntrCorer
  BY <1>74 DEF MbIntrCorer, AfterIntr
<1>75. CASE MbIntrCorerEnd
  BY <1>75 DEF MbIntrCorerEnd, AfterIntr
<1>76. CASE MbIntrLost
  BY <1>76 DEF MbIntrLost
<1>77. CASE DevReset("none")
  BY <1>77 DEF DevReset
<1>78. CASE DevReset("begin")
  BY <1>78 DEF DevReset
<1>79. CASE DevReady
  BY <1>79 DEF DevReady
<1>80. CASE UNCHANGED vars
  BY <1>80
<1>81. CASE ServTask
  BY <1>81, <1>1, <1>2, <1>3, <1>4 DEF ServTask
<1>82. CASE InitTask
  BY <1>82, <1>5, <1>6, <1>7, <1>8, <1>9, <1>10, <1>11, <1>12, <1>13
     DEF InitTask
<1>83. CASE EventTask
  BY <1>83, <1>14, <1>15, <1>16, <1>17, <1>18, <1>19, <1>20, <1>21, <1>22,
     <1>23, <1>24, <1>25, <1>26, <1>27, <1>28, <1>29, <1>30, <1>31, <1>32,
     <1>33, <1>34, <1>35, <1>36, <1>37, <1>38, <1>39, <1>40, <1>41, <1>42,
     <1>43, <1>44
     DEF EventTask, EventReset, EventRecovery
<1>84. CASE PciAny
  BY <1>84, <1>45, <1>46, <1>47, <1>48, <1>49, <1>50, <1>51, <1>52, <1>53,
     <1>54, <1>55, <1>56, <1>57, <1>58, <1>59, <1>60
     DEF PciAny, PciTask
<1>85. CASE RemoveStart
  BY <1>85, <1>61
<1>86. CASE RemoveTask
  BY <1>86, <1>62, <1>63, <1>64, <1>65, <1>66, <1>67 DEF RemoveTask
<1>87. CASE Users
  BY <1>87, <1>68, <1>69, <1>70, <1>71 DEF Users, UserTask
<1>88. CASE RequestReset
  BY <1>88, <1>72
<1>89. CASE MbIntr
  BY <1>89, <1>73, <1>74, <1>75, <1>76 DEF MbIntr
<1>90. CASE DevTask
  BY <1>90, <1>77, <1>78, <1>79 DEF DevTask
<1> QED
  BY <1>81, <1>82, <1>83, <1>84, <1>85, <1>86, <1>87, <1>88, <1>89, <1>90,
     <1>80
     DEF Next

(* Without PCI callbacks the event task never runs beside one, and no      *)
(* network device is attached, runs or is up without a vport, in no reset  *)
(* or removal and however many troubles meet (idpf_vport_dealloc,          *)
(* idpf_detach_and_close).                                                 *)
THEOREM LiveAlone ==
  ASSUME Troubles \cap {"err", "flr"} = {}
  PROVE  Spec => []VportLive
<1>1. Init => NoCallback
  BY Actors DEF Init, NoCallback
<1>2. IInv /\ NoCallback /\ [Next]_vars => NoCallback'
  BY CallbackNever
<1>3. VportsSound /\ NoCallback => VportLive
  BY DEF VportsSound, VportLiveAlone, NoCallback
<1> QED
  BY <1>1, <1>2, <1>3, HardInvariant, VportsSafe, PTL DEF Spec

================================================================================
