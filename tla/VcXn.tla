--------------------------------- MODULE VcXn ---------------------------------
(***************************************************************************)
(* The virtchnl transaction manager of idpf_virtchnl.c (struct idpf_vc_xn, *)
(* struct idpf_vc_xn_manager).  A caller pops a free transaction, arms it, *)
(* sends a mailbox message carrying a cookie <<idx, salt>>, and waits for  *)
(* the completion of the transaction.  The mailbox task looks the cookie   *)
(* of every reply up and completes the transaction.  The reset path shuts  *)
(* the manager down and initialises it again.                              *)
(*                                                                         *)
(* Granularity.  Everything between idpf_vc_xn_lock and idpf_vc_xn_unlock  *)
(* is one step: the fields it touches are protected by xn->lock, and the   *)
(* two that are not (xn->salt and the free bitmap, under xn_bm_lock) are   *)
(* accessed once per section.  What the code does OUTSIDE the lock is a    *)
(* step of its own: reinit_completion, the send, the wait, complete() and  *)
(* complete_all().  Those are the windows the properties are about.        *)
(***************************************************************************)
EXTENDS Integers, FiniteSets

CONSTANTS
  Callers,    \* threads that call idpf_vc_xn_exec
  Ops,        \* virtchnl opcodes
  RingLen,    \* IDPF_VC_XN_RING_LEN (255 in the driver)
  SaltMod,    \* the salt is a u8: 256 in the driver
  None,       \* no transaction / no buffer
  MaxExec,    \* bound: transactions popped in a behaviour
  MaxReply,   \* bound: replies the control plane sends
  MaxReset    \* bound: shutdowns in a behaviour

ASSUME RingLenAssumption == RingLen \in Nat \ {0}
ASSUME SaltModAssumption == SaltMod \in Nat \ {0}
ASSUME NoneAssumption    == None \notin Callers /\ None \notin Nat

Xn == 0 .. RingLen - 1

(* enum idpf_vc_xn_state *)
XnState == {"IDLE", "WAITING", "COMPLETED_SUCCESS", "COMPLETED_FAILED",
            "SHUTDOWN", "ASYNC"}
Completed == {"COMPLETED_SUCCESS", "COMPLETED_FAILED"}

VARIABLES
  state, reply, answer, vc_op, salt, \* struct idpf_vc_xn; answer: whose reply
                                     \* reply_sz and the copied payload are
  completed,                         \* xn->completed.done
  free, mngr_salt, active,           \* struct idpf_vc_xn_manager
  pc, call, ret,                     \* the callers inside idpf_vc_xn_exec
  rpc, rxn,                          \* the mailbox task
  mpc, cursor,                       \* the reset path
  reset_detected,                    \* what the ARQ length register shows
  requests, replies, nreply,         \* the mailbox and the control plane
  pops, gen, overlap, nreset         \* history variables

xnVars   == <<state, reply, answer, vc_op>>
mngrVars == <<free, mngr_salt, salt, pops, gen>>
execVars == <<pc, call, ret>>
recvVars == <<rpc, rxn>>
mVars    == <<mpc, cursor, active, reset_detected, overlap, nreset>>
chanVars == <<requests, replies, nreply>>

vars == <<xnVars, mngrVars, completed, execVars, recvVars, mVars, chanVars>>

-----------------------------------------------------------------------------
(* The kernel's completion: done is a counter, complete_all saturates it   *)
(* at UINT_MAX (DoneAll), where wait_for_completion leaves it.             *)
DoneAll == -1
Complete(d)  == IF d = DoneAll THEN d ELSE d + 1
Signalled(d) == d # 0
Consume(d)   == IF d = DoneAll THEN d ELSE d - 1

(* Program counters of idpf_vc_xn_exec from the pop to the return.         *)
InExec(t)  == pc[t] # "out"
Armed(t)   == pc[t] \in {"reinit", "send", "failed", "wait", "finish"}
Holds(t, i) == InExec(t) /\ call[t].xn = i

NoCall == [xn |-> None, op |-> None, async |-> FALSE]
Call   == [xn : Xn \cup {None}, op : Ops \cup {None}, async : BOOLEAN]

(* A mailbox message.  op and the cookie are what the descriptor carries;  *)
(* gen is a history field: which transaction the message belongs to.       *)
Msg   == [idx : Xn, salt : 0 .. SaltMod - 1, op : Ops, gen : Nat]
Reply == [idx : Xn, salt : 0 .. SaltMod - 1, op : Ops, gen : Nat,
          ok : BOOLEAN]

Init ==
  /\ state     = [i \in Xn |-> "IDLE"]
  /\ reply     = [i \in Xn |-> None]
  /\ answer    = [i \in Xn |-> None]
  /\ vc_op     = [i \in Xn |-> None]
  /\ salt      = [i \in Xn |-> 0]
  /\ completed = [i \in Xn |-> 0]
  /\ free = Xn /\ mngr_salt = 0 /\ active = TRUE
  /\ pc  = [t \in Callers |-> "out"]
  /\ call = [t \in Callers |-> NoCall]
  /\ ret = [t \in Callers |-> "none"]
  /\ rpc = "idle" /\ rxn = 0
  /\ mpc = "up" /\ cursor = 0 /\ reset_detected = FALSE
  /\ requests = {} /\ replies = {} /\ nreply = 0
  /\ pops = 0 /\ gen = [i \in Xn |-> 0] /\ overlap = FALSE /\ nreset = 0

-----------------------------------------------------------------------------
(* Mutants of ReleasedState: the state is left alone; a shutdown is undone *)
ReleasedStateKept(s) == s
ReleasedStateIdle(s) == "IDLE"

(* idpf_vc_xn_release_bufs: the transaction becomes IDLE, unless it was    *)
(* shut down.                                                              *)
ReleasedState(s) == IF s = "SHUTDOWN" THEN s ELSE "IDLE"

(* Mutant of PushFree: the reply buffer is not forgotten *)
PushFreeKeepsReply(i) ==
  /\ state' = [state EXCEPT ![i] = ReleasedState(@)]
  /\ free'  = free \cup {i}
  /\ UNCHANGED reply

(* idpf_vc_xn_push_free *)
PushFree(i) ==
  /\ reply' = [reply EXCEPT ![i] = None]
  /\ state' = [state EXCEPT ![i] = ReleasedState(@)]
  /\ free'  = free \cup {i}

(* Mutant of NextSalt: a salt wider than u8 *)
NextSaltWide(s) == s + 1

(* vcxn_mngr->salt++, a u8 *)
NextSalt(s) == (s + 1) % SaltMod

(* find_first_bit *)
FirstFree(i) == i \in free /\ \A j \in free : i <= j

Return(t, r) ==
  /\ pc'   = [pc EXCEPT ![t] = "out"]
  /\ call' = [call EXCEPT ![t] = NoCall]
  /\ ret'  = [ret EXCEPT ![t] = r]

(***************************************************************************)
(* idpf_vc_xn_exec, step by step.                                          *)
(***************************************************************************)

(* idpf_vc_xn_pop_free found no bit: -ENOSPC *)
ExecNoSpace(t) ==
  /\ pc[t] = "out"
  /\ free = {}
  /\ Return(t, "ENOSPC")
  /\ UNCHANGED <<xnVars, mngrVars, completed, recvVars, mVars, chanVars>>

(* idpf_vc_xn_pop_free, under xn_bm_lock *)
ExecPop(t, op, async) ==
  /\ pc[t] = "out"
  /\ pops < MaxExec
  /\ \E i \in Xn :
       /\ FirstFree(i)
       /\ free' = free \ {i}
       /\ salt' = [salt EXCEPT ![i] = mngr_salt]
       /\ gen'  = [gen EXCEPT ![i] = pops]
       /\ call' = [call EXCEPT ![t] = [xn |-> i, op |-> op, async |-> async]]
  /\ mngr_salt' = NextSalt(mngr_salt)
  /\ pops' = pops + 1
  /\ pc' = [pc EXCEPT ![t] = "arm"]
  /\ ret' = [ret EXCEPT ![t] = "none"]
  /\ overlap' = (overlap \/ mpc = "init")
  /\ UNCHANGED <<xnVars, completed, recvVars, mpc, cursor, active,
                 reset_detected, nreset, chanVars>>

(* First locked section.  A transaction that was shut down is not put back *)
(* on the free list; anything else, IDLE or not, is overwritten.           *)
ExecArm(t) ==
  /\ pc[t] = "arm"
  /\ LET i == call[t].xn IN
       \/ /\ state[i] = "SHUTDOWN"
          /\ Return(t, "ENXIO")
          /\ UNCHANGED xnVars
       \/ /\ state[i] # "SHUTDOWN"
          /\ reply'  = [reply EXCEPT ![i] =
                          IF call[t].async THEN None ELSE t]
          /\ answer' = [answer EXCEPT ![i] = None]
          /\ state'  = [state EXCEPT ![i] =
                          IF call[t].async THEN "ASYNC" ELSE "WAITING"]
          /\ vc_op'  = [vc_op EXCEPT ![i] = call[t].op]
          /\ pc' = [pc EXCEPT ![t] = IF call[t].async THEN "send"
                                                      ELSE "reinit"]
          /\ UNCHANGED <<call, ret>>
  /\ UNCHANGED <<mngrVars, completed, recvVars, mVars, chanVars>>

(* reinit_completion, after the unlock *)
ExecReinit(t) ==
  /\ pc[t] = "reinit"
  /\ completed' = [completed EXCEPT ![call[t].xn] = 0]
  /\ pc' = [pc EXCEPT ![t] = "send"]
  /\ UNCHANGED <<xnVars, mngrVars, call, ret, recvVars, mVars,
                 chanVars>>

(* idpf_send_mb_msg succeeded: with a reset detected it returns 0 without  *)
(* sending anything.  An asynchronous caller returns at once.              *)
ExecSend(t) ==
  /\ pc[t] = "send"
  /\ LET i == call[t].xn
         m == [idx |-> i, salt |-> salt[i], op |-> call[t].op,
               gen |-> gen[i]]
     IN requests' = IF reset_detected THEN requests ELSE requests \cup {m}
  /\ \/ /\ call[t].async
        /\ Return(t, "SENT")
     \/ /\ ~ call[t].async
        /\ pc' = [pc EXCEPT ![t] = "wait"]
        /\ UNCHANGED <<call, ret>>
  /\ UNCHANGED <<xnVars, mngrVars, completed, recvVars, mVars, replies,
                 nreply>>

(* idpf_send_mb_msg failed (no memory, send ring full) *)
ExecSendFail(t) ==
  /\ pc[t] = "send"
  /\ ~ reset_detected
  /\ pc' = [pc EXCEPT ![t] = "failed"]
  /\ UNCHANGED <<xnVars, mngrVars, completed, call, ret, recvVars,
                 mVars, chanVars>>

(* Mutant of ExecRelease: the error path forgets the transaction *)
ExecReleaseLeaks(t) ==
  /\ pc[t] = "failed"
  /\ Return(t, "SENDERR")
  /\ UNCHANGED <<xnVars, mngrVars, completed, recvVars, mVars, chanVars>>

ExecRelease(t) ==
  /\ pc[t] = "failed"
  /\ PushFree(call[t].xn)
  /\ Return(t, "SENDERR")
  /\ UNCHANGED <<answer, vc_op, salt, gen, mngr_salt, pops, completed,
                 recvVars, mVars, chanVars>>

(* wait_for_completion_timeout: the completion, or the timer *)
ExecWake(t) ==
  /\ pc[t] = "wait"
  /\ Signalled(completed[call[t].xn])
  /\ completed' = [completed EXCEPT ![call[t].xn] = Consume(@)]
  /\ pc' = [pc EXCEPT ![t] = "finish"]
  /\ UNCHANGED <<xnVars, mngrVars, call, ret, recvVars, mVars,
                 chanVars>>

ExecTimeout(t) ==
  /\ pc[t] = "wait"
  /\ pc' = [pc EXCEPT ![t] = "finish"]
  /\ UNCHANGED <<xnVars, mngrVars, completed, call, ret, recvVars, mVars,
                 chanVars>>

(* Mutant of Retval: a shutdown looks like a timeout *)
RetvalTimesOut(s) ==
  IF s \in {"SHUTDOWN", "WAITING"} THEN "ETIME"
  ELSE IF s = "COMPLETED_SUCCESS" THEN "OK"
  ELSE IF s = "COMPLETED_FAILED" THEN "EIO"
  ELSE "EINVALSTATE"

(* The value idpf_vc_xn_exec returns for the final state of the            *)
(* transaction; the WARN_ON_ONCE case is EINVALSTATE here.                 *)
Retval(s) ==
  IF s = "SHUTDOWN" THEN "ENXIO"
  ELSE IF s = "WAITING" THEN "ETIME"
  ELSE IF s = "COMPLETED_SUCCESS" THEN "OK"
  ELSE IF s = "COMPLETED_FAILED" THEN "EIO"
  ELSE "EINVALSTATE"

(* Second locked section *)
ExecFinish(t) ==
  /\ pc[t] = "finish"
  /\ LET i == call[t].xn IN
       /\ Return(t, Retval(state[i]))
       /\ \/ /\ state[i] = "SHUTDOWN"
             /\ UNCHANGED <<reply, state, free>>
          \/ /\ state[i] # "SHUTDOWN"
             /\ PushFree(i)
  /\ UNCHANGED <<answer, vc_op, salt, gen, mngr_salt, pops, completed,
                 recvVars, mVars, chanVars>>

Exec(t) ==
  \/ ExecNoSpace(t)
  \/ \E op \in Ops, async \in BOOLEAN : ExecPop(t, op, async)
  \/ ExecArm(t) \/ ExecReinit(t)
  \/ ExecSend(t) \/ ExecSendFail(t) \/ ExecRelease(t)
  \/ ExecWake(t) \/ ExecTimeout(t) \/ ExecFinish(t)

-----------------------------------------------------------------------------
(***************************************************************************)
(* idpf_vc_xn_forward_reply.  RecvReply is its locked section; complete()  *)
(* follows after the unlock.                                               *)
(***************************************************************************)

(* Mutant of SaltMatches: the cookie's index alone decides *)
SaltIgnored(m) == TRUE

SaltMatches(m) == m.salt = salt[m.idx]

(* A cookie whose salt is not the transaction's: dropped *)
RecvSaltMismatch(m) ==
  /\ ~ SaltMatches(m)
  /\ UNCHANGED <<xnVars, free, recvVars>>

(* An asynchronous transaction: idpf_vc_xn_forward_async puts it back on   *)
(* the free list whatever the opcode, the status or the handler says.      *)
RecvAsync(m) ==
  /\ SaltMatches(m)
  /\ state[m.idx] = "ASYNC"
  /\ answer' = [answer EXCEPT ![m.idx] =
                  IF m.op = vc_op[m.idx] /\ m.ok THEN m.gen ELSE None]
  /\ PushFree(m.idx)
  /\ UNCHANGED <<vc_op, recvVars>>

(* Mutant of RecvUnexpected: the unexpected reply releases the transaction *)
RecvUnexpectedFrees(m) ==
  /\ SaltMatches(m)
  /\ state[m.idx] \in Completed \cup {"IDLE", "SHUTDOWN"}
  /\ rpc' = "complete" /\ rxn' = m.idx
  /\ PushFree(m.idx)
  /\ UNCHANGED <<answer, vc_op>>

(* A belated reply, a second reply or a reply after the shutdown: no       *)
(* change to the transaction, but the completion is still signalled.       *)
RecvUnexpected(m) ==
  /\ SaltMatches(m)
  /\ state[m.idx] \in Completed \cup {"IDLE", "SHUTDOWN"}
  /\ rpc' = "complete" /\ rxn' = m.idx
  /\ UNCHANGED <<xnVars, free>>

(* Mutant of RecvExpected: a failed reply does not signal the completion *)
RecvExpectedSilent(m) ==
  LET good == m.op = vc_op[m.idx] /\ m.ok IN
  /\ SaltMatches(m)
  /\ state[m.idx] = "WAITING"
  /\ answer' = [answer EXCEPT ![m.idx] = IF good THEN m.gen ELSE None]
  /\ state'  = [state EXCEPT ![m.idx] = IF good THEN "COMPLETED_SUCCESS"
                                                ELSE "COMPLETED_FAILED"]
  /\ rpc' = IF good THEN "complete" ELSE rpc
  /\ rxn' = m.idx
  /\ UNCHANGED <<reply, vc_op, free>>

(* The reply the transaction waits for *)
RecvExpected(m) ==
  LET good == m.op = vc_op[m.idx] /\ m.ok IN
  /\ SaltMatches(m)
  /\ state[m.idx] = "WAITING"
  /\ answer' = [answer EXCEPT ![m.idx] = IF good THEN m.gen ELSE None]
  /\ state'  = [state EXCEPT ![m.idx] = IF good THEN "COMPLETED_SUCCESS"
                                                ELSE "COMPLETED_FAILED"]
  /\ rpc' = "complete" /\ rxn' = m.idx
  /\ UNCHANGED <<reply, vc_op, free>>

RecvReply(m) ==
  /\ rpc = "idle"
  /\ replies' = replies \ {m}
  /\ \/ RecvSaltMismatch(m) \/ RecvAsync(m)
     \/ RecvUnexpected(m) \/ RecvExpected(m)
  /\ UNCHANGED <<salt, gen, mngr_salt, pops, completed, execVars, mVars,
                 requests, nreply>>

(* complete(&xn->completed), without the lock *)
RecvComplete ==
  /\ rpc = "complete"
  /\ completed' = [completed EXCEPT ![rxn] = Complete(@)]
  /\ rpc' = "idle"
  /\ UNCHANGED <<xnVars, mngrVars, execVars, rxn, mVars, chanVars>>

-----------------------------------------------------------------------------
(* External: the control plane.  It answers any request it was sent, in    *)
(* any order, late, more than once or never, and possibly with an error or *)
(* another opcode.                                                         *)
CpReply(m, op, ok) ==
  /\ nreply < MaxReply
  /\ ~ reset_detected
  /\ nreply' = nreply + 1
  /\ replies' = replies \cup
       {[idx |-> m.idx, salt |-> m.salt, op |-> op, gen |-> m.gen, ok |-> ok]}
  /\ UNCHANGED <<xnVars, mngrVars, completed, execVars, recvVars, mVars,
                 requests>>

(* External: the device resets; the ARQ length register reads 0.           *)
HwReset ==
  /\ ~ reset_detected
  /\ nreset < MaxReset
  /\ reset_detected' = TRUE
  /\ nreset' = nreset + 1
  /\ UNCHANGED <<xnVars, mngrVars, completed, execVars, recvVars, mpc, cursor,
                 active, overlap, chanVars>>

-----------------------------------------------------------------------------
(***************************************************************************)
(* The reset path: idpf_vc_xn_shutdown, then idpf_deinit_dflt_mbx and      *)
(* idpf_init_dflt_mbx, then idpf_vc_xn_init.                               *)
(***************************************************************************)

(* bitmap_zero, under xn_bm_lock.  A detected reset, a requested reset or  *)
(* a PCI error leads here.                                                 *)
ShutdownStart ==
  /\ mpc = "up" /\ active
  /\ reset_detected \/ nreset < MaxReset
  /\ free' = {}
  /\ mpc' = "lock" /\ cursor' = 0
  /\ UNCHANGED <<xnVars, salt, gen, mngr_salt, pops, completed, execVars,
                 recvVars, active, reset_detected, overlap, nreset, chanVars>>

(* the locked section of one transaction *)
ShutdownXn ==
  /\ mpc = "lock"
  /\ state' = [state EXCEPT ![cursor] = "SHUTDOWN"]
  /\ reply' = [reply EXCEPT ![cursor] = None]
  /\ mpc' = "wakeall"
  /\ UNCHANGED <<answer, vc_op, mngrVars, completed, execVars, recvVars,
                 cursor, active, reset_detected, overlap, nreset, chanVars>>

(* complete_all, after the unlock; after the last one active is cleared    *)
ShutdownWake ==
  /\ mpc = "wakeall"
  /\ completed' = [completed EXCEPT ![cursor] = DoneAll]
  /\ \/ /\ cursor < RingLen - 1
        /\ cursor' = cursor + 1 /\ mpc' = "lock"
        /\ UNCHANGED active
     \/ /\ cursor = RingLen - 1
        /\ cursor' = 0 /\ mpc' = "down" /\ active' = FALSE
  /\ UNCHANGED <<xnVars, mngrVars, execVars, recvVars, reset_detected,
                 overlap, nreset, chanVars>>

(* idpf_deinit_dflt_mbx cancels the mailbox task and destroys both rings;  *)
(* idpf_init_dflt_mbx creates them again.  What was in the receive ring is *)
(* gone.                                                                   *)
Recover ==
  /\ mpc = "down"
  /\ rpc = "idle"
  /\ reset_detected
  /\ replies' = {}
  /\ reset_detected' = FALSE
  /\ mpc' = "init" /\ cursor' = 0
  /\ overlap' = (overlap \/ \E t \in Callers : InExec(t))
  /\ UNCHANGED <<xnVars, mngrVars, completed, execVars, recvVars, active,
                 nreset, requests, nreply>>

(* idpf_vc_xn_init of one transaction; it takes no lock (it initialises    *)
(* the lock).  The salt of the manager is not reset.                       *)
InitXn ==
  /\ mpc = "init"
  /\ state' = [state EXCEPT ![cursor] = "IDLE"]
  /\ reply' = [reply EXCEPT ![cursor] = None]
  /\ completed' = [completed EXCEPT ![cursor] = 0]
  /\ \/ /\ cursor < RingLen - 1
        /\ cursor' = cursor + 1
        /\ UNCHANGED <<mpc, active, free>>
     \/ /\ cursor = RingLen - 1
        /\ cursor' = 0 /\ mpc' = "up" /\ active' = TRUE /\ free' = Xn
  /\ overlap' = (overlap \/ \E t \in Callers : InExec(t))
  /\ UNCHANGED <<answer, vc_op, salt, gen, mngr_salt, pops, execVars,
                 recvVars, reset_detected, nreset, chanVars>>

Manager == ShutdownStart \/ ShutdownXn \/ ShutdownWake \/ Recover \/ InitXn

Next ==
  \/ \E t \in Callers : Exec(t)
  \/ \E m \in replies : RecvReply(m)
  \/ RecvComplete
  \/ \E m \in requests, op \in Ops, ok \in BOOLEAN : CpReply(m, op, ok)
  \/ HwReset
  \/ Manager

Spec == Init /\ [][Next]_vars

-----------------------------------------------------------------------------
(***************************************************************************)
(* Properties                                                              *)
(***************************************************************************)

XnTypeOK ==
  /\ state \in [Xn -> XnState]
  /\ reply \in [Xn -> Callers \cup {None}]
  /\ answer \in [Xn -> Nat \cup {None}]
  /\ vc_op \in [Xn -> Ops \cup {None}]
  /\ completed \in [Xn -> Nat \cup {DoneAll}]

FreeTypeOK ==
  /\ free \subseteq Xn
  /\ salt \in [Xn -> 0 .. SaltMod - 1] /\ mngr_salt \in 0 .. SaltMod - 1
  /\ pops \in Nat /\ gen \in [Xn -> Nat]

ExecTypeOK ==
  /\ pc \in [Callers -> {"out", "arm", "reinit", "send", "failed", "wait",
                        "finish"}]
  /\ call \in [Callers -> Call]
  /\ \A t \in Callers : InExec(t) => call[t].xn \in Xn /\ call[t].op \in Ops
  /\ ret \in [Callers -> {"none", "ENOSPC", "ENXIO", "SENT", "SENDERR", "OK",
                         "ETIME", "EIO", "EINVALSTATE"}]

MngrTypeOK ==
  /\ mpc \in {"up", "lock", "wakeall", "down", "init"} /\ cursor \in Xn
  /\ active \in BOOLEAN /\ reset_detected \in BOOLEAN
  /\ overlap \in BOOLEAN /\ nreset \in Nat

ChanTypeOK ==
  /\ rpc \in {"idle", "complete"} /\ rxn \in Xn
  /\ requests \subseteq Msg /\ replies \subseteq Reply /\ nreply \in Nat

TypeOK == XnTypeOK /\ FreeTypeOK /\ ExecTypeOK /\ MngrTypeOK /\ ChanTypeOK

(* A reply is copied only into the buffer of a caller that is still inside *)
(* idpf_vc_xn_exec on that very transaction: the buffer may be on that     *)
(* caller's stack (idpf_send_ver_msg passes &vvi), so a reference that     *)
(* outlives the call is a write to a dead stack frame.  It holds across    *)
(* timeouts, late replies, shutdown and re-initialisation.                 *)
ReplyBufferLive ==
  \A i \in Xn : reply[i] # None =>
     Armed(reply[i]) /\ call[reply[i]].xn = i /\ ~ call[reply[i]].async

(* A transaction succeeds with the reply to its own request, or with one   *)
(* that is at least SaltMod transactions old: only a full wrap of the u8   *)
(* salt can attribute a late reply to the wrong transaction, and a reset   *)
(* does not shorten that distance.                                         *)
ReplyMatchesRequest ==
  [][\A i \in Xn :
       (state[i] # "COMPLETED_SUCCESS" /\ state'[i] = "COMPLETED_SUCCESS") =>
          \/ answer'[i] = gen[i]
          \/ gen[i] - answer'[i] >= SaltMod]_vars

(* The ownership of the transactions is sound until a salt is used twice   *)
(* (a very late reply may then release another call's asynchronous         *)
(* transaction) or idpf_vc_xn_init runs under the feet of a call.          *)
Sound == pops <= SaltMod /\ ~ overlap

(* No two calls of idpf_vc_xn_exec work on one transaction, and none works *)
(* on a transaction of the free list.                                      *)
ExclusiveXn ==
  Sound =>
     \A t \in Callers : InExec(t) =>
        /\ call[t].xn \notin free
        /\ \A u \in Callers \ {t} : ~ Holds(u, call[t].xn)

(* While the manager is up every transaction is free, held by a call, or   *)
(* waiting for an asynchronous reply: no path of idpf_vc_xn_exec or of the *)
(* reply handling leaks one.                                               *)
NoLeakedXn ==
  (mpc = "up" /\ Sound) =>
     \A i \in Xn : i \in free \/ state[i] = "ASYNC"
                   \/ \E t \in Callers : Holds(t, i)

(* What the free list offers is IDLE, or was shut down: the WARN_ONCE of   *)
(* idpf_vc_xn_exec ("only idle transactions in free list") cannot fire.    *)
FreeXnIdle ==
  Sound => \A i \in free : state[i] \in {"IDLE", "SHUTDOWN"}

(* Once the shutdown is over every transaction stays SHUTDOWN until the    *)
(* manager is initialised again, whatever late replies, failed sends and   *)
(* timed out callers do: "further operations on that object will fail".    *)
DownStaysDown ==
  mpc = "down" => \A i \in Xn : state[i] = "SHUTDOWN"

(* A call that ends while the manager is down fails: no call returns       *)
(* success, a timeout or an I/O error after the shutdown completed.        *)
DownCallsFail ==
  [][\A t \in Callers : (mpc = "down" /\ InExec(t) /\ pc'[t] = "out") =>
        ret'[t] \in {"ENXIO", "SENT", "SENDERR"}]_vars

(* No wake-up is lost: when the reply of a waiting call was processed, its *)
(* completion is signalled or the mailbox task is about to signal it,      *)
(* although it does so after the unlock and a call re-initialises the      *)
(* completion outside the lock; the caller does not depend on its timer.   *)
WakePending ==
  Sound => \A t \in Callers :
    (pc[t] = "wait" /\ state[call[t].xn] \in Completed) =>
       \/ Signalled(completed[call[t].xn])
       \/ rpc = "complete" /\ rxn = call[t].xn

(* Every transaction is well formed and in one hand: a call or a message   *)
(* under way has it to itself, none is lost, and a free one is idle.       *)
XnOwnership == TypeOK /\ ExclusiveXn /\ NoLeakedXn /\ FreeXnIdle

(* Refinement: the calls, their transactions seen from the caller alone.   *)
PhaseOf(t) ==
  CASE pc[t] = "out"                -> "out"
    [] pc[t] \in {"wait", "finish"} -> "sent"
    [] OTHER                        -> "begun"

VerdictOf(t) ==
  IF ~ InExec(t) THEN "none"
  ELSE CASE state[call[t].xn] = "COMPLETED_SUCCESS" -> "ok"
         [] state[call[t].xn] = "COMPLETED_FAILED"  -> "failed"
         [] state[call[t].xn] = "SHUTDOWN"          -> "down"
         [] OTHER                                   -> "none"

VcCalls == INSTANCE VcCall WITH
  phase   <- [t \in Callers |-> PhaseOf(t)],
  verdict <- [t \in Callers |-> VerdictOf(t)],
  sound   <- Sound

(* idpf_vc_xn_exec implements VcCall: whatever late, repeated and failing  *)
(* replies, stolen wake-ups, timeouts and shutdowns do, a call gets at     *)
(* most one verdict, never before its request is out, no other call can    *)
(* disturb it, and the value it returns tells what happened to it.         *)
ImplementsCalls == VcCalls!Spec
=============================================================================
