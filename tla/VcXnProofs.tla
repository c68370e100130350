------------------------------ MODULE VcXnProofs ------------------------------
(***************************************************************************)
(* Proofs about VcXn, for every set of callers, every length of the ring   *)
(* and every width of the salt.                                            *)
(***************************************************************************)
EXTENDS VcXn, TLAPS

(* The type invariant is inductive on its own.                             *)
LEMMA TypeInductive == TypeOK /\ [Next]_vars => TypeOK'
<1> SUFFICES ASSUME TypeOK, [Next]_vars PROVE TypeOK'
  OBVIOUS
<1> USE RingLenAssumption, SaltModAssumption, NoneAssumption
<1> USE DEF Xn, TypeOK, XnTypeOK, FreeTypeOK, ExecTypeOK, MngrTypeOK,
            ChanTypeOK, InExec
<1>1. ASSUME NEW t \in Callers, ExecNoSpace(t) PROVE TypeOK'
  BY <1>1 DEF ExecNoSpace, Return, NoCall, Call, xnVars, mngrVars, recvVars,
              mVars, chanVars
<1>2. ASSUME NEW t \in Callers, NEW op \in Ops, NEW async \in BOOLEAN,
             ExecPop(t, op, async)
      PROVE  TypeOK'
  <2>1. XnTypeOK' /\ ChanTypeOK'
    BY <1>2 DEF ExecPop, xnVars, recvVars, chanVars
  <2>2. FreeTypeOK'
    BY SMTT(30), <1>2 DEF ExecPop, FirstFree, NextSalt
  <2>3. ExecTypeOK'
    BY <1>2 DEF ExecPop, FirstFree, Call
  <2>4. overlap' \in BOOLEAN
    BY <1>2, Zenon DEF ExecPop
  <2>5. MngrTypeOK'
    BY <1>2, <2>4 DEF ExecPop
  <2> QED
    BY <2>1, <2>2, <2>3, <2>5
<1>3. ASSUME NEW t \in Callers, ExecArm(t) PROVE TypeOK'
  <2>1. FreeTypeOK' /\ MngrTypeOK' /\ ChanTypeOK'
    BY <1>3 DEF ExecArm, mngrVars, recvVars, mVars, chanVars
  <2>2. CASE state[call[t].xn] = "SHUTDOWN"
    <3>1. Return(t, "ENXIO") /\ UNCHANGED <<xnVars, completed>>
      BY <1>3, <2>2 DEF ExecArm
    <3>2. XnTypeOK'
      BY <3>1 DEF xnVars
    <3>3. ExecTypeOK'
      BY <3>1 DEF Return, NoCall, Call
    <3> QED
      BY <2>1, <3>2, <3>3
  <2>3. CASE state[call[t].xn] # "SHUTDOWN"
    <3>1. call[t].xn \in Xn /\ call[t].op \in Ops
      BY <1>3 DEF ExecArm
    <3> DEFINE i == call[t].xn
    <3>2. /\ reply' = [reply EXCEPT ![i] = IF call[t].async THEN None ELSE t]
          /\ answer' = [answer EXCEPT ![i] = None]
          /\ state' = [state EXCEPT ![i] =
                          IF call[t].async THEN "ASYNC" ELSE "WAITING"]
          /\ vc_op' = [vc_op EXCEPT ![i] = call[t].op]
          /\ completed' = completed
      BY <1>3, <2>3 DEF ExecArm
    <3>5. XnTypeOK'
      BY <3>1, <3>2 DEF XnState
    <3>3. pc' \in [Callers -> {"out", "arm", "reinit", "send", "failed",
                               "wait", "finish"}]
          /\ \A u \in Callers : pc'[u] # "out" => pc[u] # "out"
      BY <1>3, <2>3 DEF ExecArm
    <3>4. ExecTypeOK'
      BY <1>3, <2>3, <3>3 DEF ExecArm
    <3> QED
      BY <2>1, <3>4, <3>5
  <2> QED
    BY <2>2, <2>3
<1>4. ASSUME NEW t \in Callers, ExecReinit(t) PROVE TypeOK'
  <2>1. XnTypeOK' /\ FreeTypeOK'
    BY <1>4 DEF ExecReinit, xnVars, mngrVars
  <2>2. ExecTypeOK'
    BY <1>4 DEF ExecReinit
  <2>3. MngrTypeOK' /\ ChanTypeOK'
    BY <1>4 DEF ExecReinit, recvVars, mVars, chanVars
  <2> QED
    BY <2>1, <2>2, <2>3
<1>5. ASSUME NEW t \in Callers, ExecSend(t) PROVE TypeOK'
  <2>1. XnTypeOK' /\ FreeTypeOK' /\ MngrTypeOK'
    BY <1>5 DEF ExecSend, xnVars, mngrVars, mVars
  <2>2. ChanTypeOK'
    BY <1>5 DEF ExecSend, Msg, recvVars
  <2>3. CASE Return(t, "SENT")
    BY <2>1, <2>2, <2>3 DEF Return, NoCall, Call
  <2>4. CASE pc' = [pc EXCEPT ![t] = "wait"] /\ UNCHANGED <<call, ret>>
    BY <1>5, <2>1, <2>2, <2>4 DEF ExecSend
  <2> QED
    BY <1>5, <2>3, <2>4 DEF ExecSend
<1>6. ASSUME NEW t \in Callers, ExecSendFail(t) PROVE TypeOK'
  <2>1. XnTypeOK' /\ FreeTypeOK'
    BY <1>6 DEF ExecSendFail, xnVars, mngrVars
  <2>2. ExecTypeOK'
    BY <1>6 DEF ExecSendFail
  <2>3. MngrTypeOK' /\ ChanTypeOK'
    BY <1>6 DEF ExecSendFail, recvVars, mVars, chanVars
  <2> QED
    BY <2>1, <2>2, <2>3
<1>7. ASSUME NEW t \in Callers, ExecRelease(t) PROVE TypeOK'
  <2>1. XnTypeOK' /\ FreeTypeOK'
    BY <1>7 DEF ExecRelease, PushFree, ReleasedState, XnState
  <2>2. ExecTypeOK'
    BY <1>7 DEF ExecRelease, Return, NoCall, Call
  <2>3. MngrTypeOK' /\ ChanTypeOK'
    BY <1>7 DEF ExecRelease, recvVars, mVars, chanVars
  <2> QED
    BY <2>1, <2>2, <2>3
<1>8. ASSUME NEW t \in Callers, ExecWake(t) PROVE TypeOK'
  <2>1. XnTypeOK'
    <3> DEFINE i == call[t].xn
    <3>1. /\ completed' = [completed EXCEPT ![i] = Consume(completed[i])]
          /\ completed[i] # 0 /\ i \in Xn /\ UNCHANGED xnVars
      BY <1>8 DEF ExecWake, Signalled
    <3>2. completed[i] \in Nat \cup {DoneAll}
      BY <3>1
    <3>3. CASE completed[i] = DoneAll
      BY <3>1, <3>3 DEF Consume, xnVars
    <3>4. CASE completed[i] \in Nat /\ completed[i] # DoneAll
      <4>1. completed[i] - 1 \in Nat
        BY <3>1, <3>4
      <4> QED
        BY <3>1, <3>4, <4>1 DEF Consume, xnVars
    <3> QED
      BY <3>2, <3>3, <3>4
  <2>2. FreeTypeOK' /\ ExecTypeOK' /\ MngrTypeOK' /\ ChanTypeOK'
    BY <1>8 DEF ExecWake, mngrVars, recvVars, mVars, chanVars
  <2> QED
    BY <2>1, <2>2
<1>9. ASSUME NEW t \in Callers, ExecTimeout(t) PROVE TypeOK'
  <2>1. XnTypeOK' /\ FreeTypeOK'
    BY <1>9 DEF ExecTimeout, xnVars, mngrVars
  <2>2. ExecTypeOK'
    BY <1>9 DEF ExecTimeout
  <2>3. MngrTypeOK' /\ ChanTypeOK'
    BY <1>9 DEF ExecTimeout, recvVars, mVars, chanVars
  <2> QED
    BY <2>1, <2>2, <2>3
<1>10. ASSUME NEW t \in Callers, ExecFinish(t) PROVE TypeOK'
  <2>1. XnTypeOK' /\ FreeTypeOK'
    BY ZenonT(30), <1>10 DEF ExecFinish, PushFree, ReleasedState, XnState
  <2>2. ExecTypeOK'
    BY <1>10 DEF ExecFinish, Retval, Return, NoCall, Call
  <2>3. MngrTypeOK' /\ ChanTypeOK'
    BY <1>10 DEF ExecFinish, recvVars, mVars, chanVars
  <2> QED
    BY <2>1, <2>2, <2>3
<1>11. ASSUME NEW m \in replies, RecvReply(m) PROVE TypeOK'
  <2>1. m \in Reply /\ m.idx \in Xn /\ m.gen \in Nat
    BY DEF Reply
  <2>2. ExecTypeOK' /\ MngrTypeOK'
    BY <1>11 DEF RecvReply, execVars, mVars
  <2>3. /\ salt' = salt /\ mngr_salt' = mngr_salt /\ pops' = pops
        /\ gen' = gen /\ completed' = completed
    BY <1>11 DEF RecvReply
  <2>4. replies' \subseteq Reply /\ requests' \subseteq Msg /\ nreply' \in Nat
    BY <1>11 DEF RecvReply
  <2>5. CASE RecvSaltMismatch(m)
    BY <2>2, <2>3, <2>4, <2>5 DEF RecvSaltMismatch, xnVars, recvVars
  <2>6. CASE RecvAsync(m)
    BY <2>1, <2>2, <2>3, <2>4, <2>6
       DEF RecvAsync, PushFree, ReleasedState, XnState, recvVars
  <2>7. CASE RecvUnexpected(m)
    BY <2>1, <2>2, <2>3, <2>4, <2>7 DEF RecvUnexpected, xnVars
  <2>8. CASE RecvExpected(m)
    BY <2>1, <2>2, <2>3, <2>4, <2>8 DEF RecvExpected, XnState
  <2> QED
    BY <1>11, <2>5, <2>6, <2>7, <2>8 DEF RecvReply
<1>12. CASE RecvComplete
  <2>1. /\ completed' = [completed EXCEPT ![rxn] = Complete(completed[rxn])]
        /\ rxn \in Xn /\ UNCHANGED xnVars
    BY <1>12 DEF RecvComplete
  <2>2. Complete(completed[rxn]) \in Nat \cup {DoneAll}
    BY <2>1 DEF Complete, DoneAll
  <2>3. XnTypeOK'
    BY <2>1, <2>2 DEF xnVars
  <2>4. FreeTypeOK' /\ ExecTypeOK'
    BY <1>12 DEF RecvComplete, mngrVars, execVars
  <2>5. MngrTypeOK' /\ ChanTypeOK'
    BY <1>12 DEF RecvComplete, mVars, chanVars
  <2> QED
    BY <2>3, <2>4, <2>5
<1>13. ASSUME NEW m \in requests, NEW op \in Ops, NEW ok \in BOOLEAN,
              CpReply(m, op, ok)
       PROVE  TypeOK'
  <2>1. ChanTypeOK'
    BY <1>13 DEF CpReply, Msg, Reply, recvVars
  <2>2. XnTypeOK' /\ FreeTypeOK' /\ ExecTypeOK' /\ MngrTypeOK'
    BY <1>13 DEF CpReply, xnVars, mngrVars, execVars, mVars
  <2> QED
    BY <2>1, <2>2
<1>14. CASE HwReset
  BY <1>14 DEF HwReset, xnVars, mngrVars, execVars, recvVars, chanVars
<1>15. CASE ShutdownStart
  BY <1>15 DEF ShutdownStart, xnVars, execVars, recvVars, chanVars
<1>16. CASE ShutdownXn
  <2>1. XnTypeOK' /\ FreeTypeOK'
    BY <1>16 DEF ShutdownXn, XnState, mngrVars
  <2>2. ExecTypeOK' /\ ChanTypeOK'
    BY <1>16 DEF ShutdownXn, execVars, recvVars, chanVars
  <2>3. MngrTypeOK'
    BY <1>16 DEF ShutdownXn
  <2> QED
    BY <2>1, <2>2, <2>3
<1>17. CASE ShutdownWake
  <2>1. XnTypeOK' /\ FreeTypeOK' /\ ExecTypeOK' /\ ChanTypeOK'
    BY <1>17 DEF ShutdownWake, DoneAll, xnVars, mngrVars, execVars, recvVars,
                 chanVars
  <2>2. active' \in BOOLEAN
    BY <1>17, Zenon DEF ShutdownWake
  <2>3. MngrTypeOK'
    BY <1>17, <2>2 DEF ShutdownWake
  <2> QED
    BY <2>1, <2>3
<1>18. CASE Recover
  <2>1. XnTypeOK' /\ FreeTypeOK' /\ ExecTypeOK' /\ ChanTypeOK'
    BY <1>18 DEF Recover, xnVars, mngrVars, execVars, recvVars
  <2>2. overlap' \in BOOLEAN
    BY <1>18, Zenon DEF Recover
  <2>3. /\ mpc' = "init" /\ cursor' = 0 /\ active' = active
        /\ reset_detected' = FALSE /\ nreset' = nreset
    BY <1>18 DEF Recover
  <2>4. 0 \in Xn
    OBVIOUS
  <2>5. MngrTypeOK'
    BY <2>2, <2>3, <2>4, Zenon
  <2> QED
    BY <2>1, <2>5
<1>19. CASE InitXn
  <2>1. XnTypeOK' /\ FreeTypeOK' /\ ExecTypeOK' /\ ChanTypeOK'
    BY <1>19 DEF InitXn, XnState, DoneAll, execVars, recvVars, chanVars
  <2>2. overlap' \in BOOLEAN /\ active' \in BOOLEAN
    BY <1>19, Zenon DEF InitXn
  <2>3. MngrTypeOK'
    BY <1>19, <2>2 DEF InitXn
  <2> QED
    BY <2>1, <2>3
<1>20. CASE UNCHANGED vars
  BY <1>20 DEF vars, xnVars, mngrVars, execVars, recvVars, mVars, chanVars
<1> HIDE DEF TypeOK
<1> QED
  BY <1>1, <1>2, <1>3, <1>4, <1>5, <1>6, <1>7, <1>8, <1>9, <1>10, <1>11,
     <1>12, <1>13, <1>14, <1>15, <1>16, <1>17, <1>18, <1>19, <1>20
     DEF Next, Exec, Manager

(* The initial state is well typed.                                        *)
LEMMA TypeInit == Init => TypeOK
<1> SUFFICES ASSUME Init PROVE TypeOK
  OBVIOUS
<1> USE RingLenAssumption, SaltModAssumption, NoneAssumption DEF Init
<1>0. 0 \in Xn
  BY DEF Xn
<1>1. XnTypeOK
  BY DEF XnTypeOK, XnState
<1>2. FreeTypeOK
  BY DEF FreeTypeOK
<1>3. ExecTypeOK
  BY DEF ExecTypeOK, NoCall, Call, InExec
<1>4. MngrTypeOK
  BY <1>0, Zenon DEF MngrTypeOK
<1>5. ChanTypeOK
  BY <1>0 DEF ChanTypeOK
<1> QED
  BY <1>1, <1>2, <1>3, <1>4, <1>5 DEF TypeOK

(* Every reachable state of the transaction manager is well typed: no      *)
(* index leaves the ring, the salt stays a u8, and every counter and every *)
(* program counter of idpf_vc_xn_exec and idpf_vc_xn_shutdown stays in     *)
(* range.                                                                  *)
THEOREM Typing == Spec => []TypeOK
<1>1. Init => TypeOK
  BY TypeInit
<1>2. TypeOK /\ [Next]_vars => TypeOK'
  BY TypeInductive
<1> QED
  BY <1>1, <1>2, PTL DEF Spec

-----------------------------------------------------------------------------
(* ReplyBufferLive needs one more fact: a call that finds its transaction  *)
(* shut down returns without releasing the buffers, so the shutdown itself *)
(* must have dropped the reference.                                        *)
ShutdownDropsReply ==
  \A i \in Xn : state[i] = "SHUTDOWN" => reply[i] = None

BufferInv == ReplyBufferLive /\ ShutdownDropsReply

(* BufferInv is inductive relative to the type invariant.                  *)
LEMMA BufferInductive == TypeOK /\ BufferInv /\ [Next]_vars => BufferInv'
<1> SUFFICES ASSUME TypeOK, BufferInv, [Next]_vars PROVE BufferInv'
  OBVIOUS
<1> USE NoneAssumption DEF BufferInv, ReplyBufferLive, ShutdownDropsReply, Armed,
        InExec, Call
<1>0. /\ state \in [Xn -> XnState] /\ reply \in [Xn -> Callers \cup {None}]
      /\ pc \in [Callers -> {"out", "arm", "reinit", "send", "failed", "wait",
                            "finish"}]
      /\ call \in [Callers -> Call]
      /\ \A t \in Callers : pc[t] # "out" => call[t].xn \in Xn
  BY DEF TypeOK, XnTypeOK, ExecTypeOK
<1>1. ASSUME NEW t \in Callers, ExecNoSpace(t) PROVE BufferInv'
  BY <1>0, <1>1 DEF ExecNoSpace, Return, xnVars
<1>2. ASSUME NEW t \in Callers, NEW op \in Ops, NEW async \in BOOLEAN,
             ExecPop(t, op, async)
      PROVE  BufferInv'
  BY <1>0, <1>2 DEF ExecPop, xnVars
<1>3. ASSUME NEW t \in Callers, ExecArm(t) PROVE BufferInv'
  <2>1. CASE state[call[t].xn] = "SHUTDOWN"
    BY <1>0, <1>3, <2>1 DEF ExecArm, Return, xnVars
  <2>2. CASE state[call[t].xn] # "SHUTDOWN"
    BY <1>0, <1>3, <2>2 DEF ExecArm
  <2> QED
    BY <2>1, <2>2
<1>4. ASSUME NEW t \in Callers, ExecReinit(t) PROVE BufferInv'
  BY <1>0, <1>4 DEF ExecReinit, xnVars
<1>5. ASSUME NEW t \in Callers, ExecSend(t) PROVE BufferInv'
  BY <1>0, <1>5 DEF ExecSend, Return, xnVars
<1>6. ASSUME NEW t \in Callers, ExecSendFail(t) PROVE BufferInv'
  BY <1>0, <1>6 DEF ExecSendFail, xnVars
<1>7. ASSUME NEW t \in Callers, ExecRelease(t) PROVE BufferInv'
  BY <1>0, <1>7 DEF ExecRelease, PushFree, ReleasedState, Return
<1>8. ASSUME NEW t \in Callers, ExecWake(t) PROVE BufferInv'
  BY <1>0, <1>8 DEF ExecWake, xnVars
<1>9. ASSUME NEW t \in Callers, ExecTimeout(t) PROVE BufferInv'
  BY <1>0, <1>9 DEF ExecTimeout, xnVars
<1>10. ASSUME NEW t \in Callers, ExecFinish(t) PROVE BufferInv'
  BY <1>0, <1>10 DEF ExecFinish, PushFree, ReleasedState, Return
<1>11. ASSUME NEW m \in replies, RecvReply(m) PROVE BufferInv'
  <2>1. m.idx \in Xn
    BY DEF TypeOK, ChanTypeOK, Reply
  <2>2. pc' = pc /\ call' = call
    BY <1>11 DEF RecvReply, execVars
  <2>3. CASE UNCHANGED xnVars
    BY <2>2, <2>3 DEF xnVars
  <2>4. CASE RecvAsync(m)
    BY <1>0, <2>1, <2>2, <2>4 DEF RecvAsync, PushFree, ReleasedState
  <2>5. CASE RecvExpected(m)
    BY <1>0, <2>1, <2>2, <2>5 DEF RecvExpected
  <2> QED
    BY <1>11, <2>3, <2>4, <2>5 DEF RecvReply, RecvSaltMismatch, RecvUnexpected
<1>12. CASE RecvComplete
  BY <1>12 DEF RecvComplete, xnVars, execVars
<1>13. ASSUME NEW m \in requests, NEW op \in Ops, NEW ok \in BOOLEAN,
              CpReply(m, op, ok)
       PROVE  BufferInv'
  BY <1>13 DEF CpReply, xnVars, execVars
<1>14. CASE HwReset
  BY <1>14 DEF HwReset, xnVars, execVars
<1>15. CASE ShutdownStart
  BY <1>15 DEF ShutdownStart, xnVars, execVars
<1>16. CASE ShutdownXn
  BY <1>0, <1>16 DEF ShutdownXn, execVars
<1>17. CASE ShutdownWake
  BY <1>17 DEF ShutdownWake, xnVars, execVars
<1>18. CASE Recover
  BY <1>18 DEF Recover, xnVars, execVars
<1>19. CASE InitXn
  BY <1>0, <1>19 DEF InitXn, execVars
<1>20. CASE UNCHANGED vars
  BY <1>20 DEF vars, xnVars, execVars
<1> HIDE DEF BufferInv
<1> QED
  BY <1>1, <1>2, <1>3, <1>4, <1>5, <1>6, <1>7, <1>8, <1>9, <1>10, <1>11,
     <1>12, <1>13, <1>14, <1>15, <1>16, <1>17, <1>18, <1>19, <1>20
     DEF Next, Exec, Manager

(* A reply is never copied into the buffer of a call that is over: the     *)
(* reply reference of every transaction belongs to a synchronous call of   *)
(* idpf_vc_xn_exec that is still running on that transaction, for any      *)
(* interleaving of timeouts, late replies, shutdown and re-initialisation. *)
THEOREM ReplyBufferSafe == Spec => []ReplyBufferLive
<1>1. Init => BufferInv
  BY NoneAssumption
     DEF Init, BufferInv, ReplyBufferLive, ShutdownDropsReply
<1>2. TypeOK /\ BufferInv /\ [Next]_vars => BufferInv'
  BY BufferInductive
<1>3. BufferInv => ReplyBufferLive
  BY DEF BufferInv
<1> QED
  BY <1>1, <1>2, <1>3, Typing, PTL DEF Spec

-----------------------------------------------------------------------------
(* DownStaysDown is inductive together with how far the loop of            *)
(* idpf_vc_xn_shutdown has come.                                           *)
ShutDown(i) == state[i] = "SHUTDOWN"

DownInv ==
  /\ mpc = "lock"    => \A i \in Xn : i < cursor => ShutDown(i)
  /\ mpc = "wakeall" => \A i \in Xn : i <= cursor => ShutDown(i)
  /\ mpc = "down"    => \A i \in Xn : ShutDown(i)

(* Outside idpf_vc_xn_init no step takes a transaction out of SHUTDOWN.    *)
LEMMA ShutdownSticks ==
  ASSUME TypeOK, [Next]_vars, ~ InitXn, NEW i \in Xn, ShutDown(i)
  PROVE  ShutDown(i)'
<1> USE DEF ShutDown
<1>0. /\ state \in [Xn -> XnState]
      /\ \A t \in Callers : pc[t] # "out" => call[t].xn \in Xn
      /\ \A m \in replies : m.idx \in Xn
  BY DEF TypeOK, XnTypeOK, ExecTypeOK, ChanTypeOK, Reply, InExec
<1>1. ASSUME NEW t \in Callers, Exec(t) PROVE state'[i] = "SHUTDOWN"
  BY <1>0, <1>1
     DEF Exec, ExecNoSpace, ExecPop, ExecArm, ExecReinit, ExecSend,
         ExecSendFail, ExecRelease, ExecWake, ExecTimeout, ExecFinish,
         PushFree, ReleasedState, xnVars
<1>2. ASSUME NEW m \in replies, RecvReply(m) PROVE state'[i] = "SHUTDOWN"
  BY <1>0, <1>2
     DEF RecvReply, RecvSaltMismatch, RecvAsync, RecvUnexpected, RecvExpected,
         PushFree, ReleasedState, xnVars
<1>3. CASE RecvComplete \/ HwReset \/ ShutdownStart \/ ShutdownWake \/ Recover
           \/ UNCHANGED vars
  BY <1>3 DEF RecvComplete, HwReset, ShutdownStart, ShutdownWake, Recover, vars,
              xnVars
<1>4. ASSUME NEW m \in requests, NEW op \in Ops, NEW ok \in BOOLEAN,
             CpReply(m, op, ok)
      PROVE  state'[i] = "SHUTDOWN"
  BY <1>4 DEF CpReply, xnVars
<1>5. CASE ShutdownXn
  BY <1>0, <1>5 DEF ShutdownXn
<1> QED
  BY <1>1, <1>2, <1>3, <1>4, <1>5 DEF Next, Manager

(* DownInv is inductive relative to the type invariant.                    *)
LEMMA DownInductive == TypeOK /\ DownInv /\ [Next]_vars => DownInv'
<1> SUFFICES ASSUME TypeOK, DownInv, [Next]_vars PROVE DownInv'
  OBVIOUS
<1>0. state \in [Xn -> XnState] /\ cursor \in Xn
  BY DEF TypeOK, XnTypeOK, MngrTypeOK
<1>1. CASE InitXn
  BY <1>1 DEF InitXn, DownInv
<1>2. CASE ~ InitXn
  <2>1. \A i \in Xn : ShutDown(i) => ShutDown(i)'
    BY <1>2, ShutdownSticks
  <2>2. CASE ShutdownStart
    BY <2>2, RingLenAssumption DEF ShutdownStart, DownInv, Xn
  <2>3. CASE ShutdownXn
    <3>1. ShutDown(cursor)'
      BY <1>0, <2>3 DEF ShutdownXn, ShutDown
    <3>2. mpc = "lock" /\ mpc' = "wakeall" /\ cursor' = cursor
      BY <2>3 DEF ShutdownXn
    <3>3. \A i \in Xn : i <= cursor => i < cursor \/ i = cursor
      BY <1>0, RingLenAssumption DEF Xn
    <3> QED
      BY <2>1, <3>1, <3>2, <3>3 DEF DownInv
  <2>4. CASE ShutdownWake
    <3>1. \A i \in Xn : i <= cursor => ShutDown(i)'
      BY <2>1, <2>4 DEF ShutdownWake, DownInv
    <3> QED
      BY <1>0, <2>4, <3>1, RingLenAssumption DEF ShutdownWake, DownInv, Xn
  <2>5. CASE Recover
    BY <2>5 DEF Recover, DownInv
  <2>6. CASE mpc' = mpc /\ cursor' = cursor
    BY <2>1, <2>6 DEF DownInv
  <2>7. ASSUME NEW t \in Callers, Exec(t) PROVE mpc' = mpc /\ cursor' = cursor
    BY <2>7
       DEF Exec, ExecNoSpace, ExecPop, ExecArm, ExecReinit, ExecSend,
           ExecSendFail, ExecRelease, ExecWake, ExecTimeout, ExecFinish, mVars
  <2>8. ASSUME NEW m \in replies, RecvReply(m)
        PROVE  mpc' = mpc /\ cursor' = cursor
    BY <2>8 DEF RecvReply, mVars
  <2>9. ASSUME NEW m \in requests, NEW op \in Ops, NEW ok \in BOOLEAN,
               CpReply(m, op, ok)
        PROVE  mpc' = mpc /\ cursor' = cursor
    BY <2>9 DEF CpReply, mVars
  <2>10. ASSUME RecvComplete \/ HwReset \/ UNCHANGED vars
         PROVE  mpc' = mpc /\ cursor' = cursor
    BY <2>10 DEF RecvComplete, HwReset, vars, mVars
  <2> QED
    BY <1>2, <2>2, <2>3, <2>4, <2>5, <2>6, <2>7, <2>8, <2>9, <2>10
       DEF Next, Manager
<1> QED
  BY <1>1, <1>2

(* The invariant of a manager going down, and staying down, always holds.   *)
LEMMA DownInvariant == Spec => []DownInv
<1>1. Init => DownInv
  BY DEF Init, DownInv
<1>2. TypeOK /\ DownInv /\ [Next]_vars => DownInv'
  BY DownInductive
<1> QED
  BY <1>1, <1>2, Typing, PTL DEF Spec

(* After idpf_vc_xn_shutdown every transaction is SHUTDOWN until           *)
(* idpf_vc_xn_init runs: late replies, failed sends and timed out callers  *)
(* cannot bring one back to life, however many transactions there are.     *)
THEOREM DownSafe == Spec => []DownStaysDown
<1>1. DownInv => DownStaysDown
  BY DEF DownInv, DownStaysDown, ShutDown
<1> QED
  BY <1>1, DownInvariant, PTL

(* A call of idpf_vc_xn_exec that ends while the manager is down reports   *)
(* the shutdown, a message handed over, or a failed send, and never the    *)
(* success of a transaction or a timeout.                                  *)
THEOREM DownCallsFailSafe == Spec => DownCallsFail
<1> DEFINE Fails == \A t \in Callers :
             (mpc = "down" /\ InExec(t) /\ pc'[t] = "out") =>
                ret'[t] \in {"ENXIO", "SENT", "SENDERR"}
<1>1. TypeOK /\ DownInv /\ [Next]_vars => [Fails]_vars
  <2> SUFFICES ASSUME TypeOK, DownInv, Next, NEW u \in Callers,
                      mpc = "down", pc[u] # "out", pc'[u] = "out"
               PROVE  ret'[u] \in {"ENXIO", "SENT", "SENDERR"}
    BY DEF InExec
  <2>0. /\ pc \in [Callers -> {"out", "arm", "reinit", "send", "failed", "wait",
                               "finish"}]
        /\ ret \in [Callers -> {"none", "ENOSPC", "ENXIO", "SENT", "SENDERR",
                                "OK", "ETIME", "EIO", "EINVALSTATE"}]
    BY DEF TypeOK, ExecTypeOK
  <2>1. ASSUME NEW t \in Callers, Exec(t)
        PROVE  ret'[u] \in {"ENXIO", "SENT", "SENDERR"}
    <3>1. pc[t] # "out" => state[call[t].xn] = "SHUTDOWN"
      BY DEF TypeOK, ExecTypeOK, InExec, DownInv, ShutDown
    <3>2. CASE ExecNoSpace(t)
      BY <2>0, <3>2 DEF ExecNoSpace, Return
    <3>3. ASSUME NEW op \in Ops, NEW async \in BOOLEAN, ExecPop(t, op, async)
          PROVE  FALSE
      BY <2>0, <3>3 DEF ExecPop
    <3>4. CASE ExecArm(t)
      BY <2>0, <3>1, <3>4 DEF ExecArm, Return
    <3>5. CASE ExecSend(t)
      BY <2>0, <3>5 DEF ExecSend, Return
    <3>6. CASE ExecRelease(t)
      BY <2>0, <3>6 DEF ExecRelease, Return
    <3>7. CASE ExecFinish(t)
      BY <2>0, <3>1, <3>7 DEF ExecFinish, Retval, Return
    <3>8. CASE ExecReinit(t) \/ ExecSendFail(t) \/ ExecWake(t) \/ ExecTimeout(t)
      BY <2>0, <3>8 DEF ExecReinit, ExecSendFail, ExecWake, ExecTimeout
    <3> QED
      BY <2>1, <3>2, <3>3, <3>4, <3>5, <3>6, <3>7, <3>8 DEF Exec
  <2>2. ASSUME \/ \E m \in replies : RecvReply(m)
               \/ RecvComplete
               \/ \E m \in requests, op \in Ops, ok \in BOOLEAN :
                    CpReply(m, op, ok)
               \/ HwReset
               \/ Manager
        PROVE  pc' = pc
    BY <2>2 DEF RecvReply, RecvComplete, CpReply, HwReset, Manager,
                ShutdownStart, ShutdownXn, ShutdownWake, Recover, InitXn,
                execVars
  <2> QED
    BY <2>1, <2>2 DEF Next
<1> QED
  BY <1>1, Typing, DownInvariant, PTL DEF Spec, DownCallsFail

-----------------------------------------------------------------------------
(* The salt of a transaction is its number modulo SaltMod, and so is the   *)
(* salt of every message on its way; a message is never younger than the   *)
(* transaction whose index it carries.                                     *)
Congruent(g, s) == \E q \in Nat : g = SaltMod * q + s

SaltInv ==
  /\ Congruent(pops, mngr_salt)
  /\ \A i \in Xn : gen[i] <= pops /\ Congruent(gen[i], salt[i])
  /\ \A m \in requests \cup replies :
        m.gen <= gen[m.idx] /\ Congruent(m.gen, m.salt)

(* The next number and the next salt stay congruent, over the wrap too.    *)
LEMMA NextCongruent ==
  ASSUME NEW p \in Nat, NEW r \in 0 .. SaltMod - 1, Congruent(p, r)
  PROVE  Congruent(p + 1, NextSalt(r))
<1> USE SaltModAssumption
<1>1. PICK q \in Nat : p = SaltMod * q + r
  BY DEF Congruent
<1>2. CASE r + 1 < SaltMod
  <2>1. (r + 1) % SaltMod = r + 1
    BY <1>2
  <2>2. p + 1 = SaltMod * q + (r + 1)
    <3> HIDE SaltModAssumption
    <3>1. SaltMod * q \in Nat
      BY SaltModAssumption
    <3> DEFINE z == SaltMod * q
    <3> HIDE DEF z
    <3>2. p = z + r /\ z \in Nat
      BY <1>1, <3>1 DEF z
    <3>3. p + 1 = z + (r + 1)
      BY <3>2, SaltModAssumption
    <3> QED
      BY <3>3 DEF z
  <2>3. Congruent(p + 1, r + 1)
    BY <2>2 DEF Congruent
  <2> QED
    BY <2>1, <2>3 DEF NextSalt
<1>3. CASE r + 1 = SaltMod
  <2>1. (r + 1) % SaltMod = 0
    BY <1>3
  <2>2. p + 1 = SaltMod * (q + 1) + 0
    BY <1>1, <1>3
  <2>3. q + 1 \in Nat
    OBVIOUS
  <2>4. Congruent(p + 1, 0)
    BY <2>2, <2>3 DEF Congruent
  <2> QED
    BY <2>1, <2>4 DEF NextSalt
<1> QED
  BY <1>2, <1>3

(* Two numbers with one salt are equal or a whole wrap apart.              *)
LEMMA WrapApart ==
  ASSUME NEW g \in Nat, NEW h \in Nat, NEW r \in Nat,
         Congruent(g, r), Congruent(h, r), h <= g
  PROVE  h = g \/ g - h >= SaltMod
<1> USE SaltModAssumption
<1>1. PICK q \in Nat : g = SaltMod * q + r
  BY DEF Congruent
<1>2. PICK k \in Nat : h = SaltMod * k + r
  BY DEF Congruent
<1>3. CASE q = k
  BY <1>1, <1>2, <1>3
<1>4. CASE q > k
  <2>1. PICK d \in Nat : q = k + 1 + d
    <3>1. q - k - 1 \in Nat /\ q = k + 1 + (q - k - 1)
      BY <1>4
    <3> QED
      BY <3>1
  <2>2. SaltMod * q = SaltMod * k + SaltMod + SaltMod * d
    BY <2>1
  <2>3. SaltMod * d \in Nat
    BY <2>1
  <2> QED
    BY <1>1, <1>2, <2>2, <2>3
<1>5. CASE q < k
  <2>1. PICK d \in Nat : k = q + 1 + d
    <3>1. k - q - 1 \in Nat /\ k = q + 1 + (k - q - 1)
      BY <1>5
    <3> QED
      BY <3>1
  <2>2. SaltMod * k = SaltMod * q + SaltMod + SaltMod * d
    BY <2>1
  <2>3. SaltMod * d \in Nat /\ SaltMod * q \in Nat /\ SaltMod * k \in Nat
    BY <2>1
  <2> QED
    BY <1>1, <1>2, <2>2, <2>3
<1> QED
  BY <1>3, <1>4, <1>5

(* SaltInv is inductive relative to the type invariant.                    *)
LEMMA SaltInductive == TypeOK /\ SaltInv /\ [Next]_vars => SaltInv'
<1> SUFFICES ASSUME TypeOK, SaltInv, [Next]_vars PROVE SaltInv'
  OBVIOUS
<1>0. /\ pops \in Nat /\ mngr_salt \in 0 .. SaltMod - 1
      /\ gen \in [Xn -> Nat] /\ salt \in [Xn -> 0 .. SaltMod - 1]
      /\ requests \subseteq Msg /\ replies \subseteq Reply
      /\ \A m \in requests \cup replies : m.idx \in Xn /\ m.gen \in Nat
      /\ \A t \in Callers : pc[t] # "out" => call[t].xn \in Xn
  BY DEF TypeOK, FreeTypeOK, ChanTypeOK, ExecTypeOK, Msg, Reply, InExec
<1>1. ASSUME NEW t \in Callers, NEW op \in Ops, NEW async \in BOOLEAN,
             ExecPop(t, op, async)
      PROVE  SaltInv'
  <2>1. PICK i \in Xn : salt' = [salt EXCEPT ![i] = mngr_salt]
                        /\ gen' = [gen EXCEPT ![i] = pops]
    BY <1>1 DEF ExecPop
  <2>2. /\ mngr_salt' = NextSalt(mngr_salt) /\ pops' = pops + 1
        /\ requests' = requests /\ replies' = replies
    BY <1>1 DEF ExecPop, chanVars
  <2>3. Congruent(pops', mngr_salt')
    BY <1>0, <2>2, NextCongruent DEF SaltInv
  <2>4. \A j \in Xn : gen'[j] <= pops' /\ Congruent(gen'[j], salt'[j])
    BY <1>0, <2>1, <2>2 DEF SaltInv
  <2>5. \A j \in Xn : gen[j] <= gen'[j] /\ gen'[j] \in Nat
    BY <1>0, <2>1 DEF SaltInv
  <2>6. \A m \in requests \cup replies :
           m.gen <= gen'[m.idx] /\ Congruent(m.gen, m.salt)
    BY <1>0, <2>5 DEF SaltInv
  <2> QED
    BY <2>2, <2>3, <2>4, <2>6 DEF SaltInv, Congruent
<1>2. ASSUME NEW t \in Callers, ExecSend(t) PROVE SaltInv'
  <2> DEFINE i == call[t].xn
             m == [idx |-> i, salt |-> salt[i], op |-> call[t].op,
                   gen |-> gen[i]]
  <2>1. /\ UNCHANGED mngrVars /\ replies' = replies
        /\ requests' \subseteq requests \cup {m} /\ i \in Xn
    BY <1>0, <1>2 DEF ExecSend
  <2>2. m.gen <= gen[m.idx] /\ Congruent(m.gen, m.salt)
    BY <1>0, <2>1 DEF SaltInv
  <2> QED
    BY <2>1, <2>2 DEF SaltInv, mngrVars, Congruent
<1>3. ASSUME NEW r \in requests, NEW op \in Ops, NEW ok \in BOOLEAN,
             CpReply(r, op, ok)
      PROVE  SaltInv'
  <2> DEFINE m == [idx |-> r.idx, salt |-> r.salt, op |-> op, gen |-> r.gen,
                   ok |-> ok]
  <2>1. /\ UNCHANGED mngrVars /\ requests' = requests
        /\ replies' = replies \cup {m}
    BY <1>3 DEF CpReply
  <2>2. m.gen <= gen[m.idx] /\ Congruent(m.gen, m.salt)
    BY DEF SaltInv
  <2> QED
    BY <2>1, <2>2 DEF SaltInv, mngrVars, Congruent
<1>4. CASE /\ UNCHANGED <<salt, gen, mngr_salt, pops>>
           /\ requests' \subseteq requests /\ replies' \subseteq replies
  BY <1>4 DEF SaltInv, Congruent
<1>5. ASSUME NEW t \in Callers,
             \/ ExecNoSpace(t) \/ ExecArm(t) \/ ExecReinit(t)
             \/ ExecSendFail(t) \/ ExecRelease(t) \/ ExecWake(t)
             \/ ExecTimeout(t) \/ ExecFinish(t)
      PROVE  UNCHANGED <<salt, gen, mngr_salt, pops, requests, replies>>
  BY <1>5 DEF ExecNoSpace, ExecArm, ExecReinit, ExecSendFail, ExecRelease,
              ExecWake, ExecTimeout, ExecFinish, mngrVars, chanVars
<1>6. ASSUME NEW m \in replies, RecvReply(m)
      PROVE  /\ UNCHANGED <<salt, gen, mngr_salt, pops, requests>>
             /\ replies' \subseteq replies
  BY <1>6 DEF RecvReply
<1>7. ASSUME RecvComplete \/ HwReset \/ Manager \/ UNCHANGED vars
      PROVE  /\ UNCHANGED <<salt, gen, mngr_salt, pops, requests>>
             /\ replies' \subseteq replies
  BY <1>7 DEF RecvComplete, HwReset, Manager, ShutdownStart, ShutdownXn,
              ShutdownWake, Recover, InitXn, vars, mngrVars, chanVars
<1> QED
  BY <1>1, <1>2, <1>3, <1>4, <1>5, <1>6, <1>7 DEF Next, Exec

(* Only idpf_vc_xn_forward_reply completes a transaction, and with the     *)
(* number of the reply it copied.                                          *)
LEMMA OnlyRepliesComplete ==
  ASSUME TypeOK, Next, NEW i \in Xn,
         state[i] # "COMPLETED_SUCCESS", state'[i] = "COMPLETED_SUCCESS"
  PROVE  \E m \in replies : RecvExpected(m) /\ m.idx = i /\ answer'[i] = m.gen
<1>0. /\ state \in [Xn -> XnState] /\ answer \in [Xn -> Nat \cup {None}]
      /\ \A t \in Callers : pc[t] # "out" => call[t].xn \in Xn
      /\ \A m \in replies : m.idx \in Xn
  BY DEF TypeOK, XnTypeOK, ExecTypeOK, ChanTypeOK, Reply, InExec
<1>1. ASSUME NEW t \in Callers, Exec(t) PROVE FALSE
  BY <1>0, <1>1
     DEF Exec, ExecNoSpace, ExecPop, ExecArm, ExecReinit, ExecSend,
         ExecSendFail, ExecRelease, ExecWake, ExecTimeout, ExecFinish,
         PushFree, ReleasedState, xnVars
<1>2. ASSUME NEW m \in replies, RecvReply(m)
      PROVE  RecvExpected(m) /\ m.idx = i /\ answer'[i] = m.gen
  <2>1. RecvExpected(m)
    BY <1>0, <1>2
       DEF RecvReply, RecvSaltMismatch, RecvAsync, RecvUnexpected, PushFree,
           ReleasedState, xnVars
  <2> QED
    BY <1>0, <2>1 DEF RecvExpected
<1>3. ASSUME RecvComplete \/ HwReset \/ Manager PROVE FALSE
  BY <1>0, <1>3
     DEF RecvComplete, HwReset, Manager, ShutdownStart, ShutdownXn,
         ShutdownWake, Recover, InitXn, xnVars
<1>4. ASSUME NEW m \in requests, NEW op \in Ops, NEW ok \in BOOLEAN,
             CpReply(m, op, ok)
      PROVE  FALSE
  BY <1>4 DEF CpReply, xnVars
<1> QED
  BY <1>1, <1>2, <1>3, <1>4 DEF Next

(* SaltInv always holds: it is inductive relative to the types.             *)
LEMMA SaltInvariant == Spec => []SaltInv
<1>1. Init => SaltInv
  <2> SUFFICES ASSUME Init PROVE SaltInv
    OBVIOUS
  <2>1. Congruent(0, 0)
    BY SaltModAssumption DEF Congruent
  <2> QED
    BY <2>1 DEF Init, SaltInv
<1>2. TypeOK /\ SaltInv /\ [Next]_vars => SaltInv'
  BY SaltInductive
<1> QED
  BY <1>1, <1>2, Typing, PTL DEF Spec

(* A transaction succeeds with the reply to its own request, or with a     *)
(* reply that is at least SaltMod transactions old.  With SaltMod = 256    *)
(* this is the strength of the u8 salt that the cookie carries, for any    *)
(* number of callers, transactions, lost, late and duplicated replies and  *)
(* resets.                                                                 *)
THEOREM SaltSafe == Spec => ReplyMatchesRequest
<1> DEFINE Match == \A i \in Xn :
             (state[i] # "COMPLETED_SUCCESS"
                /\ state'[i] = "COMPLETED_SUCCESS") =>
                  \/ answer'[i] = gen[i]
                  \/ gen[i] - answer'[i] >= SaltMod
<1>1. TypeOK /\ SaltInv /\ [Next]_vars => [Match]_vars
  <2> SUFFICES ASSUME TypeOK, SaltInv, Next, NEW i \in Xn,
                      state[i] # "COMPLETED_SUCCESS",
                      state'[i] = "COMPLETED_SUCCESS"
               PROVE  \/ answer'[i] = gen[i]
                      \/ gen[i] - answer'[i] >= SaltMod
    OBVIOUS
  <2>1. PICK m \in replies :
          RecvExpected(m) /\ m.idx = i /\ answer'[i] = m.gen
    BY OnlyRepliesComplete
  <2>2. m.salt = salt[i]
    BY <2>1 DEF RecvExpected, SaltMatches
  <2>3. m.gen \in Nat /\ gen[i] \in Nat /\ salt[i] \in Nat
    BY SaltModAssumption DEF TypeOK, ChanTypeOK, FreeTypeOK, Reply
  <2>4. m.gen <= gen[i] /\ Congruent(m.gen, salt[i])
        /\ Congruent(gen[i], salt[i])
    BY <2>1, <2>2 DEF SaltInv
  <2> QED
    BY <2>1, <2>3, <2>4, WrapApart
<1> QED
  BY <1>1, Typing, SaltInvariant, PTL DEF Spec, ReplyMatchesRequest

-----------------------------------------------------------------------------
(***************************************************************************)
(* Who owns a transaction of VcXn: every transaction is in one hand, no    *)
(* wake-up is lost, and idpf_vc_xn_exec implements VcCall.                 *)
(***************************************************************************)


(* The state a call finds its transaction in, by how far it has come.  A   *)
(* reply can complete it only after the request was sent.                  *)
StateFits(t, s) ==
  \/ s = "SHUTDOWN"
  \/ pc[t] = "arm" /\ s = "IDLE"
  \/ pc[t] \in {"send", "failed"} /\ call[t].async /\ s = "ASYNC"
  \/ pc[t] \in {"reinit", "send", "failed"} /\ ~ call[t].async
       /\ s = "WAITING"
  \/ pc[t] \in {"wait", "finish"} /\ s \in Completed \cup {"WAITING"}

HolderState == \A t \in Callers : InExec(t) => StateFits(t, state[call[t].xn])

(* Only synchronous calls get past the send.                               *)
WaitersSync ==
  \A t \in Callers : pc[t] \in {"reinit", "wait", "finish"} => ~ call[t].async

(* Before a call has sent its request nobody else knows its number.        *)
RequestUnsent ==
  \A t \in Callers : pc[t] \in {"arm", "reinit", "send", "failed"} =>
    \A m \in requests \cup replies :
      m.idx = call[t].xn => m.gen < gen[call[t].xn]

(* Numbers are given out once; those of messages and calls were.           *)
NumbersGiven ==
  /\ \A m \in requests \cup replies : m.gen < pops
  /\ \A i \in Xn : gen[i] < pops \/ gen[i] = 0
  /\ \A t \in Callers : InExec(t) => gen[call[t].xn] < pops

Owned ==
  \A t \in Callers : InExec(t) =>
    /\ call[t].xn \notin free
    /\ \A u \in Callers : Holds(u, call[t].xn) => u = t

FreeIdle == \A i \in free : state[i] \in {"IDLE", "SHUTDOWN"}

(* While the manager is initialised nobody is in a call, and what was shut *)
(* down comes back idle; once it is up nothing is shut down.               *)
InitAlone ==
  /\ mpc = "init" => /\ \A t \in Callers : ~ InExec(t)
                     /\ \A i \in Xn : state[i] \in {"IDLE", "SHUTDOWN"}
                     /\ \A i \in Xn : i < cursor => state[i] = "IDLE"
  /\ mpc = "up" => \A i \in Xn : state[i] # "SHUTDOWN"

NoneLost ==
  mpc = "up" => \A i \in Xn : i \in free \/ state[i] = "ASYNC"
                              \/ \E t \in Callers : Holds(t, i)

Woken ==
  \A t \in Callers : pc[t] = "wait" /\ state[call[t].xn] \in Completed =>
    \/ Signalled(completed[call[t].xn])
    \/ rpc = "complete" /\ rxn = call[t].xn

HoldInv == HolderState /\ WaitersSync /\ RequestUnsent /\ NumbersGiven
ListInv == Owned /\ FreeIdle /\ InitAlone /\ NoneLost /\ Woken

OwnerInv == Sound => HoldInv /\ ListInv

-----------------------------------------------------------------------------
(* What the steps need of the types.                                       *)
LEMMA OwnerTypes ==
  ASSUME TypeOK
  PROVE  /\ state \in [Xn -> XnState] /\ completed \in [Xn -> Nat \cup {DoneAll}]
         /\ pc \in [Callers -> {"out", "arm", "reinit", "send", "failed",
                                "wait", "finish"}]
         /\ call \in [Callers -> Call]
         /\ \A t \in Callers : pc[t] # "out" => call[t].xn \in Xn
         /\ gen \in [Xn -> Nat] /\ pops \in Nat /\ free \subseteq Xn
         /\ cursor \in Xn /\ rxn \in Xn
         /\ \A m \in requests \cup replies : m.idx \in Xn /\ m.gen \in Nat
BY DEF TypeOK, XnTypeOK, ExecTypeOK, FreeTypeOK, MngrTypeOK, ChanTypeOK, InExec,
       Msg, Reply

(* Ownership, once lost, stays lost: the bound is one on the history.      *)
LEMMA SoundBefore == ASSUME TypeOK, [Next]_vars, Sound' PROVE Sound
<1>0. pops \in Nat /\ SaltMod \in Nat
  BY SaltModAssumption DEF TypeOK, FreeTypeOK
<1>1. pops' = pops \/ pops' = pops + 1
  BY DEF Next, Exec, Manager, ExecNoSpace, ExecPop, ExecArm, ExecReinit,
         ExecSend, ExecSendFail, ExecRelease, ExecWake, ExecTimeout,
         ExecFinish, RecvReply, RecvComplete, CpReply, HwReset, ShutdownStart,
         ShutdownXn, ShutdownWake, Recover, InitXn, vars, mngrVars
<1>2. overlap => overlap'
  BY DEF Next, Exec, Manager, ExecNoSpace, ExecPop, ExecArm, ExecReinit,
         ExecSend, ExecSendFail, ExecRelease, ExecWake, ExecTimeout,
         ExecFinish, RecvReply, RecvComplete, CpReply, HwReset, ShutdownStart,
         ShutdownXn, ShutdownWake, Recover, InitXn, vars, mVars
<1> QED
  BY <1>0, <1>1, <1>2 DEF Sound

(* While no salt is used twice a reply whose salt fits is the reply to the *)
(* request its transaction was last used for.                              *)
LEMMA ReplyCurrent ==
  ASSUME TypeOK, SaltInv, Sound, NumbersGiven, NEW m \in replies,
         SaltMatches(m)
  PROVE  m.gen = gen[m.idx]
<1>1. /\ m.idx \in Xn /\ m.gen \in Nat /\ gen[m.idx] \in Nat
      /\ salt[m.idx] \in Nat /\ pops \in Nat /\ SaltMod \in Nat
  BY OwnerTypes, SaltModAssumption DEF TypeOK, FreeTypeOK
<1>2. m.gen <= gen[m.idx] /\ Congruent(m.gen, salt[m.idx])
      /\ Congruent(gen[m.idx], salt[m.idx])
  BY <1>1 DEF SaltInv, SaltMatches
<1>3. m.gen = gen[m.idx] \/ gen[m.idx] - m.gen >= SaltMod
  BY <1>1, <1>2, WrapApart
<1>4. m.gen < pops /\ (gen[m.idx] < pops \/ gen[m.idx] = 0)
  BY <1>1 DEF NumbersGiven
<1> QED
  BY <1>1, <1>3, <1>4 DEF Sound

(* A step of a call: the ownership survives.                               *)
LEMMA ExecKeepsOwner ==
  ASSUME TypeOK, SaltInv, Sound, Sound', HoldInv, ListInv,
         NEW t \in Callers, Exec(t)
  PROVE  HoldInv' /\ ListInv'
<1>0. /\ state \in [Xn -> XnState] /\ completed \in [Xn -> Nat \cup {DoneAll}]
      /\ pc \in [Callers -> {"out", "arm", "reinit", "send", "failed", "wait",
                             "finish"}]
      /\ call \in [Callers -> Call]
      /\ \A u \in Callers : pc[u] # "out" => call[u].xn \in Xn
      /\ gen \in [Xn -> Nat] /\ pops \in Nat /\ free \subseteq Xn
      /\ cursor \in Xn /\ rxn \in Xn
      /\ \A m \in requests \cup replies : m.idx \in Xn /\ m.gen \in Nat
  BY OwnerTypes
<1> USE NoneAssumption DEF InExec, Call, HoldInv, ListInv
<1>1. CASE ExecNoSpace(t)
  <2>1. /\ pc' = pc /\ \A u \in Callers : pc[u] # "out" => call'[u] = call[u]
        /\ UNCHANGED <<xnVars, mngrVars, completed, recvVars, mVars, chanVars>>
    BY <1>0, <1>1 DEF ExecNoSpace, Return
  <2>2. HoldInv'
    BY <1>0, <2>1 DEF xnVars, mngrVars, chanVars, HolderState, StateFits,
       WaitersSync, RequestUnsent, NumbersGiven
  <2>3. ListInv'
    BY <1>0, <2>1 DEF xnVars, mngrVars, recvVars, mVars, chanVars, Owned, Holds,
       FreeIdle, InitAlone, NoneLost, Woken
  <2> QED
    BY <2>2, <2>3
<1>2. ASSUME NEW op \in Ops, NEW async \in BOOLEAN, ExecPop(t, op, async)
      PROVE  HoldInv' /\ ListInv'
  <2>1. PICK i \in free :
          /\ free' = free \ {i}
          /\ gen' = [gen EXCEPT ![i] = pops]
          /\ call' = [call EXCEPT ![t] = [xn |-> i, op |-> op,
                                         async |-> async]]
    BY <1>2 DEF ExecPop, FirstFree
  <2>2. /\ pc[t] = "out" /\ pc' = [pc EXCEPT ![t] = "arm"]
        /\ pops' = pops + 1 /\ mpc' = mpc /\ cursor' = cursor
        /\ UNCHANGED <<xnVars, completed, recvVars, chanVars>>
        /\ mpc # "init"
    BY <1>2 DEF ExecPop, Sound
  <2>3. \A u \in Callers : pc[u] # "out" => u # t /\ call[u].xn # i
    BY <2>1, <2>2 DEF Owned
  <2>4. HolderState' /\ WaitersSync'
    BY <1>0, <2>1, <2>2, <2>3 DEF xnVars, HolderState, StateFits, WaitersSync,
       FreeIdle
  <2>5. RequestUnsent'
    BY <1>0, <2>1, <2>2, <2>3 DEF chanVars, RequestUnsent, NumbersGiven
  <2>6. NumbersGiven'
    BY <1>0, <2>1, <2>2, <2>3 DEF chanVars, NumbersGiven
  <2>7. Owned'
    BY <1>0, <2>1, <2>2, <2>3 DEF Owned, Holds
  <2>8. FreeIdle' /\ InitAlone'
    BY <1>0, <2>1, <2>2 DEF xnVars, FreeIdle, InitAlone
  <2>9. NoneLost'
    BY <1>0, <2>1, <2>2, <2>3 DEF xnVars, NoneLost, Holds
  <2>10. Woken'
    BY <1>0, <2>1, <2>2, <2>3 DEF xnVars, recvVars, Woken
  <2> QED
    BY <2>4, <2>5, <2>6, <2>7, <2>8, <2>9, <2>10
<1>3. CASE ExecArm(t)
  <2>1. CASE state[call[t].xn] = "SHUTDOWN"
    <3>1. /\ Return(t, "ENXIO") /\ pc[t] = "arm"
          /\ UNCHANGED <<xnVars, mngrVars, completed, recvVars, mVars, chanVars>>
      BY <1>3, <2>1 DEF ExecArm
    <3>2. HoldInv'
      BY <1>0, <3>1 DEF Return, xnVars, mngrVars, chanVars, HolderState,
         StateFits, WaitersSync, RequestUnsent, NumbersGiven
    <3>3. ListInv'
      BY <1>0, <2>1, <3>1 DEF Return, xnVars, mngrVars, recvVars, mVars,
         chanVars, Owned, Holds, FreeIdle, InitAlone, NoneLost, Woken
    <3> QED
      BY <3>2, <3>3
  <2>2. CASE state[call[t].xn] # "SHUTDOWN"
    <3> DEFINE i == call[t].xn
    <3>1. /\ i \in Xn /\ pc[t] = "arm" /\ call' = call
          /\ state' = [state EXCEPT ![i] =
                          IF call[t].async THEN "ASYNC" ELSE "WAITING"]
          /\ pc' = [pc EXCEPT ![t] = IF call[t].async THEN "send"
                                                      ELSE "reinit"]
          /\ UNCHANGED <<mngrVars, completed, recvVars, mVars, chanVars>>
      BY <1>0, <1>3, <2>2 DEF ExecArm
    <3>2. \A u \in Callers : pc[u] # "out" /\ call[u].xn = i => u = t
      BY <3>1 DEF Owned, Holds
    <3>3. HolderState' /\ WaitersSync'
      BY <1>0, <3>1, <3>2 DEF HolderState, StateFits, WaitersSync
    <3>4. RequestUnsent' /\ NumbersGiven'
      BY <1>0, <3>1 DEF mngrVars, chanVars, RequestUnsent, NumbersGiven
    <3>5. Owned' /\ NoneLost'
      BY <1>0, <3>1 DEF mngrVars, mVars, Owned, Holds, NoneLost
    <3>6. FreeIdle' /\ InitAlone'
      BY <1>0, <3>1 DEF mngrVars, mVars, Owned, FreeIdle, InitAlone
    <3>7. Woken'
      BY <1>0, <3>1 DEF recvVars, Woken, Completed
    <3> QED
      BY <3>3, <3>4, <3>5, <3>6, <3>7
  <2> QED
    BY <2>1, <2>2
<1>4. CASE ExecReinit(t)
  <2>1. /\ call[t].xn \in Xn /\ pc[t] = "reinit"
        /\ completed' = [completed EXCEPT ![call[t].xn] = 0]
        /\ pc' = [pc EXCEPT ![t] = "send"] /\ call' = call
        /\ UNCHANGED <<xnVars, mngrVars, recvVars, mVars, chanVars>>
    BY <1>0, <1>4 DEF ExecReinit
  <2>2. \A u \in Callers : pc[u] # "out" /\ call[u].xn = call[t].xn => u = t
    BY <2>1 DEF Owned, Holds
  <2>3. HoldInv'
    BY <1>0, <2>1 DEF xnVars, mngrVars, chanVars, HolderState, StateFits,
       WaitersSync, RequestUnsent, NumbersGiven
  <2>4. Owned' /\ FreeIdle' /\ InitAlone' /\ NoneLost'
    BY <1>0, <2>1 DEF xnVars, mngrVars, mVars, Owned, Holds, FreeIdle,
       InitAlone, NoneLost
  <2>5. Woken'
    BY <1>0, <2>1, <2>2 DEF xnVars, recvVars, Woken
  <2> QED
    BY <2>3, <2>4, <2>5
<1>5. CASE ExecSend(t)
  <2> DEFINE i == call[t].xn
             m == [idx |-> i, salt |-> salt[i], op |-> call[t].op,
                   gen |-> gen[i]]
  <2>1. /\ i \in Xn /\ pc[t] = "send" /\ requests' \subseteq requests \cup {m}
        /\ UNCHANGED <<xnVars, mngrVars, completed, recvVars, mVars, replies>>
    BY <1>0, <1>5 DEF ExecSend
  <2>2. \A u \in Callers : pc[u] # "out" /\ call[u].xn = i => u = t
    BY <2>1 DEF Owned, Holds
  <2>3. m.idx = i /\ m.gen = gen[i] /\ gen[i] < pops
    BY <2>1 DEF NumbersGiven
  <2>4. \/ call[t].async /\ Return(t, "SENT")
        \/ /\ ~ call[t].async /\ pc' = [pc EXCEPT ![t] = "wait"]
           /\ call' = call
    BY <1>5 DEF ExecSend
  <2>5. /\ \A u \in Callers \ {t} : pc'[u] = pc[u] /\ call'[u] = call[u]
        /\ pc'[t] \in {"out", "wait"} /\ (pc'[t] = "wait" => call'[t] = call[t])
        /\ pc'[t] = "wait" <=> ~ call[t].async
    BY <1>0, <2>4 DEF Return
  <2>6. HolderState' /\ WaitersSync'
    BY <1>0, <2>1, <2>5 DEF xnVars, HolderState, StateFits, WaitersSync
  <2>7. RequestUnsent'
    BY <1>0, <2>1, <2>2, <2>3, <2>5 DEF mngrVars, RequestUnsent
  <2>8. NumbersGiven'
    BY <1>0, <2>1, <2>3, <2>5 DEF mngrVars, NumbersGiven
  <2>9. Owned' /\ FreeIdle' /\ InitAlone'
    BY <1>0, <2>1, <2>5 DEF xnVars, mngrVars, mVars, Owned, Holds, FreeIdle,
       InitAlone
  <2>10. NoneLost'
    <3>1. state[i] \in {"ASYNC", "SHUTDOWN"} \/ ~ call[t].async
      BY <2>1 DEF HolderState, StateFits
    <3> QED
      BY <1>0, <2>1, <2>5, <3>1 DEF xnVars, mngrVars, mVars, NoneLost, Holds,
         InitAlone
  <2>11. Woken'
    BY <1>0, <2>1, <2>5 DEF xnVars, recvVars, Woken, HolderState, StateFits,
       Completed
  <2> QED
    BY <2>6, <2>7, <2>8, <2>9, <2>10, <2>11
<1>6. CASE ExecSendFail(t)
  <2>1. /\ pc[t] = "send" /\ pc' = [pc EXCEPT ![t] = "failed"] /\ call' = call
        /\ UNCHANGED <<xnVars, mngrVars, completed, recvVars, mVars, chanVars>>
    BY <1>6 DEF ExecSendFail
  <2>2. HoldInv'
    BY <1>0, <2>1 DEF xnVars, mngrVars, chanVars, HolderState, StateFits,
       WaitersSync, RequestUnsent, NumbersGiven
  <2>3. ListInv'
    BY <1>0, <2>1 DEF xnVars, mngrVars, recvVars, mVars, Owned, Holds,
       FreeIdle, InitAlone, NoneLost, Woken
  <2> QED
    BY <2>2, <2>3
<1>7. ASSUME NEW r, call[t].xn \in Xn, pc[t] # "out", Return(t, r),
             PushFree(call[t].xn),
             UNCHANGED <<gen, pops, completed, recvVars, mVars, chanVars>>
      PROVE  HoldInv' /\ ListInv'
  <2> DEFINE i == call[t].xn
  <2>1. \A u \in Callers : pc[u] # "out" /\ call[u].xn = i => u = t
    BY <1>7 DEF Owned, Holds
  <2>2. /\ \A u \in Callers \ {t} : pc'[u] = pc[u] /\ call'[u] = call[u]
        /\ pc'[t] = "out"
    BY <1>0, <1>7 DEF Return
  <2>3. /\ \A j \in Xn \ {i} : state'[j] = state[j]
        /\ state'[i] \in {"IDLE", "SHUTDOWN"} /\ free' = free \cup {i}
        /\ state'[i] = "SHUTDOWN" => state[i] = "SHUTDOWN"
    BY <1>0, <1>7 DEF PushFree, ReleasedState
  <2>4. HoldInv'
    BY <1>0, <1>7, <2>1, <2>2, <2>3 DEF chanVars, HolderState, StateFits,
       WaitersSync, RequestUnsent, NumbersGiven
  <2>5. Owned' /\ FreeIdle'
    BY <1>0, <1>7, <2>1, <2>2, <2>3 DEF Owned, Holds, FreeIdle
  <2>6. InitAlone'
    BY <1>0, <1>7, <2>2, <2>3 DEF mVars, InitAlone
  <2>7. NoneLost'
    BY <1>0, <1>7, <2>1, <2>2, <2>3 DEF mVars, NoneLost, Holds
  <2>8. Woken'
    BY <1>0, <1>7, <2>1, <2>2, <2>3 DEF recvVars, Woken
  <2> QED
    BY <2>4, <2>5, <2>6, <2>7, <2>8
<1>8. CASE ExecRelease(t)
  BY <1>0, <1>7, <1>8 DEF ExecRelease
<1>9. CASE ExecWake(t)
  <2>1. /\ call[t].xn \in Xn /\ pc[t] = "wait"
        /\ \A i \in Xn \ {call[t].xn} : completed'[i] = completed[i]
        /\ pc' = [pc EXCEPT ![t] = "finish"] /\ call' = call
        /\ UNCHANGED <<xnVars, mngrVars, recvVars, mVars, chanVars>>
    BY <1>0, <1>9 DEF ExecWake
  <2>2. \A u \in Callers : pc[u] # "out" /\ call[u].xn = call[t].xn => u = t
    BY <2>1 DEF Owned, Holds
  <2>3. HoldInv'
    BY <1>0, <2>1 DEF xnVars, mngrVars, chanVars, HolderState, StateFits,
       WaitersSync, RequestUnsent, NumbersGiven
  <2>4. Owned' /\ FreeIdle' /\ InitAlone' /\ NoneLost'
    BY <1>0, <2>1 DEF xnVars, mngrVars, mVars, Owned, Holds, FreeIdle,
       InitAlone, NoneLost
  <2>5. Woken'
    BY <1>0, <2>1, <2>2 DEF xnVars, recvVars, Woken
  <2> QED
    BY <2>3, <2>4, <2>5
<1>10. CASE ExecTimeout(t)
  <2>1. /\ pc[t] = "wait" /\ pc' = [pc EXCEPT ![t] = "finish"] /\ call' = call
        /\ UNCHANGED <<xnVars, mngrVars, completed, recvVars, mVars, chanVars>>
    BY <1>10 DEF ExecTimeout
  <2>2. HoldInv'
    BY <1>0, <2>1 DEF xnVars, mngrVars, chanVars, HolderState, StateFits,
       WaitersSync, RequestUnsent, NumbersGiven
  <2>3. ListInv'
    BY <1>0, <2>1 DEF xnVars, mngrVars, recvVars, mVars, Owned, Holds,
       FreeIdle, InitAlone, NoneLost, Woken
  <2> QED
    BY <2>2, <2>3
<1>11. CASE ExecFinish(t)
  <2>1. CASE state[call[t].xn] # "SHUTDOWN"
    BY <1>0, <1>7, <1>11, <2>1 DEF ExecFinish
  <2>2. CASE state[call[t].xn] = "SHUTDOWN"
    <3>1. /\ pc[t] = "finish" /\ pc' = [pc EXCEPT ![t] = "out"]
          /\ call' = [call EXCEPT ![t] = NoCall]
          /\ UNCHANGED <<state, free, gen, pops, completed, recvVars, mVars,
                         chanVars>>
      BY <1>11, <2>2 DEF ExecFinish, Return
    <3>2. HoldInv'
      BY <1>0, <3>1 DEF chanVars, HolderState, StateFits, WaitersSync,
         RequestUnsent, NumbersGiven
    <3>3. ListInv'
      BY <1>0, <2>2, <3>1 DEF recvVars, mVars, Owned, Holds, FreeIdle,
         InitAlone, NoneLost, Woken
    <3> QED
      BY <3>2, <3>3
  <2> QED
    BY <2>1, <2>2
<1> QED
  BY <1>1, <1>2, <1>3, <1>4, <1>5, <1>6, <1>8, <1>9, <1>10, <1>11 DEF Exec

(* A reply handled by idpf_vc_xn_forward_reply: the ownership survives.  A *)
(* reply to an asynchronous message finds no call on its transaction.      *)
LEMMA RecvKeepsOwner ==
  ASSUME TypeOK, SaltInv, Sound, Sound', HoldInv, ListInv,
         NEW m \in replies, RecvReply(m)
  PROVE  HoldInv' /\ ListInv'
<1>0. /\ state \in [Xn -> XnState] /\ completed \in [Xn -> Nat \cup {DoneAll}]
      /\ pc \in [Callers -> {"out", "arm", "reinit", "send", "failed", "wait",
                             "finish"}]
      /\ \A u \in Callers : pc[u] # "out" => call[u].xn \in Xn
      /\ gen \in [Xn -> Nat] /\ pops \in Nat /\ free \subseteq Xn
      /\ m.idx \in Xn /\ m.gen \in Nat
  BY OwnerTypes
<1> USE NoneAssumption DEF InExec, HoldInv, ListInv
<1>1. /\ rpc = "idle" /\ replies' \subseteq replies
      /\ UNCHANGED <<salt, gen, mngr_salt, pops, completed, execVars, mVars,
                     requests>>
  BY DEF RecvReply
<1>2. RequestUnsent' /\ NumbersGiven' /\ WaitersSync'
  BY <1>0, <1>1 DEF execVars, RequestUnsent, NumbersGiven, WaitersSync
<1>3. CASE state' = state /\ free' = free
  <2>1. HoldInv'
    BY <1>1, <1>2, <1>3 DEF execVars, HolderState, StateFits
  <2>2. ListInv'
    BY <1>1, <1>3 DEF execVars, mVars, Owned, Holds, FreeIdle, InitAlone,
       NoneLost, Woken
  <2> QED
    BY <2>1, <2>2
<1>4. CASE RecvAsync(m)
  <2>1. m.gen = gen[m.idx]
    BY <1>4, ReplyCurrent DEF RecvAsync
  <2>2. \A u \in Callers : pc[u] # "out" => call[u].xn # m.idx
    <3> SUFFICES ASSUME NEW u \in Callers, pc[u] # "out", call[u].xn = m.idx
                 PROVE  FALSE
      OBVIOUS
    <3>1. pc[u] \in {"send", "failed"}
      BY <1>4 DEF RecvAsync, HolderState, StateFits, Completed
    <3> QED
      BY <1>0, <2>1, <3>1 DEF RequestUnsent
  <2>3. state' = [state EXCEPT ![m.idx] = "IDLE"] /\ free' = free \cup {m.idx}
    BY <1>0, <1>4 DEF RecvAsync, PushFree, ReleasedState
  <2>4. HolderState' /\ Owned'
    BY <1>0, <1>1, <2>2, <2>3 DEF execVars, HolderState, StateFits, Owned, Holds
  <2>5. FreeIdle' /\ InitAlone' /\ NoneLost'
    BY <1>0, <1>1, <2>3 DEF execVars, mVars, FreeIdle, InitAlone, NoneLost, Holds
  <2>6. Woken'
    BY <1>0, <1>1, <2>2, <2>3 DEF execVars, Woken
  <2> QED
    BY <1>2, <2>4, <2>5, <2>6
<1>5. CASE RecvExpected(m)
  <2>1. /\ state[m.idx] = "WAITING" /\ free' = free
        /\ \A i \in Xn \ {m.idx} : state'[i] = state[i]
        /\ state'[m.idx] \in Completed /\ rpc' = "complete" /\ rxn' = m.idx
    BY <1>0, <1>5 DEF RecvExpected, Completed
  <2>2. m.gen = gen[m.idx]
    BY <1>5, ReplyCurrent DEF RecvExpected
  <2>3. \A u \in Callers : pc[u] # "out" /\ call[u].xn = m.idx =>
           pc[u] \in {"wait", "finish"}
    BY <1>0, <2>1, <2>2 DEF HolderState, StateFits, RequestUnsent
  <2>4. HolderState'
    BY <1>0, <1>1, <2>1, <2>3 DEF execVars, HolderState, StateFits
  <2>5. Owned' /\ FreeIdle'
    BY <1>0, <1>1, <2>1 DEF execVars, Owned, Holds, FreeIdle, Completed
  <2>6. InitAlone' /\ NoneLost'
    BY <1>0, <1>1, <2>1 DEF execVars, mVars, InitAlone, NoneLost, Holds,
       Completed
  <2>7. Woken'
    BY <1>0, <1>1, <2>1 DEF execVars, Woken
  <2> QED
    BY <1>2, <2>4, <2>5, <2>6, <2>7
<1> QED
  BY <1>3, <1>4, <1>5
     DEF RecvReply, RecvSaltMismatch, RecvUnexpected, xnVars

(* The mailbox task, the control plane, the device and the reset path.     *)
LEMMA RestKeepsOwner ==
  ASSUME TypeOK, SaltInv, DownInv, Sound, Sound', HoldInv, ListInv,
         \/ RecvComplete \/ HwReset \/ Manager \/ UNCHANGED vars
         \/ \E m \in requests, op \in Ops, ok \in BOOLEAN : CpReply(m, op, ok)
  PROVE  HoldInv' /\ ListInv'
<1>0. /\ state \in [Xn -> XnState] /\ completed \in [Xn -> Nat \cup {DoneAll}]
      /\ \A u \in Callers : pc[u] # "out" => call[u].xn \in Xn
      /\ gen \in [Xn -> Nat] /\ pops \in Nat /\ free \subseteq Xn
      /\ cursor \in Xn /\ rxn \in Xn
      /\ \A m \in requests \cup replies : m.idx \in Xn /\ m.gen \in Nat
  BY OwnerTypes
<1> USE NoneAssumption DEF InExec, HoldInv, ListInv
<1>1. CASE RecvComplete
  <2>1. /\ completed' = [completed EXCEPT ![rxn] = Complete(completed[rxn])]
        /\ UNCHANGED <<xnVars, mngrVars, execVars, rxn, mVars, chanVars>>
    BY <1>1 DEF RecvComplete
  <2>2. Signalled(completed'[rxn])
    BY <1>0, <2>1 DEF Complete, Signalled, DoneAll
  <2>3. HoldInv'
    BY <2>1 DEF xnVars, mngrVars, execVars, chanVars, HolderState, StateFits,
       WaitersSync, RequestUnsent, NumbersGiven
  <2>4. Owned' /\ FreeIdle' /\ InitAlone' /\ NoneLost'
    BY <2>1 DEF xnVars, mngrVars, execVars, mVars, Owned, Holds, FreeIdle,
       InitAlone, NoneLost
  <2>5. Woken'
    BY <1>0, <2>1, <2>2 DEF xnVars, execVars, Woken
  <2> QED
    BY <2>3, <2>4, <2>5
<1>2. ASSUME NEW r \in requests, NEW op \in Ops, NEW ok \in BOOLEAN,
             CpReply(r, op, ok)
      PROVE  HoldInv' /\ ListInv'
  <2> DEFINE m == [idx |-> r.idx, salt |-> r.salt, op |-> op, gen |-> r.gen,
                   ok |-> ok]
  <2>1. /\ replies' = replies \cup {m} /\ requests' = requests
        /\ UNCHANGED <<xnVars, mngrVars, completed, execVars, recvVars, mVars>>
    BY <1>2 DEF CpReply
  <2>2. m.idx = r.idx /\ m.gen = r.gen
    OBVIOUS
  <2> HIDE DEF m
  <2>3. RequestUnsent' /\ NumbersGiven'
    BY <2>1, <2>2 DEF mngrVars, execVars, RequestUnsent, NumbersGiven
  <2>4. HolderState' /\ WaitersSync' /\ ListInv'
    BY <2>1 DEF xnVars, mngrVars, execVars, recvVars, mVars, HolderState,
       StateFits, WaitersSync, Owned, Holds, FreeIdle, InitAlone, NoneLost,
       Woken
  <2> QED
    BY <2>3, <2>4
<1>3. CASE HwReset \/ UNCHANGED vars
  <2>1. UNCHANGED <<xnVars, mngrVars, completed, execVars, recvVars, mpc,
                    cursor, chanVars>>
    BY <1>3 DEF HwReset, vars, mVars
  <2>2. HoldInv'
    BY <2>1 DEF xnVars, mngrVars, execVars, chanVars, HolderState, StateFits,
       WaitersSync, RequestUnsent, NumbersGiven
  <2>3. ListInv'
    BY <2>1 DEF xnVars, mngrVars, execVars, recvVars, Owned, Holds, FreeIdle,
       InitAlone, NoneLost, Woken
  <2> QED
    BY <2>2, <2>3
<1>4. CASE ShutdownStart \/ ShutdownWake
  <2>1. /\ mpc' \in {"lock", "down"} /\ free' \subseteq free
        /\ \A i \in Xn : Signalled(completed[i]) => Signalled(completed'[i])
        /\ UNCHANGED <<xnVars, salt, gen, mngr_salt, pops, execVars, recvVars,
                       chanVars>>
    BY <1>0, <1>4 DEF ShutdownStart, ShutdownWake, mngrVars, Signalled, DoneAll
  <2>2. HoldInv'
    BY <2>1 DEF xnVars, execVars, chanVars, HolderState, StateFits,
       WaitersSync, RequestUnsent, NumbersGiven
  <2>3. ListInv'
    BY <1>0, <2>1 DEF xnVars, execVars, recvVars, Owned, Holds, FreeIdle,
       InitAlone, NoneLost, Woken
  <2> QED
    BY <2>2, <2>3
<1>5. CASE ShutdownXn
  <2>1. /\ mpc' = "wakeall" /\ state' = [state EXCEPT ![cursor] = "SHUTDOWN"]
        /\ UNCHANGED <<mngrVars, completed, execVars, recvVars, chanVars>>
    BY <1>5 DEF ShutdownXn
  <2>2. HoldInv'
    BY <1>0, <2>1 DEF mngrVars, execVars, chanVars, HolderState, StateFits,
       WaitersSync, RequestUnsent, NumbersGiven
  <2>3. ListInv'
    BY <1>0, <2>1 DEF mngrVars, execVars, recvVars, Owned, Holds, FreeIdle,
       InitAlone, NoneLost, Woken, Completed
  <2> QED
    BY <2>2, <2>3
<1>6. CASE Recover
  <2>1. /\ mpc = "down" /\ mpc' = "init" /\ cursor' = 0 /\ replies' = {}
        /\ \A u \in Callers : pc[u] = "out"
        /\ UNCHANGED <<xnVars, mngrVars, completed, execVars, recvVars, requests>>
    BY <1>6 DEF Recover, Sound
  <2>2. HoldInv'
    BY <2>1 DEF xnVars, mngrVars, execVars, HolderState, WaitersSync,
       RequestUnsent, NumbersGiven
  <2>3. \A i \in Xn : state[i] = "SHUTDOWN" /\ ~ (i < 0)
    BY <2>1, RingLenAssumption DEF DownInv, ShutDown, Xn
  <2>4. ListInv'
    BY <2>1, <2>3 DEF xnVars, mngrVars, execVars, Owned, FreeIdle, InitAlone,
       NoneLost, Woken
  <2> QED
    BY <2>2, <2>4
<1>7. CASE InitXn
  <2>1. /\ mpc = "init" /\ \A u \in Callers : pc[u] = "out"
        /\ state' = [state EXCEPT ![cursor] = "IDLE"]
        /\ UNCHANGED <<salt, gen, mngr_salt, pops, execVars, chanVars>>
    BY <1>7 DEF InitXn, Sound
  <2>2. HoldInv'
    BY <2>1 DEF execVars, chanVars, HolderState, WaitersSync, RequestUnsent,
       NumbersGiven
  <2>3. Owned' /\ Woken'
    BY <2>1 DEF execVars, Owned, Woken
  <2>4. \A i \in Xn : /\ state'[i] \in {"IDLE", "SHUTDOWN"}
                      /\ i <= cursor => state'[i] = "IDLE"
    BY <1>0, <2>1, RingLenAssumption DEF InitAlone, Xn
  <2>5. FreeIdle' /\ InitAlone' /\ NoneLost'
    <3>1. CASE cursor < RingLen - 1 /\ cursor' = cursor + 1
               /\ UNCHANGED <<mpc, free>>
      BY <1>0, <2>1, <2>4, <3>1, RingLenAssumption
         DEF execVars, FreeIdle, InitAlone, NoneLost, Xn
    <3>2. CASE cursor = RingLen - 1 /\ mpc' = "up" /\ free' = Xn
      <4>1. \A i \in Xn : i <= cursor
        BY <3>2, RingLenAssumption DEF Xn
      <4>2. \A i \in Xn : state'[i] = "IDLE"
        BY <2>4, <4>1
      <4> QED
        BY <3>2, <4>2 DEF FreeIdle, InitAlone, NoneLost
    <3> QED
      BY <1>7, <3>1, <3>2 DEF InitXn
  <2> QED
    BY <2>2, <2>3, <2>5
<1> QED
  BY <1>1, <1>2, <1>3, <1>4, <1>5, <1>6, <1>7 DEF Manager

(* OwnerInv is inductive relative to what VcXnProofs shows.                *)
LEMMA OwnerInductive ==
  TypeOK /\ SaltInv /\ DownInv /\ OwnerInv /\ [Next]_vars => OwnerInv'
<1> SUFFICES ASSUME TypeOK, SaltInv, DownInv, OwnerInv, [Next]_vars, Sound'
             PROVE  HoldInv' /\ ListInv'
  BY DEF OwnerInv
<1>1. Sound /\ HoldInv /\ ListInv
  BY SoundBefore DEF OwnerInv
<1> QED
  BY <1>1, ExecKeepsOwner, RecvKeepsOwner, RestKeepsOwner DEF Next

(* At first no call owns a transaction and all of them are free.            *)
LEMMA OwnerInit == Init => OwnerInv
<1> SUFFICES ASSUME Init PROVE HoldInv /\ ListInv
  BY DEF OwnerInv
<1>1. HoldInv
  BY DEF Init, HoldInv, HolderState, WaitersSync, RequestUnsent, NumbersGiven,
         InExec
<1>2. ListInv
  BY DEF Init, ListInv, Owned, FreeIdle, InitAlone, NoneLost, Woken, InExec
<1> QED
  BY <1>1, <1>2

(* OwnerInv always holds, as long as Sound does.                            *)
LEMMA OwnerInvariant == Spec => []OwnerInv
  BY OwnerInit, OwnerInductive, Typing, SaltInvariant, DownInvariant, PTL
     DEF Spec

(* Every transaction is in one hand: no two calls of idpf_vc_xn_exec work  *)
(* on one transaction, none works on one of the free list, none is lost,   *)
(* and what the free list offers is idle - until a salt is used twice or   *)
(* idpf_vc_xn_init runs under the feet of a call.                          *)
THEOREM OwnershipSafe == Spec => []XnOwnership
<1>1. OwnerInv => ExclusiveXn /\ NoLeakedXn /\ FreeXnIdle
  BY DEF OwnerInv, ListInv, Owned, NoneLost, FreeIdle, ExclusiveXn, NoLeakedXn,
         FreeXnIdle
<1> QED
  BY <1>1, Typing, OwnerInvariant, PTL DEF XnOwnership

(* A call never waits for its timer with its reply already processed: the  *)
(* wake-up is there or the mailbox task is about to give it.               *)
THEOREM WakeSafe == Spec => []WakePending
<1>1. OwnerInv => WakePending
  BY DEF OwnerInv, ListInv, Woken, WakePending
<1> QED
  BY <1>1, OwnerInvariant, PTL

-----------------------------------------------------------------------------
(* The refinement of VcCall.  What a step does to the calls is told by the *)
(* phase and the verdict of each.                                          *)
Phase   == [t \in Callers |-> PhaseOf(t)]
Verdict == [t \in Callers |-> VerdictOf(t)]

(* A step that changes no call's phase, verdict or result is a stutter.    *)
Same(u) == PhaseOf(u)' = PhaseOf(u) /\ VerdictOf(u)' = VerdictOf(u)

(* The calls other than t do not notice a step of t.                       *)
LEMMA OthersSame ==
  ASSUME TypeOK, HoldInv, ListInv, NEW t \in Callers, Exec(t)
  PROVE  \A u \in Callers \ {t} : Same(u)
<1> SUFFICES ASSUME NEW u \in Callers, u # t PROVE Same(u)
  OBVIOUS
<1>0. /\ state \in [Xn -> XnState]
      /\ pc \in [Callers -> {"out", "arm", "reinit", "send", "failed", "wait",
                             "finish"}]
      /\ call \in [Callers -> Call]
      /\ pc[t] # "out" => call[t].xn \in Xn
      /\ pc[u] # "out" => call[u].xn \in Xn
  BY OwnerTypes
<1>1. pc'[u] = pc[u] /\ call'[u] = call[u]
  BY <1>0 DEF Exec, ExecNoSpace, ExecPop, ExecArm, ExecReinit, ExecSend,
     ExecSendFail, ExecRelease, ExecWake, ExecTimeout, ExecFinish, Return
<1>2. pc[u] # "out" => state'[call[u].xn] = state[call[u].xn]
  <2>1. CASE pc[t] = "out"
    BY <2>1 DEF Exec, ExecNoSpace, ExecPop, ExecArm, ExecReinit, ExecSend,
       ExecSendFail, ExecRelease, ExecWake, ExecTimeout, ExecFinish, xnVars
  <2>2. CASE pc[t] # "out" /\ pc[u] # "out"
    <3>1. call[u].xn # call[t].xn
      BY <2>2 DEF ListInv, Owned, Holds, InExec
    <3> QED
      BY <1>0, <2>2, <3>1
         DEF Exec, ExecNoSpace, ExecPop, ExecArm, ExecReinit, ExecSend,
         ExecSendFail, ExecRelease, ExecWake, ExecTimeout, ExecFinish,
         PushFree, xnVars
  <2> QED
    BY <2>1, <2>2
<1> QED
  BY <1>1, <1>2 DEF Same, PhaseOf, VerdictOf, InExec

(* A step of a call is one of VcCall's, or does not show.                  *)
LEMMA ExecRefines ==
  ASSUME TypeOK, HoldInv, ListInv, NEW t \in Callers, Exec(t)
  PROVE  VcCalls!Step(t) \/ UNCHANGED <<Phase, Verdict, ret>>
<1>0. /\ state \in [Xn -> XnState]
      /\ pc \in [Callers -> {"out", "arm", "reinit", "send", "failed", "wait",
                             "finish"}]
      /\ call \in [Callers -> Call]
      /\ pc[t] # "out" => call[t].xn \in Xn
      /\ free \subseteq Xn
  BY OwnerTypes DEF TypeOK
<1>1. \A u \in Callers \ {t} : Same(u)
  BY OthersSame
<1>2. Phase' = [Phase EXCEPT ![t] = PhaseOf(t)']
  BY <1>1 DEF Phase, Same
<1>3. Verdict' = [Verdict EXCEPT ![t] = VerdictOf(t)']
  BY <1>1 DEF Verdict, Same
<1>4. Phase[t] = PhaseOf(t) /\ Verdict[t] = VerdictOf(t)
  BY DEF Phase, Verdict
<1>5. ASSUME Same(t), ret' = ret PROVE UNCHANGED <<Phase, Verdict, ret>>
  BY <1>1, <1>5 DEF Phase, Verdict, Same
<1>6. ASSUME pc[t] # "out", pc[t] \notin {"wait", "finish"}, NEW r, Return(t, r),
             \/ r = "SENDERR" \/ r = "SENT"
             \/ r = "ENXIO" /\ state[call[t].xn] = "SHUTDOWN"
      PROVE  VcCalls!Step(t)
  <2>1. PhaseOf(t) = "begun" /\ PhaseOf(t)' = "out" /\ VerdictOf(t)' = "none"
    BY <1>0, <1>6 DEF Return, PhaseOf, VerdictOf, InExec
  <2>2. r = "ENXIO" => VerdictOf(t) = "down"
    BY <1>6 DEF VerdictOf, InExec
  <2>3. VcCalls!Leave(t, r)
    BY <1>2, <1>3, <1>6, <2>1 DEF VcCalls!Leave, Phase, Verdict, Return
  <2> QED
    BY <1>4, <1>6, <2>1, <2>2, <2>3
       DEF VcCalls!Step, VcCalls!Abandon, Phase, Verdict
<1>7. CASE ExecNoSpace(t)
  <2>1. Same(t)
    BY <1>0, <1>7 DEF ExecNoSpace, Return, Same, PhaseOf, VerdictOf, InExec
  <2>2. UNCHANGED <<Phase, Verdict>>
    BY <1>1, <2>1 DEF Phase, Verdict, Same
  <2>3. PhaseOf(t) = "out" /\ ret' = [ret EXCEPT ![t] = "ENOSPC"]
    BY <1>7 DEF ExecNoSpace, Return, PhaseOf
  <2> QED
    BY <1>4, <2>2, <2>3 DEF VcCalls!Step, VcCalls!Refuse, Phase, Verdict
<1>8. ASSUME NEW op \in Ops, NEW async \in BOOLEAN, ExecPop(t, op, async)
      PROVE  VcCalls!Step(t)
  <2>1. PICK i \in free :
          call' = [call EXCEPT ![t] = [xn |-> i, op |-> op, async |-> async]]
    BY <1>8 DEF ExecPop, FirstFree
  <2>2. /\ pc[t] = "out" /\ pc' = [pc EXCEPT ![t] = "arm"] /\ state' = state
        /\ ret' = [ret EXCEPT ![t] = "none"]
    BY <1>8 DEF ExecPop, xnVars
  <2>3. state[i] \in {"IDLE", "SHUTDOWN"}
    BY DEF ListInv, FreeIdle
  <2>4. pc'[t] = "arm" /\ call'[t].xn = i
    BY <1>0, <2>1, <2>2
  <2>5. PhaseOf(t) = "out" /\ PhaseOf(t)' = "begun"
    BY <2>2, <2>4 DEF PhaseOf
  <2>6. VerdictOf(t)' \in {"none", "down"}
    BY <2>2, <2>3, <2>4 DEF VerdictOf, InExec
  <2> QED
    BY <1>2, <1>3, <1>4, <2>2, <2>5, <2>6
       DEF VcCalls!Step, VcCalls!Begin, Phase, Verdict
<1>9. CASE ExecArm(t)
  <2>1. CASE state[call[t].xn] = "SHUTDOWN"
    BY <1>6, <1>9, <2>1 DEF ExecArm
  <2>2. CASE state[call[t].xn] # "SHUTDOWN"
    <3>1. /\ pc[t] = "arm" /\ call' = call /\ ret' = ret
          /\ pc'[t] \in {"send", "reinit"}
          /\ state'[call[t].xn] \in {"ASYNC", "WAITING"}
      BY <1>0, <1>9, <2>2 DEF ExecArm
    <3>2. state[call[t].xn] = "IDLE"
      BY <2>2, <3>1 DEF HoldInv, HolderState, StateFits, InExec
    <3>3. Same(t)
      BY <3>1, <3>2 DEF Same, PhaseOf, VerdictOf, InExec
    <3> QED
      BY <1>5, <3>1, <3>3
  <2> QED
    BY <2>1, <2>2
<1>10. CASE ExecReinit(t) \/ ExecSendFail(t)
  <2>1. Same(t) /\ ret' = ret
    BY <1>0, <1>10 DEF ExecReinit, ExecSendFail, xnVars, Same, PhaseOf,
       VerdictOf, InExec
  <2> QED
    BY <1>5, <2>1
<1>11. CASE ExecSend(t)
  <2>1. CASE call[t].async
    <3>1. pc[t] # "out" /\ pc[t] \notin {"wait", "finish"} /\ Return(t, "SENT")
      BY <1>11, <2>1 DEF ExecSend
    <3> QED
      BY <1>6, <3>1
  <2>2. CASE ~ call[t].async
    <3>1. /\ pc[t] = "send" /\ pc'[t] = "wait" /\ call' = call /\ ret' = ret
          /\ state' = state
      BY <1>0, <1>11, <2>2 DEF ExecSend, xnVars
    <3>2. /\ PhaseOf(t) = "begun" /\ PhaseOf(t)' = "sent"
          /\ VerdictOf(t)' = VerdictOf(t)
      BY <3>1 DEF PhaseOf, VerdictOf, InExec
    <3>3. Verdict' = Verdict
      BY <1>1, <3>2 DEF Verdict, Same
    <3> QED
      BY <1>2, <1>4, <3>1, <3>2, <3>3
         DEF VcCalls!Step, VcCalls!Send, Phase, Verdict
  <2> QED
    BY <2>1, <2>2
<1>12. CASE ExecRelease(t)
  <2>1. pc[t] # "out" /\ pc[t] \notin {"wait", "finish"} /\ Return(t, "SENDERR")
    BY <1>12 DEF ExecRelease
  <2> QED
    BY <1>6, <2>1
<1>13. CASE ExecWake(t) \/ ExecTimeout(t)
  <2>1. Same(t) /\ ret' = ret
    BY <1>0, <1>13 DEF ExecWake, ExecTimeout, xnVars, Same, PhaseOf, VerdictOf,
       InExec
  <2> QED
    BY <1>5, <2>1
<1>14. CASE ExecFinish(t)
  <2>1. pc[t] = "finish" /\ Return(t, Retval(state[call[t].xn]))
    BY <1>14 DEF ExecFinish
  <2>2. state[call[t].xn] \in Completed \cup {"WAITING", "SHUTDOWN"}
    BY <2>1 DEF HoldInv, HolderState, StateFits, InExec
  <2>3. Retval(state[call[t].xn]) = VcCalls!Outcome(VerdictOf(t))
    BY <2>1, <2>2 DEF Retval, VcCalls!Outcome, VerdictOf, InExec, Completed
  <2>4. PhaseOf(t) = "sent" /\ PhaseOf(t)' = "out" /\ VerdictOf(t)' = "none"
    BY <1>0, <2>1 DEF Return, PhaseOf, VerdictOf, InExec
  <2>5. VcCalls!Leave(t, VcCalls!Outcome(VerdictOf(t)))
    BY <1>2, <1>3, <2>1, <2>3, <2>4 DEF VcCalls!Leave, Phase, Verdict, Return
  <2> QED
    BY <1>4, <2>4, <2>5 DEF VcCalls!Step, VcCalls!End, Phase, Verdict
<1> QED
  BY <1>7, <1>8, <1>9, <1>10, <1>11, <1>12, <1>13, <1>14 DEF Exec

(* A reply passes a verdict on the call that waits for it, if there is one *)
LEMMA RecvRefines ==
  ASSUME TypeOK, SaltInv, Sound, HoldInv, ListInv, NEW m \in replies,
         RecvReply(m)
  PROVE  \/ \E t \in Callers : VcCalls!Step(t)
         \/ UNCHANGED <<Phase, Verdict, ret>>
<1>0. /\ state \in [Xn -> XnState] /\ m.idx \in Xn
      /\ pc \in [Callers -> {"out", "arm", "reinit", "send", "failed", "wait",
                             "finish"}]
      /\ \A u \in Callers : pc[u] # "out" => call[u].xn \in Xn
      /\ m.gen \in Nat /\ gen \in [Xn -> Nat]
  BY OwnerTypes DEF TypeOK
<1>1. pc' = pc /\ call' = call /\ ret' = ret
  BY DEF RecvReply, execVars
<1>2. ASSUME \A u \in Callers : pc[u] # "out" =>
               state'[call[u].xn] = state[call[u].xn]
      PROVE  UNCHANGED <<Phase, Verdict, ret>>
  BY <1>1, <1>2 DEF Phase, Verdict, PhaseOf, VerdictOf, InExec
<1>3. CASE state' = state
  BY <1>2, <1>3
<1>4. CASE RecvAsync(m)
  <2>1. m.gen = gen[m.idx]
    BY <1>4, ReplyCurrent DEF RecvAsync, HoldInv
  <2>2. ASSUME NEW u \in Callers, pc[u] # "out", call[u].xn = m.idx PROVE FALSE
    <3>1. pc[u] \in {"send", "failed"}
      BY <1>4, <2>2 DEF RecvAsync, HoldInv, HolderState, StateFits, Completed,
         InExec
    <3> QED
      BY <1>0, <2>1, <2>2, <3>1 DEF HoldInv, RequestUnsent
  <2>3. \A j \in Xn \ {m.idx} : state'[j] = state[j]
    BY <1>0, <1>4 DEF RecvAsync, PushFree
  <2> QED
    BY <1>0, <1>2, <2>2, <2>3
<1>5. CASE RecvExpected(m)
  <2>1. /\ state[m.idx] = "WAITING" /\ state'[m.idx] \in Completed
        /\ \A j \in Xn \ {m.idx} : state'[j] = state[j]
    BY <1>0, <1>5 DEF RecvExpected, Completed
  <2>2. CASE \A u \in Callers : pc[u] # "out" => call[u].xn # m.idx
    BY <1>0, <1>2, <2>1, <2>2
  <2>3. ASSUME NEW t \in Callers, pc[t] # "out", call[t].xn = m.idx
        PROVE  VcCalls!Step(t)
    <3>1. m.gen = gen[m.idx]
      BY <1>5, ReplyCurrent DEF RecvExpected, HoldInv
    <3>2. pc[t] \in {"wait", "finish"}
      BY <1>0, <2>1, <2>3, <3>1 DEF HoldInv, HolderState, StateFits,
         RequestUnsent, InExec
    <3>3. \A u \in Callers \ {t} : pc[u] # "out" => call[u].xn # m.idx
      BY <2>3 DEF ListInv, Owned, Holds, InExec
    <3>4. \A u \in Callers \ {t} : Same(u)
      BY <1>0, <1>1, <2>1, <3>3 DEF Same, PhaseOf, VerdictOf, InExec
    <3>5. PhaseOf(t) = "sent" /\ PhaseOf(t)' = "sent"
      BY <1>1, <3>2 DEF PhaseOf
    <3>6. VerdictOf(t) = "none" /\ VerdictOf(t)' \in {"ok", "failed"}
      BY <1>1, <2>1, <2>3 DEF VerdictOf, InExec, Completed
    <3>7. Phase' = Phase /\ Verdict' = [Verdict EXCEPT ![t] = VerdictOf(t)']
      BY <3>4, <3>5 DEF Phase, Verdict, Same
    <3>8. Phase[t] = "sent" /\ Verdict[t] = "none"
      BY <3>5, <3>6 DEF Phase, Verdict
    <3> QED
      BY <1>1, <3>6, <3>7, <3>8 DEF VcCalls!Step, VcCalls!Answer, Phase, Verdict
  <2> QED
    BY <2>2, <2>3
<1> QED
  BY <1>3, <1>4, <1>5
     DEF RecvReply, RecvSaltMismatch, RecvUnexpected, xnVars

(* The shutdown reaches the call that holds the transaction, if there is   *)
(* one; idpf_vc_xn_init meets no call.                                     *)
LEMMA RestRefines ==
  ASSUME TypeOK, Sound', HoldInv, ListInv,
         \/ RecvComplete \/ HwReset \/ Manager \/ UNCHANGED vars
         \/ \E m \in requests, op \in Ops, ok \in BOOLEAN : CpReply(m, op, ok)
  PROVE  \/ \E t \in Callers : VcCalls!Step(t)
         \/ UNCHANGED <<Phase, Verdict, ret>>
<1>0. /\ state \in [Xn -> XnState] /\ cursor \in Xn
      /\ \A u \in Callers : pc[u] # "out" => call[u].xn \in Xn
  BY OwnerTypes
<1>1. pc' = pc /\ call' = call /\ ret' = ret
  BY DEF RecvComplete, HwReset, Manager, ShutdownStart, ShutdownXn,
     ShutdownWake, Recover, InitXn, CpReply, vars, execVars
<1>2. ASSUME \A u \in Callers : pc[u] # "out" =>
               state'[call[u].xn] = state[call[u].xn]
      PROVE  UNCHANGED <<Phase, Verdict, ret>>
  BY <1>1, <1>2 DEF Phase, Verdict, PhaseOf, VerdictOf, InExec
<1>3. CASE state' = state
  BY <1>2, <1>3
<1>4. CASE ShutdownXn
  <2>1. state' = [state EXCEPT ![cursor] = "SHUTDOWN"]
    BY <1>4 DEF ShutdownXn
  <2>2. CASE \A u \in Callers : pc[u] # "out" => call[u].xn # cursor
    BY <1>0, <1>2, <2>1, <2>2
  <2>3. ASSUME NEW t \in Callers, pc[t] # "out", call[t].xn = cursor
        PROVE  VcCalls!Step(t)
    <3>1. \A u \in Callers \ {t} : pc[u] # "out" => call[u].xn # cursor
      BY <2>3 DEF ListInv, Owned, Holds, InExec
    <3>2. \A u \in Callers \ {t} : Same(u)
      BY <1>0, <1>1, <2>1, <3>1 DEF Same, PhaseOf, VerdictOf, InExec
    <3>3. PhaseOf(t) # "out" /\ PhaseOf(t)' = PhaseOf(t)
      BY <1>1, <2>3 DEF PhaseOf
    <3>4. VerdictOf(t)' = "down"
      BY <1>0, <1>1, <2>1, <2>3 DEF VerdictOf, InExec
    <3>5. Phase' = Phase /\ Verdict' = [Verdict EXCEPT ![t] = "down"]
      BY <3>2, <3>3, <3>4 DEF Phase, Verdict, Same
    <3>6. Phase[t] # "out"
      BY <3>3 DEF Phase
    <3> QED
      BY <1>1, <3>5, <3>6 DEF VcCalls!Step, VcCalls!Down, Phase, Verdict
  <2> QED
    BY <2>2, <2>3
<1>5. CASE InitXn
  <2>1. \A u \in Callers : pc[u] = "out"
    BY <1>5 DEF InitXn, Sound, InExec
  <2> QED
    BY <1>2, <2>1
<1>6. CASE RecvComplete \/ HwReset \/ ShutdownStart \/ ShutdownWake \/ Recover
           \/ UNCHANGED vars
  BY <1>3, <1>6 DEF RecvComplete, HwReset, ShutdownStart, ShutdownWake, Recover,
     vars, xnVars
<1>7. ASSUME NEW m \in requests, NEW op \in Ops, NEW ok \in BOOLEAN,
             CpReply(m, op, ok)
      PROVE  state' = state
  BY <1>7 DEF CpReply, xnVars
<1> QED
  BY <1>3, <1>4, <1>5, <1>6, <1>7 DEF Manager

(* idpf_vc_xn_exec implements VcCall: whatever late, repeated and failing  *)
(* replies, stolen wake-ups, timeouts and shutdowns do, a call gets at     *)
(* most one verdict, never before its request is out, no other call can    *)
(* disturb it, and the value it returns tells what happened to it.         *)
THEOREM CallsImplemented == Spec => ImplementsCalls
<1>1. Init => VcCalls!Init
  <2> SUFFICES ASSUME Init PROVE VcCalls!Init
    OBVIOUS
  <2>1. \A t \in Callers : PhaseOf(t) = "out" /\ VerdictOf(t) = "none"
    BY DEF Init, PhaseOf, VerdictOf, InExec
  <2>2. Sound
    BY SaltModAssumption DEF Init, Sound
  <2> QED
    BY <2>1, <2>2 DEF Init, VcCalls!Init
<1>2. TypeOK /\ SaltInv /\ OwnerInv /\ [Next]_vars
        => [VcCalls!Next]_(VcCalls!vars)
  <2> SUFFICES ASSUME TypeOK, SaltInv, OwnerInv, [Next]_vars
               PROVE  VcCalls!Next \/ UNCHANGED VcCalls!vars
    OBVIOUS
  <2>1. CASE ~ Sound'
    BY <2>1 DEF VcCalls!Next
  <2>2. CASE Sound'
    <3>1. Sound /\ HoldInv /\ ListInv
      BY <2>2, SoundBefore DEF OwnerInv
    <3>2. \/ \E t \in Callers : VcCalls!Step(t)
          \/ UNCHANGED <<Phase, Verdict, ret>>
      BY <2>2, <3>1, ExecRefines, RecvRefines, RestRefines DEF Next
    <3>3. Sound' = Sound
      BY <2>2, <3>1 DEF Sound
    <3> QED
      BY <2>2, <3>1, <3>2, <3>3 DEF VcCalls!Next, VcCalls!vars, Phase, Verdict
  <2> QED
    BY <2>1, <2>2
<1> QED
  BY <1>1, <1>2, Typing, SaltInvariant, OwnerInvariant, PTL
     DEF Spec, ImplementsCalls, VcCalls!Spec
=============================================================================
