-------------------------------- MODULE VcCall --------------------------------
(***************************************************************************)
(* What idpf_vc_xn_exec promises its callers, without rings, salts, locks  *)
(* and completions: a call is begun, its message is sent, at most one      *)
(* verdict is passed on it, and it ends with a value that tells the        *)
(* verdict.  A shutdown of the manager overrules any verdict; a call that  *)
(* ends without a verdict timed out.  VcXn implements this for as long as  *)
(* `sound' holds.                                                          *)
(***************************************************************************)
CONSTANT Callers

VARIABLES phase, verdict, ret, sound

vars == <<phase, verdict, ret, sound>>

Phases   == {"out", "begun", "sent"}
Verdicts == {"none", "ok", "failed", "down"}

(* The value a call ends with once its message is on its way *)
Outcome(v) ==
  CASE v = "none"   -> "ETIME"
    [] v = "ok"     -> "OK"
    [] v = "failed" -> "EIO"
    [] v = "down"   -> "ENXIO"

Init ==
  /\ phase   = [t \in Callers |-> "out"]
  /\ verdict = [t \in Callers |-> "none"]
  /\ ret     = [t \in Callers |-> "none"]
  /\ sound   = TRUE

(* No transaction is free *)
Refuse(t) ==
  /\ phase[t] = "out"
  /\ ret' = [ret EXCEPT ![t] = "ENOSPC"]
  /\ UNCHANGED <<phase, verdict>>

(* A call may begin on a transaction that is already shut down *)
Begin(t) ==
  /\ phase[t] = "out"
  /\ phase' = [phase EXCEPT ![t] = "begun"]
  /\ \E v \in {"none", "down"} : verdict' = [verdict EXCEPT ![t] = v]
  /\ ret' = [ret EXCEPT ![t] = "none"]

Send(t) ==
  /\ phase[t] = "begun"
  /\ phase' = [phase EXCEPT ![t] = "sent"]
  /\ UNCHANGED <<verdict, ret>>

(* The first reply decides; it cannot come before the request went out.    *)
Answer(t) ==
  /\ phase[t] = "sent"
  /\ verdict[t] = "none"
  /\ \E v \in {"ok", "failed"} : verdict' = [verdict EXCEPT ![t] = v]
  /\ UNCHANGED <<phase, ret>>

(* The shutdown reaches the call *)
Down(t) ==
  /\ phase[t] # "out"
  /\ verdict' = [verdict EXCEPT ![t] = "down"]
  /\ UNCHANGED <<phase, ret>>

Leave(t, r) ==
  /\ phase'   = [phase EXCEPT ![t] = "out"]
  /\ verdict' = [verdict EXCEPT ![t] = "none"]
  /\ ret'     = [ret EXCEPT ![t] = r]

(* The message was not sent, nobody waits for its reply, or the shutdown   *)
(* was there first.                                                        *)
Abandon(t) ==
  /\ phase[t] = "begun"
  /\ \/ Leave(t, "SENDERR")
     \/ Leave(t, "SENT")
     \/ verdict[t] = "down" /\ Leave(t, "ENXIO")

End(t) ==
  /\ phase[t] = "sent"
  /\ Leave(t, Outcome(verdict[t]))

Step(t) ==
  Refuse(t) \/ Begin(t) \/ Send(t) \/ Answer(t) \/ Down(t) \/ Abandon(t)
  \/ End(t)

(* Nothing is promised once `sound' is lost, and it stays lost.            *)
Next ==
  \/ sound' /\ sound /\ \E t \in Callers : Step(t)
  \/ ~ sound'

Spec == Init /\ [][Next]_vars
===============================================================================
