---------------------------- MODULE TxTstampProofs ----------------------------
(***************************************************************************)
(* Proofs about the latches, the trackers and the values of TxTstamp, for  *)
(* any number of latches and packets, any clock and any budget.            *)
(***************************************************************************)
EXTENDS TxTstamp, FiniteSetTheorems, FunctionTheorems, SequenceTheorems,
        WellFoundedInduction, TLAPS

--------------------------------------------------------------------------------
(* Lists without repetition                                                *)

List(T) == {s \in Seq(T) : \A k, l \in DOMAIN s : s[k] = s[l] => k = l}

(* The elements of a list                                                  *)
LEMMA ListIn ==
  ASSUME NEW T, NEW s \in List(T) PROVE ToSet(s) \subseteq T
BY LenProperties DEF List, ToSet

(* A list loses its first element.                                         *)
LEMMA TailOfList ==
  ASSUME NEW T, NEW s \in List(T), s # <<>>
  PROVE  /\ Tail(s) \in List(T) /\ Len(Tail(s)) = Len(s) - 1
         /\ Head(s) \in ToSet(s)
         /\ ToSet(Tail(s)) = ToSet(s) \ {Head(s)}
<1>1. /\ s \in Seq(T) /\ Tail(s) \in Seq(T) /\ Len(Tail(s)) = Len(s) - 1
      /\ \A k \in 1 .. Len(Tail(s)) : Tail(s)[k] = s[k + 1]
  BY HeadTailProperties DEF List
<1>2. Len(s) \in Nat /\ DOMAIN s = 1 .. Len(s)
      /\ DOMAIN Tail(s) = 1 .. Len(s) - 1 /\ Len(s) > 0 /\ Head(s) = s[1]
  BY <1>1, LenProperties, EmptySeq
<1>3. \A k, l \in DOMAIN s : s[k] = s[l] => k = l
  BY DEF List
<1>4. ASSUME NEW k \in DOMAIN Tail(s), NEW l \in DOMAIN Tail(s),
             Tail(s)[k] = Tail(s)[l]
      PROVE  k = l
  BY <1>1, <1>2, <1>3, <1>4
<1>5. ASSUME NEW k \in DOMAIN Tail(s)
      PROVE  Tail(s)[k] \in ToSet(s) \ {Head(s)}
  <2>1. k + 1 \in DOMAIN s /\ 1 \in DOMAIN s /\ k + 1 # 1
    BY <1>2
  <2> QED
    BY <2>1, <1>1, <1>2, <1>3 DEF ToSet
<1>6. ASSUME NEW k \in DOMAIN s, s[k] # Head(s)
      PROVE  s[k] \in ToSet(Tail(s))
  <2>1. k - 1 \in 1 .. Len(Tail(s)) /\ k - 1 + 1 = k
    BY <1>1, <1>2, <1>6
  <2> QED
    BY <2>1, <1>1, <1>2 DEF ToSet
<1>7. Head(s) \in ToSet(s)
  BY <1>2 DEF ToSet
<1>8. ToSet(Tail(s)) = ToSet(s) \ {Head(s)}
  BY <1>5, <1>6 DEF ToSet
<1> QED
  BY <1>1, <1>4, <1>7, <1>8 DEF List

(* A list gets a new element in front.                                     *)
LEMMA ConsOfList ==
  ASSUME NEW T, NEW s \in List(T), NEW e \in T, e \notin ToSet(s)
  PROVE  /\ <<e>> \o s \in List(T) /\ Len(<<e>> \o s) = Len(s) + 1
         /\ ToSet(<<e>> \o s) = ToSet(s) \cup {e}
<1> DEFINE t == <<e>> \o s
<1>1. s \in Seq(T) /\ <<e>> \in Seq(T) /\ Len(<<e>>) = 1 /\ <<e>>[1] = e
  BY DEF List
<1>2. /\ t \in Seq(T) /\ Len(t) = 1 + Len(s) /\ Len(s) \in Nat
      /\ \A k \in 1 .. Len(t) : t[k] = IF k <= 1 THEN <<e>>[k] ELSE s[k - 1]
  BY <1>1, ConcatProperties, LenProperties
<1>3. DOMAIN s = 1 .. Len(s) /\ DOMAIN t = 1 .. Len(t)
  BY <1>1, <1>2, LenProperties
<1> HIDE DEF t
<1>4. t[1] = e /\ \A k \in DOMAIN s : k + 1 \in DOMAIN t /\ t[k + 1] = s[k]
  BY <1>1, <1>2, <1>3
<1>5. ASSUME NEW k \in DOMAIN t, k # 1
      PROVE  \E j \in DOMAIN s : k = j + 1 /\ t[k] = s[j]
  <2>1. PICK j \in DOMAIN s : j = k - 1
    BY <1>2, <1>3, <1>5
  <2> QED
    BY <2>1, <1>2, <1>3, <1>5
<1>6. ToSet(t) = ToSet(s) \cup {e}
  <2>1. 1 \in DOMAIN t
    BY <1>2, <1>3
  <2> QED
    BY <2>1, <1>4, <1>5 DEF ToSet
<1>7. ASSUME NEW k \in DOMAIN t, NEW l \in DOMAIN t, t[k] = t[l]
      PROVE  k = l
  <2>1. \A j \in DOMAIN s : s[j] # e
    BY DEF ToSet
  <2>2. \A i, j \in DOMAIN s : s[i] = s[j] => i = j
    BY DEF List
  <2> QED
    BY <2>1, <2>2, <1>4, <1>5, <1>7
<1> QED
  <2>1. t \in List(T) /\ Len(t) = Len(s) + 1
    BY <1>2, <1>7 DEF List
  <2> QED
    BY <2>1, <1>6 DEF t

(* A list gets a new element at its end.                                   *)
LEMMA AppendOfList ==
  ASSUME NEW T, NEW s \in List(T), NEW e \in T, e \notin ToSet(s)
  PROVE  /\ Append(s, e) \in List(T)
         /\ ToSet(Append(s, e)) = ToSet(s) \cup {e}
<1>1. s \in Seq(T) /\ Len(s) \in Nat /\ DOMAIN s = 1 .. Len(s)
  BY LenProperties DEF List
<1>2. /\ Append(s, e) \in Seq(T) /\ DOMAIN Append(s, e) = 1 .. Len(s) + 1
      /\ \A k \in 1 .. Len(s) : Append(s, e)[k] = s[k]
      /\ Append(s, e)[Len(s) + 1] = e
  BY <1>1, AppendProperties, LenProperties
<1>3. \A k \in DOMAIN Append(s, e) : k \in DOMAIN s \/ k = Len(s) + 1
  BY <1>1, <1>2
<1>4. Len(s) + 1 \in DOMAIN Append(s, e) /\ DOMAIN s \subseteq DOMAIN Append(s, e)
  BY <1>1, <1>2
<1>5. ToSet(Append(s, e)) = ToSet(s) \cup {e}
  BY <1>1, <1>2, <1>3, <1>4 DEF ToSet
<1>6. ASSUME NEW k \in DOMAIN Append(s, e), NEW l \in DOMAIN Append(s, e),
             Append(s, e)[k] = Append(s, e)[l]
      PROVE  k = l
  <2>1. \A j \in DOMAIN s : s[j] # e
    BY DEF ToSet
  <2>2. \A i, j \in DOMAIN s : s[i] = s[j] => i = j
    BY DEF List
  <2> QED
    BY <2>1, <2>2, <1>1, <1>2, <1>3, <1>6
<1> QED
  BY <1>2, <1>5, <1>6 DEF List

(* A list loses the element at a place, which is in no other place.        *)
LEMMA RemoveOfList ==
  ASSUME NEW T, NEW s \in List(T), NEW k \in DOMAIN s
  PROVE  /\ RemoveAt(s, k) \in List(T) /\ Len(RemoveAt(s, k)) = Len(s) - 1
         /\ ToSet(RemoveAt(s, k)) = ToSet(s) \ {s[k]}
<1>1. /\ s \in Seq(T) /\ Len(s) \in Nat /\ DOMAIN s = 1 .. Len(s)
      /\ k \in Nat /\ k >= 1 /\ k <= Len(s)
      /\ \A i \in DOMAIN s : s[i] \in T
  BY LenProperties DEF List
<1>2. /\ SubSeq(s, 1, k - 1) \in Seq(T) /\ Len(SubSeq(s, 1, k - 1)) = k - 1
      /\ \A i \in 1 .. k - 1 : SubSeq(s, 1, k - 1)[i] = s[i]
  <2>1. PICK n \in Int : n = k - 1
    BY <1>1
  <2>2. \A i \in 1 .. n : s[i] \in T
    BY <2>1, <1>1
  <2>3. /\ SubSeq(s, 1, n) \in Seq(T)
        /\ Len(SubSeq(s, 1, n)) = IF 1 <= n THEN n - 1 + 1 ELSE 0
        /\ \A i \in 1 .. n - 1 + 1 : SubSeq(s, 1, n)[i] = s[1 + i - 1]
    BY <2>2, SubSeqProperties
  <2> QED
    BY <2>1, <2>3, <1>1
<1>3. /\ SubSeq(s, k + 1, Len(s)) \in Seq(T)
      /\ Len(SubSeq(s, k + 1, Len(s))) = Len(s) - k
      /\ \A i \in 1 .. Len(s) - k : SubSeq(s, k + 1, Len(s))[i] = s[k + i]
  <2>0. PICK n \in Nat : n = Len(s)
    BY <1>1
  <2>1. PICK m \in Int : m = k + 1
    BY <1>1
  <2>2. \A i \in m .. n : s[i] \in T
    BY <2>0, <2>1, <1>1
  <2>3. /\ SubSeq(s, m, n) \in Seq(T)
        /\ Len(SubSeq(s, m, n)) = IF m <= n THEN n - m + 1 ELSE 0
        /\ \A i \in 1 .. n - m + 1 : SubSeq(s, m, n)[i] = s[m + i - 1]
    BY <2>2, SubSeqProperties
  <2> QED
    BY <2>0, <2>1, <2>3, <1>1
<1> DEFINE t == RemoveAt(s, k)
<1>4. /\ t \in Seq(T) /\ Len(t) = Len(s) - 1
      /\ \A i \in 1 .. Len(s) - 1 : t[i] = IF i < k THEN s[i] ELSE s[i + 1]
  <2> DEFINE a == SubSeq(s, 1, k - 1)
             b == SubSeq(s, k + 1, Len(s))
  <2>1. t = a \o b
    BY DEF RemoveAt
  <2>2. a \in Seq(T) /\ b \in Seq(T) /\ Len(a) = k - 1 /\ Len(b) = Len(s) - k
    BY <1>2, <1>3
  <2> HIDE DEF t, a, b
  <2>3. /\ a \o b \in Seq(T) /\ Len(a \o b) = Len(a) + Len(b)
        /\ \A i \in 1 .. Len(a) + Len(b) :
             (a \o b)[i] = IF i <= Len(a) THEN a[i] ELSE b[i - Len(a)]
    BY <2>2, ConcatProperties
  <2>4. Len(a) + Len(b) = Len(s) - 1
    BY <2>2, <1>1
  <2>5. ASSUME NEW i \in 1 .. Len(s) - 1
        PROVE  t[i] = IF i < k THEN s[i] ELSE s[i + 1]
    <3>1. CASE i < k
      BY <3>1, <2>1, <2>2, <2>3, <2>4, <1>1, <1>2 DEF a
    <3>2. CASE i >= k
      <4>1. PICK j \in 1 .. Len(s) - k : j = i - Len(a)
        BY <3>2, <2>2, <1>1
      <4>2. b[j] = s[k + j] /\ k + j = i + 1
        BY <4>1, <2>2, <1>1, <1>3 DEF b
      <4>3. i \in 1 .. Len(a) + Len(b) /\ ~ (i <= Len(a)) /\ ~ (i < k)
        BY <3>2, <2>2, <2>4, <1>1
      <4> QED
        BY <4>1, <4>2, <4>3, <2>1, <2>3
    <3> QED
      BY <3>1, <3>2, <1>1
  <2> QED
    BY <2>1, <2>3, <2>4, <2>5
<1>5. DOMAIN t = 1 .. Len(s) - 1
  BY <1>4, LenProperties
<1> HIDE DEF t
<1>6. \A i, j \in DOMAIN s : s[i] = s[j] => i = j
  BY DEF List
<1>7. ASSUME NEW i \in DOMAIN t
      PROVE  t[i] \in ToSet(s) \ {s[k]}
  <2>1. PICK j \in DOMAIN s : j # k /\ t[i] = s[j]
    <3>1. CASE i < k
      BY <3>1, <1>1, <1>4, <1>5
    <3>2. CASE i >= k
      <4>1. PICK j \in DOMAIN s : j = i + 1
        BY <3>2, <1>1, <1>5
      <4> QED
        BY <3>2, <4>1, <1>1, <1>4, <1>5
    <3> QED
      BY <3>1, <3>2, <1>1, <1>5
  <2> QED
    BY <2>1, <1>6 DEF ToSet
<1>8. ASSUME NEW j \in DOMAIN s, s[j] # s[k]
      PROVE  s[j] \in ToSet(t)
  <2>1. CASE j < k
    BY <2>1, <1>1, <1>4, <1>5 DEF ToSet
  <2>2. CASE j > k
    <3>1. PICK i \in DOMAIN t : i = j - 1
      BY <2>2, <1>1, <1>5
    <3>2. t[i] = s[j]
      BY <3>1, <2>2, <1>1, <1>4, <1>5
    <3> QED
      BY <3>2 DEF ToSet
  <2> QED
    BY <2>1, <2>2, <1>8, <1>1
<1>9. ToSet(t) = ToSet(s) \ {s[k]}
  BY <1>7, <1>8 DEF ToSet
<1>10. ASSUME NEW i \in DOMAIN t, NEW j \in DOMAIN t, t[i] = t[j]
       PROVE  i = j
  BY <1>1, <1>4, <1>5, <1>6, <1>10
<1> QED
  BY <1>4, <1>9, <1>10 DEF List, t

--------------------------------------------------------------------------------
(* The inductive invariant                                                 *)

Reply == [latch : Latches, of : Pkts \cup {NoPkt}, valid : BOOLEAN]

(* The latches of an answer                                                *)
Answered(s) == [k \in DOMAIN s |-> s[k].latch]

TypeInv ==
  /\ RangeOK
  /\ upd \in [Updaters -> [pc : {"idle", "read", "write", "stamp"},
                           read : [val : Nat, epoch : Nat], at : Nat]]
  /\ pkt \in [Pkts -> {"none", "plain", "ring", "air", "done", "dropped"}]
  /\ hw \in [Latches -> Pkts \cup {NoPkt}]
  /\ work \in [pc : {"idle", "lock", "walk", "send"},
               todo : Seq(Latches), msg : Seq(Latches)]
  /\ mbx \in [pc : {"idle", "lock", "walk"}, todo : Seq(Reply)]
  /\ msgs \in Seq(Seq(Latches)) /\ replies \in Seq(Seq(Reply))

(* Each latch is in one list, once; after the release in none.             *)
ListInv ==
  /\ free \in List(Latches) /\ in_use \in List(Latches)
  /\ ToSet(free) \cap ToSet(in_use) = {}
  /\ caps => /\ ToSet(free) \cup ToSet(in_use) = Latches
             /\ Len(free) + Len(in_use) = NumLatches
  /\ ~ caps => in_use = <<>>

(* A latch in use holds a packet of its own and a reference to it.         *)
HoldInv ==
  /\ \A i \in Latches : skb[i] # NoPkt <=> i \in ToSet(in_use)
  /\ \A i, j \in Latches : skb[i] = skb[j] /\ skb[i] # NoPkt => i = j
  /\ \A p \in Pkts : refs[p] = IF \E i \in Latches : skb[i] = p THEN 1 ELSE 0
  /\ \A p \in Pkts : pkt[p] = "none" => \A i \in Latches : skb[i] # p
  /\ \A p \in Pkts : pkt[p] \in {"ring", "air"} =>
                       qup /\ \E i \in Latches : skb[i] = p
  /\ qup => caps

(* Trackers and latches with a cleaned packet belong together, one to one; *)
(* the latch of the device has stamped that packet last.                   *)
TrackInv ==
  /\ \A t \in Latches : tracker[t].state = "FREE" <=> tracker[t].skb = NoPkt
  /\ \A t \in Latches : tracker[t].state # "FREE" =>
       /\ pkt[tracker[t].skb] = "done"
       /\ \E i \in Latches : skb[i] = tracker[t].skb
  /\ \A t, u \in Latches :
       tracker[t].skb = tracker[u].skb /\ tracker[t].skb # NoPkt => t = u
  /\ \A i \in Latches : skb[i] # NoPkt /\ pkt[skb[i]] = "done" =>
       \E t \in Latches : tracker[t].skb = skb[i]
  /\ \A i \in Latches : skb[i] # NoPkt /\ pkt[skb[i]] \in {"air", "done"} =>
       hw[i] = skb[i]

(* Who walks a list holds its lock; after the release nobody does.         *)
WorkInv ==
  /\ work.pc = "walk" <=> lock = "work"
  /\ mbx.pc = "walk" <=> lock = "mbx"
  /\ work.pc \in {"idle", "lock"} => work.msg = <<>>
  /\ work.pc = "walk" => /\ work.todo \in List(Latches)
                         /\ ToSet(work.todo) \subseteq ToSet(in_use)
  /\ mbx.pc = "idle" => mbx.todo = <<>>
  /\ ~ caps => work.pc = "idle" /\ ~ queued /\ mbx.pc # "walk"

(* Every latch that was asked for is in one place, once: the message of    *)
(* the work, a message to the device, an answer, or what the mailbox task  *)
(* has left of one; and a tracker that is being read belongs to it.        *)
Reading(i) == /\ skb[i] # NoPkt
              /\ \E t \in Latches : tracker[t].skb = skb[i]
                                    /\ tracker[t].state = "READ_VALUE"
InWork    == ToSet(work.msg)
InMsg(k)  == ToSet(msgs[k])
InAns(k)  == ToSet(Answered(replies[k]))
InMbx     == ToSet(Answered(mbx.todo))
InMsgs    == {i \in Latches : \E k \in DOMAIN msgs : i \in InMsg(k)}
InReplies == {i \in Latches : \E k \in DOMAIN replies : i \in InAns(k)}

OnceInv ==
  /\ work.msg \in List(Latches)
  /\ \A k \in DOMAIN msgs : msgs[k] \in List(Latches)
  /\ \A k \in DOMAIN replies : Answered(replies[k]) \in List(Latches)
  /\ Answered(mbx.todo) \in List(Latches)
  /\ \A k, l \in DOMAIN msgs : k # l => InMsg(k) \cap InMsg(l) = {}
  /\ \A k, l \in DOMAIN replies : k # l => InAns(k) \cap InAns(l) = {}
  /\ InWork \cap (InMsgs \cup InReplies \cup InMbx) = {}
  /\ InMsgs \cap (InReplies \cup InMbx) = {}
  /\ InReplies \cap InMbx = {}

AskInv ==
  caps => /\ OnceInv
          /\ \A i \in InWork \cup InMsgs \cup InReplies \cup InMbx : Reading(i)

IInv ==
  /\ TypeInv /\ ListInv /\ HoldInv /\ TrackInv /\ WorkInv /\ AskInv
  /\ RequestHeard

--------------------------------------------------------------------------------
(* What the actions do                                                     *)

LatchVars == <<qup, caps, lock, free, in_use, skb, refs, tracker, pkt, msgs,
               replies, hw, queued, work, mbx, lost>>
ClockStep ==
  \/ Tick \/ Settime \/ MbxAge
  \/ \E u \in Updaters : ReadClock(u) \/ StoreTime(u) \/ StoreJiffies(u)

(* The clock and its cached copy leave latches and trackers alone.         *)
LEMMA ClockOnly == ClockStep \/ UNCHANGED vars => UNCHANGED LatchVars
BY DEF ClockStep, Tick, Settime, ReadClock, StoreTime, StoreJiffies, MbxAge, Pc,
       LatchVars, vars, lists, chan, clock

(* Latches and packets are counted from one.                               *)
LEMMA LatchesAre == Latches \subseteq Nat /\ 0 \notin Latches /\ NoPkt \notin Pkts
                    /\ Latches # {} /\ IsFiniteSet(Latches)
                    /\ Cardinality(Latches) = NumLatches
<1>1. NumLatches \in Nat /\ NumLatches > 0
  BY LatchAssumption
<1>2. IsFiniteSet(1 .. NumLatches) /\ Cardinality(1 .. NumLatches) = NumLatches
  BY <1>1, FS_Interval
<1>3. Latches \subseteq Nat /\ 0 \notin Latches /\ 1 \in Latches
  BY <1>1 DEF Latches
<1>4. NoPkt \notin Pkts
  BY BoundsAssumption DEF Pkts, NoPkt
<1> QED
  BY <1>2, <1>3, <1>4 DEF Latches

(* A latch in use has a packet.                                            *)
LEMMA InUse ==
  ASSUME IInv, NEW i \in Latches
  PROVE  /\ i \in ToSet(in_use) => skb[i] \in Pkts
         /\ i \notin ToSet(in_use) => skb[i] = NoPkt
BY DEF IInv, TypeInv, RangeOK, HoldInv

(* The walks find the one tracker of a packet in the state they look for,  *)
(* or none.                                                                *)
LEMMA UpdateIs ==
  ASSUME IInv, NEW p \in Pkts, NEW from \in {"REQUEST", "READ_VALUE"}, NEW to,
         UpdateTracker(p, from, to)
  PROVE  \/ TrackerOf(p, from) = {} /\ tracker' = tracker
         \/ \E t \in Latches :
              /\ TrackerOf(p, from) = {t}
              /\ tracker[t].skb = p /\ tracker[t].state = from
              /\ tracker' = [tracker EXCEPT ![t] =
                   [skb |-> IF to = "FREE" THEN NoPkt ELSE p, state |-> to]]
<1> DEFINE ts == TrackerOf(p, from)
           first == CHOOSE i \in ts : \A j \in ts : i <= j
           new == [skb |-> IF to = "FREE" THEN NoPkt ELSE p, state |-> to]
<1>1. tracker' = IF ts = {} THEN tracker ELSE [tracker EXCEPT ![first] = new]
  BY DEF UpdateTracker
<1>2. ASSUME NEW t \in ts
      PROVE  /\ t \in Latches /\ tracker[t].skb = p /\ tracker[t].state = from
             /\ ts = {t}
  <2>1. /\ t \in Latches /\ tracker[t].skb = p /\ tracker[t].state = from
        /\ \A u \in ts : u \in Latches /\ tracker[u].skb = p
    BY DEF TrackerOf
  <2>2. \A u \in ts : u = t
    BY <2>1, LatchesAre DEF IInv, TrackInv
  <2> QED
    BY <2>1, <2>2
<1>3. CASE ts = {}
  BY <1>1, <1>3
<1>4. CASE ts # {}
  <2>1. PICK t \in ts : TRUE
    BY <1>4
  <2>2. t \in Latches /\ ts = {t} /\ t <= t
    BY <2>1, <1>2, LatchesAre
  <2>3. first = t
    BY <2>2
  <2> HIDE DEF ts, first, new
  <2>4. tracker' = [tracker EXCEPT ![t] = new]
    BY <1>1, <1>4, <2>3
  <2>5. tracker[t].skb = p /\ tracker[t].state = from
    BY <2>1, <1>2
  <2> QED
    BY <2>2, <2>4, <2>5 DEF ts, new
<1> QED
  BY <1>3, <1>4

(* A set of numbers has a least one.                                       *)
LEMMA LeastOf ==
  ASSUME NEW T, T \subseteq Nat, T # {}
  PROVE  \E x \in T : \A y \in T : x <= y
<1>1. PICK x \in T : \A y \in T : ~ (<<y, x>> \in OpToRel(<, Nat))
  BY NatLessThanWellFounded, WFMin
<1>2. \A y \in T : ~ (y < x)
  BY <1>1 DEF OpToRel
<1> QED BY <1>2

(* The search for a free tracker                                           *)
LEMMA FreeTrackerIs ==
  \/ FreeTracker = 0 /\ \A t \in Latches : tracker[t].state # "FREE"
  \/ FreeTracker \in Latches /\ tracker[FreeTracker].state = "FREE"
<1> DEFINE fs == {i \in Latches : tracker[i].state = "FREE"}
<1>1. CASE fs = {}
  BY <1>1 DEF FreeTracker
<1>2. CASE fs # {}
  <2>1. fs \subseteq Nat
    BY LatchesAre
  <2> HIDE DEF fs
  <2>2. \E x \in fs : \A y \in fs : x <= y
    BY <1>2, <2>1, LeastOf
  <2>3. (CHOOSE i \in fs : \A j \in fs : i <= j) \in fs
    BY <2>2
  <2>4. FreeTracker \in fs
    BY <1>2, <2>3 DEF FreeTracker, fs
  <2> QED
    BY <2>4 DEF fs
<1> QED
  BY <1>1, <1>2

(* A packet whose completion is cleaned finds a free tracker: every other  *)
(* tracker belongs to another latch.                                       *)
LEMMA TrackerFound ==
  ASSUME IInv, NEW p \in Pkts, pkt[p] = "air"
  PROVE  /\ FreeTracker \in Latches /\ FreeTracker # 0
         /\ tracker[FreeTracker].state = "FREE"
<1>1. PICK j \in Latches : skb[j] = p
  BY DEF IInv, HoldInv
<1>2. ASSUME \A t \in Latches : tracker[t].state # "FREE"
      PROVE  FALSE
  <2> DEFINE Of(t) == CHOOSE i \in Latches : skb[i] = tracker[t].skb
             f == [t \in Latches |-> Of(t)]
             T == Latches \ {j}
  <2>1. ASSUME NEW t \in Latches
        PROVE  Of(t) \in T /\ skb[Of(t)] = tracker[t].skb
    <3>1. pkt[tracker[t].skb] = "done" /\ \E i \in Latches : skb[i] = tracker[t].skb
      BY <1>2, <2>1 DEF IInv, TrackInv
    <3>2. Of(t) \in Latches /\ skb[Of(t)] = tracker[t].skb
      BY <3>1
    <3>3. skb[j] # tracker[t].skb
      BY <1>1, <3>1
    <3> QED
      BY <3>2, <3>3
  <2> HIDE DEF Of
  <2>2. f \in [Latches -> T]
    BY <2>1
  <2>3. IsFiniteSet(T) /\ Cardinality(T) < Cardinality(Latches)
    <3>1. IsFiniteSet(T) /\ Cardinality(T) = Cardinality(Latches) - 1
      BY LatchesAre, FS_RemoveElement
    <3> QED
      BY <3>1, LatchesAre, LatchAssumption
  <2> HIDE DEF T, f
  <2>4. PICK t, u \in Latches : t # u /\ f[t] = f[u]
    BY <2>2, <2>3, LatchesAre, FS_PigeonHole
  <2>5. tracker[t].skb = tracker[u].skb /\ tracker[t].skb # NoPkt
    BY <2>1, <2>4, <1>2 DEF f, IInv, TrackInv
  <2> QED
    BY <2>4, <2>5 DEF IInv, TrackInv
<1> QED
  BY <1>2, FreeTrackerIs, LatchesAre

(* The completion of a packet takes a free tracker.                        *)
LEMMA ReadIs ==
  ASSUME IInv, NEW p \in Pkts, ReadTstamp(p)
  PROVE  /\ pkt[p] = "air" /\ pkt' = [pkt EXCEPT ![p] = "done"] /\ queued'
         /\ \E t \in Latches :
              /\ tracker[t].state = "FREE" /\ tracker[t].skb = NoPkt
              /\ tracker' = [tracker EXCEPT ![t] =
                               [skb |-> p, state |-> "REQUEST"]]
         /\ UNCHANGED <<qup, caps, lock, free, in_use, skb, refs, msgs, replies,
                        hw, work, mbx, lost>>
<1>1. pkt[p] = "air"
  BY DEF ReadTstamp
<1>2. FreeTracker # 0 /\ FreeTracker \in Latches
      /\ tracker[FreeTracker].state = "FREE"
  BY <1>1, TrackerFound
<1>3. tracker[FreeTracker].skb = NoPkt
  BY <1>2 DEF IInv, TrackInv
<1>4. /\ tracker' = [tracker EXCEPT ![FreeTracker] =
                               [skb |-> p, state |-> "REQUEST"]]
      /\ queued' = TRUE
  BY <1>2 DEF ReadTstamp
<1> QED
  BY <1>1, <1>2, <1>3, <1>4 DEF ReadTstamp, lists, chan

(* A packet that is to be stamped takes a latch, or there is none.         *)
LEMMA RequestIs ==
  ASSUME IInv, NEW p \in Pkts, RequestTs(p)
  PROVE  /\ qup /\ lock = "none" /\ pkt[p] = "none" /\ lost \subseteq lost'
         /\ UNCHANGED <<qup, caps, lock, tracker, hw, msgs, replies, queued,
                        work, mbx>>
         /\ \/ /\ pkt' = [pkt EXCEPT ![p] = "plain"]
               /\ UNCHANGED <<free, in_use, skb, refs>>
            \/ \E i \in Latches, what \in {"ring", "dropped"} :
                 /\ i \in ToSet(free)
                 /\ free' \in List(Latches) /\ in_use' \in List(Latches)
                 /\ ToSet(free') = ToSet(free) \ {i}
                 /\ ToSet(in_use') = ToSet(in_use) \cup {i}
                 /\ Len(free') + Len(in_use') = Len(free) + Len(in_use)
                 /\ skb' = [skb EXCEPT ![i] = p]
                 /\ refs' = [refs EXCEPT ![p] = @ + 1]
                 /\ pkt' = [pkt EXCEPT ![p] = what]
<1>1. /\ qup /\ lock = "none" /\ pkt[p] = "none" /\ lost \subseteq lost'
      /\ UNCHANGED <<qup, caps, lock, tracker, hw, msgs, replies, queued, work,
                     mbx>>
  BY DEF RequestTs, chan
<1>2. CASE free = <<>>
  BY <1>1, <1>2 DEF RequestTs
<1>3. CASE free # <<>>
  <2> DEFINE i == Head(free)
  <2>1. /\ free' = Tail(free) /\ in_use' = <<i>> \o in_use
        /\ skb' = [skb EXCEPT ![i] = p] /\ refs' = [refs EXCEPT ![p] = @ + 1]
        /\ \E what \in {"ring", "dropped"} : pkt' = [pkt EXCEPT ![p] = what]
    BY <1>3 DEF RequestTs
  <2>2. free \in List(Latches) /\ in_use \in List(Latches)
        /\ ToSet(free) \cap ToSet(in_use) = {}
    BY DEF IInv, ListInv
  <2>3. /\ Tail(free) \in List(Latches) /\ Len(Tail(free)) = Len(free) - 1
        /\ i \in ToSet(free) /\ ToSet(Tail(free)) = ToSet(free) \ {i}
    BY <2>2, <1>3, TailOfList
  <2>4. ToSet(free) \subseteq Latches /\ Len(free) \in Nat /\ Len(in_use) \in Nat
    BY <2>2, LenProperties DEF List, ToSet
  <2>5. i \in Latches /\ i \notin ToSet(in_use)
    BY <2>2, <2>3, <2>4
  <2> HIDE DEF i
  <2>6. /\ <<i>> \o in_use \in List(Latches)
        /\ Len(<<i>> \o in_use) = Len(in_use) + 1
        /\ ToSet(<<i>> \o in_use) = ToSet(in_use) \cup {i}
    BY <2>2, <2>5, ConsOfList
  <2>7. Len(free') + Len(in_use') = Len(free) + Len(in_use)
    <3>1. Len(free') = Len(free) - 1 /\ Len(in_use') = Len(in_use) + 1
      BY <2>1, <2>3, <2>6
    <3> QED
      BY <3>1, <2>4
  <2> QED
    BY <1>1, <2>1, <2>3, <2>5, <2>6, <2>7
<1> QED
  BY <1>2, <1>3

(* The device has the latch of the packet that it sends.                   *)
LEMMA SendIs ==
  ASSUME IInv, NEW p \in Pkts, DevSend(p)
  PROVE  /\ pkt[p] = "ring" /\ pkt' = [pkt EXCEPT ![p] = "air"]
         /\ \E i \in Latches : skb[i] = p /\ hw' = [hw EXCEPT ![i] = p]
         /\ UNCHANGED <<qup, caps, lock, free, in_use, skb, refs, tracker, msgs,
                        replies, queued, work, mbx, lost>>
<1>1. \E i \in Latches : skb[i] = p
  BY DEF DevSend, IInv, HoldInv
<1>2. LatchOf(p) \in Latches /\ skb[LatchOf(p)] = p
  BY <1>1 DEF LatchOf
<1> QED
  BY <1>2 DEF DevSend, lists

(* The work asks for the value of a latch that has a request.              *)
LEMMA WalkIs ==
  ASSUME IInv, WorkWalk
  PROVE  /\ lock = "work" /\ work.pc = "walk" /\ work.todo # <<>>
         /\ work'.pc = "walk" /\ work'.todo = Tail(work.todo)
         /\ UNCHANGED <<qup, caps, lock, free, in_use, skb, refs, pkt, msgs,
                        replies, hw, queued, mbx, lost>>
         /\ \E i \in Latches :
              /\ i = Head(work.todo) /\ i \in ToSet(in_use)
              /\ \/ /\ tracker' = tracker /\ work'.msg = work.msg
                    /\ \A t \in Latches : tracker[t].skb = skb[i] =>
                                            tracker[t].state # "REQUEST"
                 \/ \E t \in Latches :
                      /\ tracker[t].skb = skb[i] /\ tracker[t].state = "REQUEST"
                      /\ tracker' = [tracker EXCEPT ![t] =
                           [skb |-> skb[i], state |-> "READ_VALUE"]]
                      /\ work'.msg = Append(work.msg, i)
<1> DEFINE i == Head(work.todo)
           none == TrackerOf(skb[i], "REQUEST") = {}
<1>1. /\ work.pc = "walk" /\ work.todo # <<>>
      /\ UpdateTracker(skb[i], "REQUEST", "READ_VALUE")
      /\ work' = [work EXCEPT !.todo = Tail(@),
                              !.msg = IF none THEN @ ELSE Append(@, i)]
      /\ UNCHANGED <<qup, caps, lock, free, in_use, skb, refs, pkt, msgs,
                     replies, hw, queued, mbx, lost>>
  BY DEF WorkWalk, lists, chan
<1>2. lock = "work" /\ work.todo \in List(Latches)
      /\ ToSet(work.todo) \subseteq ToSet(in_use)
  BY <1>1 DEF IInv, WorkInv
<1>3. i \in ToSet(work.todo)
  BY <1>1, <1>2, TailOfList
<1>4. i \in ToSet(in_use) /\ i \in Latches
  BY <1>2, <1>3, ListIn
<1>5. skb[i] \in Pkts
  BY <1>4, InUse
<1> HIDE DEF i
<1>6. \/ none /\ tracker' = tracker
      \/ \E t \in Latches :
           /\ TrackerOf(skb[i], "REQUEST") = {t}
           /\ tracker[t].skb = skb[i] /\ tracker[t].state = "REQUEST"
           /\ tracker' = [tracker EXCEPT ![t] =
                [skb |-> IF "READ_VALUE" = "FREE" THEN NoPkt ELSE skb[i],
                 state |-> "READ_VALUE"]]
  BY <1>1, <1>5, UpdateIs
<1>7. /\ work'.pc = "walk" /\ work'.todo = Tail(work.todo)
      /\ work'.msg = IF none THEN work.msg ELSE Append(work.msg, i)
  <2>1. work \in [pc : {"idle", "lock", "walk", "send"},
                  todo : Seq(Latches), msg : Seq(Latches)]
    BY DEF IInv, TypeInv
  <2> QED
    BY <2>1, <1>1
<1>8. CASE none /\ tracker' = tracker
  <2>1. \A t \in Latches : tracker[t].skb = skb[i] => tracker[t].state # "REQUEST"
    BY <1>8 DEF TrackerOf
  <2> QED
    BY <1>1, <1>2, <1>4, <1>7, <1>8, <2>1 DEF i
<1>9. CASE ~ none
  <2>1. PICK t \in Latches :
           /\ tracker[t].skb = skb[i] /\ tracker[t].state = "REQUEST"
           /\ tracker' = [tracker EXCEPT ![t] =
                [skb |-> skb[i], state |-> "READ_VALUE"]]
    BY <1>6, <1>9
  <2>2. work'.msg = Append(work.msg, i)
    BY <1>7, <1>9
  <2> HIDE DEF none
  <2> QED
    BY <1>1, <1>2, <1>4, <1>7, <2>1, <2>2 DEF i
<1> QED
  BY <1>6, <1>8, <1>9

(* What is left of an answer when its first latch was handled              *)
LEMMA AnsweredTail ==
  ASSUME NEW s \in Seq(Reply), s # <<>>, Answered(s) \in List(Latches)
  PROVE  /\ Head(s) \in Reply /\ Tail(s) \in Seq(Reply)
         /\ Answered(Tail(s)) \in List(Latches)
         /\ Head(s).latch \in ToSet(Answered(s)) /\ Head(s).latch \in Latches
         /\ ToSet(Answered(Tail(s))) = ToSet(Answered(s)) \ {Head(s).latch}
<1> DEFINE a == Answered(s)
<1>1. /\ Head(s) \in Reply /\ Tail(s) \in Seq(Reply)
      /\ Len(Tail(s)) = Len(s) - 1 /\ Len(s) \in Nat /\ Len(s) > 0
      /\ DOMAIN s = 1 .. Len(s) /\ Head(s) = s[1]
      /\ \A k \in 1 .. Len(Tail(s)) : Tail(s)[k] = s[k + 1]
  BY HeadTailProperties, LenProperties, EmptySeq
<1>2. a \in Seq(Latches) /\ Len(a) = Len(s) /\ DOMAIN a = 1 .. Len(s)
      /\ \A k \in 1 .. Len(s) : a[k] = s[k].latch
  <2>1. DOMAIN a = 1 .. Len(s) /\ \A k \in 1 .. Len(s) : a[k] = s[k].latch
    BY <1>1 DEF Answered
  <2>2. a \in Seq(Latches)
    BY DEF List
  <2> QED
    BY <2>1, <2>2, <1>1, LenProperties
<1>3. a # <<>>
  BY <1>1, <1>2
<1> HIDE DEF a
<1>4. /\ Tail(a) \in List(Latches) /\ Len(Tail(a)) = Len(a) - 1
      /\ Head(a) \in ToSet(a) /\ ToSet(Tail(a)) = ToSet(a) \ {Head(a)}
  BY <1>3, TailOfList DEF a
<1>5. /\ Head(a) = a[1] /\ Tail(a) \in Seq(Latches) /\ Head(a) \in Latches
      /\ \A k \in 1 .. Len(Tail(a)) : Tail(a)[k] = a[k + 1]
  BY <1>2, <1>3, HeadTailProperties
<1>6. Head(a) = Head(s).latch
  BY <1>1, <1>2, <1>5
<1>7. Answered(Tail(s)) = Tail(a)
  <2>1. DOMAIN Tail(s) = 1 .. Len(s) - 1 /\ DOMAIN Tail(a) = 1 .. Len(s) - 1
    BY <1>1, <1>2, <1>4, <1>5, LenProperties
  <2>2. ASSUME NEW k \in 1 .. Len(s) - 1
        PROVE  Tail(s)[k].latch = Tail(a)[k]
    <3>1. PICK l \in 1 .. Len(s) : l = k + 1
      BY <1>1
    <3> QED
      BY <3>1, <1>1, <1>2, <1>4, <1>5
  <2>3. Tail(a) = [k \in 1 .. Len(s) - 1 |-> Tail(a)[k]]
    <3>1. Tail(a) \in [1 .. Len(Tail(a)) -> Latches]
      BY <1>5, LenProperties
    <3> QED
      BY <3>1, <2>1
  <2> QED
    BY <2>1, <2>2, <2>3 DEF Answered
<1> QED
  BY <1>1, <1>4, <1>5, <1>6, <1>7 DEF a

(* The mailbox task passes over a latch, or frees it and its tracker.      *)
LEMMA LatchIs ==
  ASSUME IInv, MbxLatch
  PROVE  /\ caps /\ lock = "mbx" /\ mbx.pc = "walk" /\ mbx.todo # <<>>
         /\ mbx'.pc = "walk" /\ mbx'.todo = Tail(mbx.todo)
         /\ UNCHANGED <<qup, caps, lock, pkt, msgs, replies, hw, queued, work,
                        lost>>
         /\ \/ UNCHANGED <<free, in_use, skb, refs, tracker>>
            \/ \E i, t \in Latches :
                 /\ i = Head(mbx.todo).latch /\ i \in ToSet(in_use)
                 /\ free' \in List(Latches) /\ in_use' \in List(Latches)
                 /\ ToSet(free') = ToSet(free) \cup {i}
                 /\ ToSet(in_use') = ToSet(in_use) \ {i}
                 /\ Len(free') + Len(in_use') = Len(free) + Len(in_use)
                 /\ skb' = [skb EXCEPT ![i] = NoPkt]
                 /\ refs' = [refs EXCEPT ![skb[i]] = @ - 1]
                 /\ tracker[t].skb = skb[i] /\ tracker[t].state = "READ_VALUE"
                 /\ tracker' = [tracker EXCEPT ![t] =
                                  [skb |-> NoPkt, state |-> "FREE"]]
<1> DEFINE r == Head(mbx.todo)
           i == r.latch
<1>1. /\ mbx.pc = "walk" /\ mbx.todo # <<>>
      /\ UNCHANGED <<qup, caps, lock, pkt, msgs, replies, hw, queued, work, lost>>
  BY DEF MbxLatch, chan, lists, TstampOf, GiveBack
<1>2. caps /\ lock = "mbx"
  BY <1>1 DEF IInv, WorkInv
<1>3. mbx.todo \in Seq(Reply) /\ Answered(mbx.todo) \in List(Latches)
  BY <1>2 DEF IInv, TypeInv, AskInv, OnceInv
<1>4. i \in Latches /\ i \in InMbx
  BY <1>1, <1>3, AnsweredTail DEF InMbx
<1>5. Reading(i)
  BY <1>2, <1>4 DEF IInv, AskInv
<1>6. i \in ToSet(in_use) /\ in_use # <<>> /\ skb[i] \in Pkts
  <2>1. i \in ToSet(in_use)
    BY <1>4, <1>5, InUse DEF Reading
  <2>2. in_use # <<>>
    BY <2>1 DEF ToSet
  <2> QED
    BY <1>4, <2>1, <2>2, InUse
<1>7. TrackerOf(skb[i], "READ_VALUE") # {}
  BY <1>5 DEF Reading, TrackerOf
<1> HIDE DEF i
<1>8. \/ MbxNext /\ UNCHANGED <<free, in_use, skb, refs, tracker>>
      \/ TstampOf(i, r.of)
  BY <1>6 DEF MbxLatch, lists, i
<1>9. MbxNext => mbx'.pc = "walk" /\ mbx'.todo = Tail(mbx.todo)
  <2>1. mbx \in [pc : {"idle", "lock", "walk"}, todo : Seq(Reply)]
    BY DEF IInv, TypeInv
  <2> QED
    BY <1>1, <2>1 DEF MbxNext
<1>10. CASE MbxNext /\ UNCHANGED <<free, in_use, skb, refs, tracker>>
  BY <1>1, <1>2, <1>9, <1>10
<1>11. CASE TstampOf(i, r.of)
  <2>1. MbxNext /\ GiveBack(i) /\ UpdateTracker(skb[i], "READ_VALUE", "FREE")
    BY <1>7, <1>11 DEF TstampOf
  <2>2. PICK t \in Latches :
          /\ tracker[t].skb = skb[i] /\ tracker[t].state = "READ_VALUE"
          /\ tracker' = [tracker EXCEPT ![t] = [skb |-> NoPkt, state |-> "FREE"]]
    BY <1>6, <1>7, <2>1, UpdateIs
  <2>3. PICK k \in DOMAIN in_use : in_use[k] = i /\ in_use' = RemoveAt(in_use, k)
    BY <2>1 DEF GiveBack, LeaveList
  <2>4. free \in List(Latches) /\ in_use \in List(Latches)
        /\ ToSet(free) \cap ToSet(in_use) = {}
    BY DEF IInv, ListInv
  <2>5. /\ in_use' \in List(Latches) /\ Len(in_use') = Len(in_use) - 1
        /\ ToSet(in_use') = ToSet(in_use) \ {i}
    BY <2>3, <2>4, RemoveOfList
  <2>6. free' = <<i>> \o free /\ i \notin ToSet(free) /\ i \in Latches
    BY <1>4, <1>6, <2>1, <2>4 DEF GiveBack, i
  <2>7. /\ free' \in List(Latches) /\ Len(free') = Len(free) + 1
        /\ ToSet(free') = ToSet(free) \cup {i}
    BY <2>4, <2>6, ConsOfList
  <2>8. Len(free') + Len(in_use') = Len(free) + Len(in_use)
    <3>1. Len(free) \in Nat /\ Len(in_use) \in Nat
      BY <2>4, LenProperties DEF List
    <3> QED
      BY <3>1, <2>5, <2>7
  <2>9. skb' = [skb EXCEPT ![i] = NoPkt] /\ refs' = [refs EXCEPT ![skb[i]] = @ - 1]
    BY <2>1 DEF GiveBack
  <2> QED
    BY <1>1, <1>2, <1>4, <1>6, <1>9, <2>1, <2>2, <2>5, <2>7, <2>8, <2>9 DEF i
<1> QED
  BY <1>8, <1>10, <1>11

(* The functions of the state                                              *)
LEMMA Types ==
  ASSUME IInv
  PROVE  /\ skb \in [Latches -> Pkts \cup {NoPkt}] /\ refs \in [Pkts -> Nat]
         /\ pkt \in [Pkts -> {"none", "plain", "ring", "air", "done", "dropped"}]
         /\ hw \in [Latches -> Pkts \cup {NoPkt}]
         /\ tracker \in [Latches -> [skb : Pkts \cup {NoPkt},
                                     state : {"FREE", "REQUEST", "READ_VALUE"}]]
         /\ work \in [pc : {"idle", "lock", "walk", "send"},
                      todo : Seq(Latches), msg : Seq(Latches)]
         /\ mbx \in [pc : {"idle", "lock", "walk"}, todo : Seq(Reply)]
BY DEF IInv, TypeInv, RangeOK

--------------------------------------------------------------------------------
(* Every action keeps the invariant                                        *)

(* The clock and its cached copy stay natural numbers.                     *)
LEMMA ClockTypes ==
  ASSUME IInv, ClockStep
  PROVE  /\ now' \in Nat /\ offset' \in Nat /\ epoch' \in Nat
         /\ cache' \in [val : Nat, epoch : Nat, jiffies : Nat]
         /\ upd' \in [Updaters -> [pc : {"idle", "read", "write", "stamp"},
                                   read : [val : Nat, epoch : Nat], at : Nat]]
<1> DEFINE Upd == [pc : {"idle", "read", "write", "stamp"},
                   read : [val : Nat, epoch : Nat], at : Nat]
<1>1. /\ now \in Nat /\ offset \in Nat /\ epoch \in Nat
      /\ cache \in [val : Nat, epoch : Nat, jiffies : Nat]
      /\ upd \in [Updaters -> Upd]
  BY DEF IInv, TypeInv, RangeOK
<1>2. ASSUME NEW r \in Upd, NEW l \in {"idle", "read", "write", "stamp"}
      PROVE  [r EXCEPT !.pc = l] \in Upd
  OBVIOUS
<1>3. ASSUME NEW u \in Updaters, NEW l \in {"idle", "read", "write", "stamp"},
             Pc(u, l)
      PROVE  upd' \in [Updaters -> Upd]
  <2>1. [upd[u] EXCEPT !.pc = l] \in Upd
    BY <1>1, <1>2
  <2> HIDE DEF Upd
  <2>2. upd' = [upd EXCEPT ![u] = [upd[u] EXCEPT !.pc = l]]
    BY <1>1, <1>3 DEF Pc
  <2> QED
    BY <1>1, <2>1, <2>2
<1>4. CASE Tick
  BY <1>1, <1>4 DEF Tick
<1>9. CASE MbxAge
  BY <1>1, <1>9 DEF MbxAge, time
<1>5. CASE Settime
  <2>1. "user" \in Updaters /\ Pc("user", "read")
    BY <1>5 DEF Settime, Updaters
  <2>2. upd' \in [Updaters -> Upd]
    BY <1>3, <2>1
  <2>3. offset' \in Nat /\ epoch' \in Nat /\ UNCHANGED <<now, cache>>
    BY <1>1, <1>5, ClockAssumption DEF Settime
  <2> QED
    BY <1>1, <2>2, <2>3
<1>6. ASSUME NEW u \in Updaters, ReadClock(u) PROVE
         UNCHANGED <<now, offset, epoch, cache>> /\ upd' \in [Updaters -> Upd]
  <2>1. Clock \in Nat
    BY <1>1 DEF Clock
  <2>2. [pc |-> "write", at |-> now,
         read |-> [val |-> Clock, epoch |-> epoch]] \in Upd
    BY <1>1, <2>1
  <2> HIDE DEF Upd
  <2> QED
    BY <1>1, <1>6, <2>2 DEF ReadClock
<1>7. ASSUME NEW u \in Updaters, StoreTime(u)
      PROVE  /\ UNCHANGED <<now, offset, epoch>> /\ upd' \in [Updaters -> Upd]
             /\ cache' \in [val : Nat, epoch : Nat, jiffies : Nat]
  <2>1. upd[u].read \in [val : Nat, epoch : Nat]
    BY <1>1
  <2>2. cache' \in [val : Nat, epoch : Nat, jiffies : Nat]
    BY <1>1, <1>7, <2>1 DEF StoreTime
  <2> HIDE DEF Upd
  <2> QED
    BY <1>3, <1>7, <2>2 DEF StoreTime
<1>8. ASSUME NEW u \in Updaters, StoreJiffies(u)
      PROVE  /\ UNCHANGED <<now, offset, epoch>> /\ upd' \in [Updaters -> Upd]
             /\ cache' \in [val : Nat, epoch : Nat, jiffies : Nat]
  <2>1. [pc |-> "idle", read |-> NoTime, at |-> now] \in Upd
    BY <1>1 DEF NoTime
  <2>2. cache' \in [val : Nat, epoch : Nat, jiffies : Nat]
    BY <1>1, <1>8 DEF StoreJiffies
  <2> HIDE DEF Upd
  <2> QED
    BY <1>1, <1>8, <2>1, <2>2 DEF StoreJiffies
<1> HIDE DEF Upd
<1> QED
  BY <1>1, <1>4, <1>5, <1>6, <1>7, <1>8, <1>9 DEF ClockStep, Upd

(* Every variable keeps to its range.                                      *)
LEMMA TypeKept == IInv /\ [Next]_vars => TypeInv'
<1> SUFFICES ASSUME IInv, [Next]_vars PROVE TypeInv'
  OBVIOUS
<1> USE DEF IInv, TypeInv, RangeOK
<1>1. CASE ClockStep \/ UNCHANGED vars
  <2>1. UNCHANGED LatchVars
    BY <1>1, ClockOnly
  <2>2. CASE ClockStep
    BY SMTT(30), <2>1, <2>2, ClockTypes DEF LatchVars
  <2>3. CASE UNCHANGED vars
    BY <2>3 DEF vars, clock, lists, chan
  <2> QED
    BY <1>1, <2>2, <2>3
<1>2. ASSUME NEW p \in Pkts, RequestTs(p) PROVE TypeInv'
  <2>0. UNCHANGED <<now, offset, epoch, cache, upd>>
    BY <1>2 DEF RequestTs, clock
  <2>1. UNCHANGED <<qup, caps, lock, tracker, hw, msgs, replies, queued, work, mbx>>
    BY <1>2, RequestIs
  <2>2. CASE pkt' = [pkt EXCEPT ![p] = "plain"]
             /\ UNCHANGED <<free, in_use, skb, refs>>
    BY <2>0, <2>1, <2>2
  <2>3. ASSUME NEW i \in Latches, NEW what \in {"ring", "dropped"},
               free' \in List(Latches), in_use' \in List(Latches),
               skb' = [skb EXCEPT ![i] = p], refs' = [refs EXCEPT ![p] = @ + 1],
               pkt' = [pkt EXCEPT ![p] = what]
        PROVE  TypeInv'
    <3>1. /\ free' \in Seq(Latches) /\ in_use' \in Seq(Latches)
          /\ refs[p] \in Nat
      BY <2>3 DEF List
    <3>2. skb' \in [Latches -> Pkts \cup {NoPkt}]
      BY <2>3
    <3>3. refs' \in [Pkts -> Nat]
      BY <2>3, <3>1
    <3>4. pkt' \in [Pkts -> {"none", "plain", "ring", "air", "done", "dropped"}]
      BY <2>3
    <3> QED
      BY <2>0, <2>1, <3>1, <3>2, <3>3, <3>4
  <2> HIDE DEF TypeInv
  <2> QED
    BY <1>2, <2>2, <2>3, RequestIs
<1>3. ASSUME NEW p \in Pkts, DevSend(p) PROVE TypeInv'
  <2>0. UNCHANGED <<now, offset, epoch, cache, upd>>
    BY <1>3 DEF DevSend, clock
  <2>1. UNCHANGED <<qup, caps, lock, free, in_use, skb, refs, tracker, msgs,
                    replies, queued, work, mbx>>
    BY <1>3, SendIs
  <2>2. /\ pkt' \in [Pkts -> {"none", "plain", "ring", "air", "done", "dropped"}]
        /\ hw' \in [Latches -> Pkts \cup {NoPkt}]
    <3>1. PICK i \in Latches : hw' = [hw EXCEPT ![i] = p]
      BY <1>3, SendIs
    <3>2. pkt' = [pkt EXCEPT ![p] = "air"]
      BY <1>3, SendIs
    <3> QED
      BY <3>1, <3>2
  <2> QED
    BY <2>0, <2>1, <2>2
<1>4. ASSUME NEW p \in Pkts, ReadTstamp(p) PROVE TypeInv'
  <2>0. UNCHANGED <<now, offset, epoch, cache, upd>>
    BY <1>4 DEF ReadTstamp, clock
  <2>1. queued' = TRUE
    BY <1>4, ReadIs DEF ReadTstamp
  <2>2. PICK t \in Latches : tracker' = [tracker EXCEPT ![t] =
                                           [skb |-> p, state |-> "REQUEST"]]
    BY <1>4, ReadIs
  <2>3. pkt' = [pkt EXCEPT ![p] = "done"]
        /\ UNCHANGED <<qup, caps, lock, free, in_use, skb, refs, msgs, replies,
                       hw, work, mbx>>
    BY <1>4, ReadIs
  <2> QED
    BY <2>0, <2>1, <2>2, <2>3
<1>5. CASE QueuesDown
  BY <1>5 DEF QueuesDown, lists, chan, clock
<1>6. CASE QueuesUp
  BY <1>6 DEF QueuesUp, lists, chan, clock
<1>7. CASE Release
  <2>0. UNCHANGED <<now, offset, epoch, cache, upd>>
    BY <1>7 DEF Release, clock
  <2>1. /\ UNCHANGED <<qup, lock, pkt, msgs, replies, hw, work, mbx>>
        /\ queued' = FALSE /\ caps' = FALSE /\ free' = <<>> /\ in_use' = <<>>
        /\ skb' = [i \in Latches |-> NoPkt]
        /\ tracker' = [i \in Latches |-> [skb |-> NoPkt, state |-> "FREE"]]
        /\ refs' = [p \in Pkts |->
             IF \E i \in ToSet(in_use) : skb[i] = p THEN refs[p] - 1 ELSE refs[p]]
    BY <1>7 DEF Release, chan
  <2>2. refs' \in [Pkts -> Nat]
    <3>1. ASSUME NEW p \in Pkts, \E i \in ToSet(in_use) : skb[i] = p
          PROVE  refs[p] = 1
      <4>1. ToSet(in_use) \subseteq Latches
        BY ListIn DEF ListInv
      <4> QED
        BY <3>1, <4>1 DEF HoldInv
    <3>2. \A p \in Pkts :
            (IF \E i \in ToSet(in_use) : skb[i] = p THEN refs[p] - 1 ELSE refs[p])
              \in Nat
      <4> SUFFICES ASSUME NEW p \in Pkts
                   PROVE  (IF \E i \in ToSet(in_use) : skb[i] = p
                           THEN refs[p] - 1 ELSE refs[p]) \in Nat
        OBVIOUS
      <4>1. refs[p] \in Nat
        BY Types
      <4> HIDE DEF TypeInv, RangeOK
      <4> QED
        BY <3>1, <4>1
    <3> HIDE DEF TypeInv, RangeOK
    <3> QED
      BY <2>1, <3>2
  <2>3. free' \in Seq(Latches) /\ in_use' \in Seq(Latches)
    BY <2>1
  <2>4. /\ skb' \in [Latches -> Pkts \cup {NoPkt}]
        /\ tracker' \in [Latches -> [skb : Pkts \cup {NoPkt},
                                     state : {"FREE", "REQUEST", "READ_VALUE"}]]
    BY <2>1
  <2> QED
    BY <2>0, <2>1, <2>2, <2>3, <2>4
<1>8. CASE WorkStart
  BY <1>8 DEF WorkStart, lists, chan, clock
<1>9. CASE WorkLock
  BY <1>9 DEF WorkLock, lists, chan, clock
<1>10. CASE WorkWalk
  <2>0. UNCHANGED <<now, offset, epoch, cache, upd>>
    BY <1>10 DEF WorkWalk, clock
  <2>1. UNCHANGED <<qup, caps, lock, free, in_use, skb, refs, pkt, msgs, replies,
                    hw, queued, mbx>>
    BY <1>10, WalkIs
  <2>2. tracker' \in [Latches -> [skb : Pkts \cup {NoPkt},
                                  state : {"FREE", "REQUEST", "READ_VALUE"}]]
    <3>1. PICK i \in Latches :
            /\ i \in ToSet(in_use)
            /\ \/ tracker' = tracker
               \/ \E t \in Latches :
                    tracker' = [tracker EXCEPT ![t] =
                         [skb |-> skb[i], state |-> "READ_VALUE"]]
      BY <1>10, WalkIs
    <3>2. skb[i] \in Pkts
      BY <3>1, InUse
    <3>3. ASSUME NEW t \in Latches,
                 tracker' = [tracker EXCEPT ![t] =
                               [skb |-> skb[i], state |-> "READ_VALUE"]]
          PROVE  tracker' \in [Latches -> [skb : Pkts \cup {NoPkt},
                                  state : {"FREE", "REQUEST", "READ_VALUE"}]]
      BY <3>2, <3>3
    <3> QED
      BY <3>1, <3>3
  <2>3. work' \in [pc : {"idle", "lock", "walk", "send"},
                   todo : Seq(Latches), msg : Seq(Latches)]
    <3>1. /\ work.todo # <<>> /\ work.todo \in Seq(Latches)
          /\ work.msg \in Seq(Latches)
      BY <1>10, WalkIs
    <3>2. Tail(work.todo) \in Seq(Latches) /\ Head(work.todo) \in Latches
      BY <3>1, HeadTailProperties
    <3>3. Append(work.msg, Head(work.todo)) \in Seq(Latches)
      BY <3>1, <3>2, AppendProperties
    <3>4. \E m \in Seq(Latches) :
            work' = [work EXCEPT !.todo = Tail(work.todo), !.msg = m]
      BY <1>10, <3>1, <3>3 DEF WorkWalk
    <3> QED
      BY <3>2, <3>4
  <2> QED
    BY <2>0, <2>1, <2>2, <2>3
<1>11. CASE WorkUnlock
  BY <1>11 DEF WorkUnlock, lists, chan, clock
<1>12. CASE WorkSend
  <2>0. UNCHANGED <<now, offset, epoch, cache, upd>>
    BY <1>12 DEF WorkSend, clock
  <2>1. /\ work' = [pc |-> "idle", todo |-> <<>>, msg |-> <<>>]
        /\ UNCHANGED <<qup, caps, lock, free, in_use, skb, refs, tracker, pkt,
                       hw, replies, queued, mbx>>
        /\ msgs' = msgs \/ msgs' = Append(msgs, work.msg)
    BY <1>12 DEF WorkSend, lists
  <2>2. msgs' \in Seq(Seq(Latches))
    <3>1. work.msg \in Seq(Latches) /\ msgs \in Seq(Seq(Latches))
      OBVIOUS
    <3>2. Append(msgs, work.msg) \in Seq(Seq(Latches))
      BY <3>1, AppendProperties
    <3> QED
      BY <2>1, <3>1, <3>2
  <2>3. work' \in [pc : {"idle", "lock", "walk", "send"},
                   todo : Seq(Latches), msg : Seq(Latches)]
    BY <2>1
  <2> QED
    BY <2>0, <2>1, <2>2, <2>3
<1>13. CASE DevAnswer
  <2>0. UNCHANGED <<now, offset, epoch, cache, upd>>
    BY <1>13 DEF DevAnswer, clock
  <2>1. /\ UNCHANGED <<qup, caps, lock, free, in_use, skb, refs, tracker, pkt, hw,
                       queued, work, mbx>>
        /\ msgs # <<>> /\ msgs' = Tail(msgs)
        /\ \E valid \in BOOLEAN :
             replies' = Append(replies,
               [k \in DOMAIN Head(msgs) |-> [latch |-> Head(msgs)[k],
                                             of |-> hw[Head(msgs)[k]],
                                             valid |-> valid]])
    BY <1>13 DEF DevAnswer, lists
  <2>2. msgs' \in Seq(Seq(Latches)) /\ Head(msgs) \in Seq(Latches)
    BY <2>1, HeadTailProperties
  <2>3. ASSUME NEW valid \in BOOLEAN
        PROVE  [k \in DOMAIN Head(msgs) |-> [latch |-> Head(msgs)[k],
                                             of |-> hw[Head(msgs)[k]],
                                             valid |-> valid]] \in Seq(Reply)
    <3> DEFINE m == Head(msgs)
               a == [k \in DOMAIN m |-> [latch |-> m[k], of |-> hw[m[k]],
                                         valid |-> valid]]
    <3>1. PICK n \in Nat : n = Len(m)
      BY <2>2, LenProperties
    <3>2. DOMAIN m = 1 .. n /\ \A k \in 1 .. n : m[k] \in Latches
      BY <2>2, <3>1, LenProperties
    <3> HIDE DEF m
    <3>3. \A k \in 1 .. n :
            [latch |-> m[k], of |-> hw[m[k]], valid |-> valid] \in Reply
      BY <3>2 DEF Reply
    <3>4. a \in [1 .. n -> Reply]
      BY <3>2, <3>3
    <3> HIDE DEF a
    <3>5. a \in Seq(Reply)
      BY <3>4, SeqDef
    <3> QED
      BY <3>5 DEF a, m
  <2>4. replies' \in Seq(Seq(Reply))
    BY <2>1, <2>3, AppendProperties
  <2> QED
    BY <2>0, <2>1, <2>2, <2>4
<1>14. CASE MbxLook
  <2>0. UNCHANGED <<now, offset, epoch, cache, upd>>
    BY <1>14 DEF MbxLook, clock
  <2>1. /\ UNCHANGED <<qup, caps, lock, free, in_use, skb, refs, tracker, pkt, hw,
                       msgs, queued, work>>
        /\ replies # <<>> /\ replies' = Tail(replies)
        /\ mbx' = IF caps THEN [pc |-> "lock", todo |-> Head(replies)] ELSE mbx
    BY <1>14 DEF MbxLook, lists
  <2>2. replies' \in Seq(Seq(Reply)) /\ Head(replies) \in Seq(Reply)
    BY <2>1, HeadTailProperties
  <2>3. mbx' \in [pc : {"idle", "lock", "walk"}, todo : Seq(Reply)]
    BY <2>1, <2>2
  <2> QED
    BY <2>0, <2>1, <2>2, <2>3
<1>15. CASE MbxLock
  <2>0. UNCHANGED <<now, offset, epoch, cache, upd>>
    BY <1>15 DEF MbxLock, clock
  <2>1. /\ UNCHANGED <<qup, caps, free, in_use, skb, refs, tracker, pkt, hw, msgs,
                       replies, queued, work>>
        /\ \/ lock' = "mbx" /\ mbx' = [mbx EXCEPT !.pc = "walk"]
           \/ lock' = lock /\ mbx' = [pc |-> "idle", todo |-> <<>>]
    BY <1>15 DEF MbxLock, chan
  <2>2. mbx' \in [pc : {"idle", "lock", "walk"}, todo : Seq(Reply)]
    <3>1. CASE mbx' = [mbx EXCEPT !.pc = "walk"]
      BY <3>1
    <3>2. CASE mbx' = [pc |-> "idle", todo |-> <<>>]
      <4>1. <<>> \in Seq(Reply)
        OBVIOUS
      <4> QED
        BY <3>2, <4>1
    <3> QED
      BY <2>1, <3>1, <3>2
  <2> QED
    BY <2>0, <2>1, <2>2
<1>16. CASE MbxLatch
  <2>0. UNCHANGED <<now, offset, epoch, cache, upd>>
    BY <1>16 DEF MbxLatch, time
  <2>1. /\ UNCHANGED <<qup, caps, lock, pkt, msgs, replies, hw, queued, work>>
        /\ mbx'.pc = "walk" /\ mbx'.todo = Tail(mbx.todo) /\ mbx.todo # <<>>
    BY <1>16, LatchIs
  <2>2. mbx' \in [pc : {"idle", "lock", "walk"}, todo : Seq(Reply)]
    <3>1. mbx.todo \in Seq(Reply)
      OBVIOUS
    <3>2. Tail(mbx.todo) \in Seq(Reply) /\ <<>> \in Seq(Reply)
      BY <2>1, <3>1, HeadTailProperties
    <3>3. MbxNext \/ MbxDone
      BY <1>16 DEF MbxLatch, TstampOf
    <3> QED
      BY <3>2, <3>3 DEF MbxNext, MbxDone
  <2>3. CASE UNCHANGED <<free, in_use, skb, refs, tracker>>
    BY <2>0, <2>1, <2>2, <2>3
  <2>4. ASSUME NEW i \in Latches, NEW t \in Latches, i \in ToSet(in_use),
               free' \in List(Latches), in_use' \in List(Latches),
               skb' = [skb EXCEPT ![i] = NoPkt],
               refs' = [refs EXCEPT ![skb[i]] = @ - 1],
               tracker' = [tracker EXCEPT ![t] = [skb |-> NoPkt, state |-> "FREE"]]
        PROVE  TypeInv'
    <3>1. free' \in Seq(Latches) /\ in_use' \in Seq(Latches)
      BY <2>4 DEF List
    <3>2. skb[i] \in Pkts
      BY <2>4, InUse
    <3>3. refs[skb[i]] = 1
      BY <3>2 DEF HoldInv
    <3>4. refs' \in [Pkts -> Nat]
      BY <2>4, <3>2, <3>3
    <3> QED
      BY <2>0, <2>1, <2>2, <2>4, <3>1, <3>4
  <2> QED
    BY <1>16, <2>3, <2>4, LatchIs
<1>17. CASE MbxUnlock
  BY <1>17 DEF MbxUnlock, lists, chan, clock
<1> QED
  BY <1>1, <1>2, <1>3, <1>4, <1>5, <1>6, <1>7, <1>8, <1>9, <1>10, <1>11, <1>12,
     <1>13, <1>14, <1>15, <1>16, <1>17
     DEF Next, Driver, ClockStep

(* No latch is lost, and none is in a list twice.                          *)
LEMMA ListKept == IInv /\ [Next]_vars => ListInv'
<1> SUFFICES ASSUME IInv, [Next]_vars PROVE ListInv'
  OBVIOUS
<1> USE DEF IInv, ListInv
<1>1. CASE ClockStep \/ UNCHANGED vars
  BY <1>1, ClockOnly DEF LatchVars, ListInv
<1>2. ASSUME NEW p \in Pkts, RequestTs(p) PROVE ListInv'
  <2>1. caps
    BY <1>2, RequestIs DEF HoldInv
  <2>2. CASE UNCHANGED <<free, in_use>>
    BY <2>2, <2>1, <1>2, RequestIs
  <2>3. CASE ~ UNCHANGED <<free, in_use>>
    <3>1. PICK i \in Latches :
            /\ i \in ToSet(free)
            /\ free' \in List(Latches) /\ in_use' \in List(Latches)
            /\ ToSet(free') = ToSet(free) \ {i}
            /\ ToSet(in_use') = ToSet(in_use) \cup {i}
            /\ Len(free') + Len(in_use') = Len(free) + Len(in_use)
      BY <1>2, <2>3, RequestIs
    <3>2. caps' = caps
      BY <1>2, RequestIs
    <3> QED
      BY <2>1, <3>1, <3>2
  <2> QED
    BY <2>2, <2>3
<1>3. ASSUME NEW p \in Pkts, DevSend(p) PROVE ListInv'
  BY <1>3, SendIs
<1>4. ASSUME NEW p \in Pkts, ReadTstamp(p) PROVE ListInv'
  BY <1>4, ReadIs
<1>5. CASE QueuesDown
  BY <1>5 DEF QueuesDown, lists, chan, clock
<1>6. CASE QueuesUp
  BY <1>6 DEF QueuesUp, lists, chan, clock
<1>7. CASE Release
  BY <1>7 DEF Release, List, ToSet
<1>8. CASE WorkStart
  BY <1>8 DEF WorkStart, lists, chan, clock
<1>9. CASE WorkLock
  BY <1>9 DEF WorkLock, lists, chan, clock
<1>10. CASE WorkWalk
  BY <1>10, WalkIs
<1>11. CASE WorkUnlock
  BY <1>11 DEF WorkUnlock, lists, chan, clock
<1>12. CASE WorkSend
  BY <1>12 DEF WorkSend, lists, chan, clock
<1>13. CASE DevAnswer
  BY <1>13 DEF DevAnswer, lists, chan, clock
<1>14. CASE MbxLook
  BY <1>14 DEF MbxLook, lists, chan, clock
<1>15. CASE MbxLock
  BY <1>15 DEF MbxLock, lists, chan, clock
<1>16. CASE MbxLatch
  BY <1>16, LatchIs
<1>17. CASE MbxUnlock
  BY <1>17 DEF MbxUnlock, lists, chan, clock
<1> QED
  BY <1>1, <1>2, <1>3, <1>4, <1>5, <1>6, <1>7, <1>8, <1>9, <1>10, <1>11, <1>12,
     <1>13, <1>14, <1>15, <1>16, <1>17
     DEF Next, Driver, ClockStep

(* A latch in use keeps its packet and its reference.                      *)
LEMMA HoldKept == IInv /\ [Next]_vars => HoldInv'
<1> SUFFICES ASSUME IInv, [Next]_vars PROVE HoldInv'
  OBVIOUS
<1> USE DEF IInv, HoldInv
<1>1. CASE ClockStep \/ UNCHANGED vars
  BY <1>1, ClockOnly DEF LatchVars
<1>2. ASSUME NEW p \in Pkts, RequestTs(p) PROVE HoldInv'
  <2>0. /\ qup /\ qup' = qup /\ caps' = caps /\ pkt[p] = "none"
        /\ \A j \in Latches : skb[j] # p
    BY <1>2, RequestIs
  <2>1. CASE pkt' = [pkt EXCEPT ![p] = "plain"] /\ UNCHANGED <<in_use, skb, refs>>
    BY <2>0, <2>1, Types
  <2>2. ASSUME NEW i \in Latches, NEW what \in {"ring", "dropped"},
               i \in ToSet(free), ToSet(in_use') = ToSet(in_use) \cup {i},
               skb' = [skb EXCEPT ![i] = p], refs' = [refs EXCEPT ![p] = @ + 1],
               pkt' = [pkt EXCEPT ![p] = what]
        PROVE  HoldInv'
    <3>1. /\ skb[i] = NoPkt /\ p # NoPkt
          /\ \A j \in Latches : skb'[j] = IF j = i THEN p ELSE skb[j]
      BY <2>2, Types, InUse, LatchesAre DEF ListInv
    <3>2. \A q \in Pkts : /\ pkt'[q] = IF q = p THEN what ELSE pkt[q]
                          /\ refs'[q] = IF q = p THEN 1 ELSE refs[q]
      BY <2>0, <2>2, Types
    <3>3. \A q \in Pkts : (\E j \in Latches : skb'[j] = q) <=>
                            q = p \/ \E j \in Latches : skb[j] = q
      BY <2>0, <3>1, LatchesAre
    <3>4. \A j \in Latches : skb'[j] # NoPkt <=> j \in ToSet(in_use')
      BY <2>2, <3>1
    <3>5. \A j, k \in Latches : skb'[j] = skb'[k] /\ skb'[j] # NoPkt => j = k
      BY <2>0, <3>1
    <3>6. \A q \in Pkts :
            refs'[q] = IF \E j \in Latches : skb'[j] = q THEN 1 ELSE 0
      BY <3>2, <3>3
    <3>7. \A q \in Pkts : pkt'[q] = "none" => \A j \in Latches : skb'[j] # q
      BY <3>1, <3>2
    <3>8. \A q \in Pkts : pkt'[q] \in {"ring", "air"} =>
                             qup' /\ \E j \in Latches : skb'[j] = q
      BY <2>0, <3>2, <3>3
    <3> QED
      BY <2>0, <3>4, <3>5, <3>6, <3>7, <3>8
  <2> QED
    BY <1>2, <2>1, <2>2, RequestIs
<1>3. ASSUME NEW p \in Pkts, DevSend(p) PROVE HoldInv'
  <2>1. pkt[p] = "ring" /\ UNCHANGED <<qup, caps, in_use, skb, refs>>
    BY <1>3, SendIs
  <2>2. \A q \in Pkts : pkt'[q] = IF q = p THEN "air" ELSE pkt[q]
    BY <1>3, SendIs, Types
  <2> QED
    BY <2>1, <2>2
<1>4. ASSUME NEW p \in Pkts, ReadTstamp(p) PROVE HoldInv'
  <2>1. pkt[p] = "air" /\ UNCHANGED <<qup, caps, in_use, skb, refs>>
    BY <1>4, ReadIs
  <2>2. \A q \in Pkts : pkt'[q] = IF q = p THEN "done" ELSE pkt[q]
    BY <1>4, ReadIs, Types
  <2> QED
    BY <2>1, <2>2
<1>5. CASE QueuesDown
  BY <1>5 DEF QueuesDown, lists, chan, clock
<1>6. CASE QueuesUp
  BY <1>6 DEF QueuesUp, lists, chan, clock
<1>7. CASE Release
  <2>1. /\ caps /\ ~ qup /\ qup' = qup /\ pkt' = pkt /\ in_use' = <<>>
        /\ refs' = [p \in Pkts |->
             IF \E i \in ToSet(in_use) : skb[i] = p THEN refs[p] - 1 ELSE refs[p]]
        /\ skb' = [i \in Latches |-> NoPkt]
    BY <1>7 DEF Release
  <2>2. ToSet(in_use) \subseteq Latches /\ ToSet(in_use') = {}
    BY <2>1, ListIn DEF ListInv, ToSet
  <2>3. \A p \in Pkts : refs'[p] = 0
    <3> SUFFICES ASSUME NEW p \in Pkts PROVE refs'[p] = 0
      OBVIOUS
    <3>1. (\E i \in ToSet(in_use) : skb[i] = p) <=> \E i \in Latches : skb[i] = p
      BY <2>2, LatchesAre
    <3> QED
      BY <2>1, <3>1
  <2> QED
    BY <2>1, <2>2, <2>3, LatchesAre
<1>8. CASE WorkStart
  BY <1>8 DEF WorkStart, lists, chan, clock
<1>9. CASE WorkLock
  BY <1>9 DEF WorkLock, lists, chan, clock
<1>10. CASE WorkWalk
  BY <1>10, WalkIs
<1>11. CASE WorkUnlock
  BY <1>11 DEF WorkUnlock, lists, chan, clock
<1>12. CASE WorkSend
  BY <1>12 DEF WorkSend, lists, chan, clock
<1>13. CASE DevAnswer
  BY <1>13 DEF DevAnswer, lists, chan, clock
<1>14. CASE MbxLook
  BY <1>14 DEF MbxLook, lists, chan, clock
<1>15. CASE MbxLock
  BY <1>15 DEF MbxLock, lists, chan, clock
<1>16. CASE MbxLatch
  <2>0. UNCHANGED <<qup, caps, pkt>>
    BY <1>16, LatchIs
  <2>1. CASE UNCHANGED <<in_use, skb, refs>>
    BY <2>0, <2>1
  <2>2. ASSUME NEW i \in Latches, NEW t \in Latches, i \in ToSet(in_use),
               ToSet(in_use') = ToSet(in_use) \ {i},
               skb' = [skb EXCEPT ![i] = NoPkt],
               refs' = [refs EXCEPT ![skb[i]] = @ - 1],
               tracker[t].skb = skb[i], tracker[t].state = "READ_VALUE"
        PROVE  HoldInv'
    <3>1. /\ skb[i] \in Pkts /\ skb[i] # NoPkt /\ pkt[skb[i]] = "done"
          /\ \A j \in Latches : skb'[j] = IF j = i THEN NoPkt ELSE skb[j]
      BY SMTT(30), <2>2, Types, InUse, LatchesAre DEF TrackInv
    <3>2. refs[skb[i]] = 1
      BY <3>1
    <3>3. \A q \in Pkts : refs'[q] = IF q = skb[i] THEN 0 ELSE refs[q]
      BY <2>2, <3>1, <3>2, Types
    <3>4. \A q \in Pkts : (\E j \in Latches : skb'[j] = q) <=>
                            q # skb[i] /\ \E j \in Latches : skb[j] = q
      BY <3>1, LatchesAre
    <3>5. \A j \in Latches : skb'[j] # NoPkt <=> j \in ToSet(in_use')
      BY <2>2, <3>1
    <3>6. \A j, k \in Latches : skb'[j] = skb'[k] /\ skb'[j] # NoPkt => j = k
      BY <3>1
    <3>7. \A q \in Pkts :
            refs'[q] = IF \E j \in Latches : skb'[j] = q THEN 1 ELSE 0
      BY <3>3, <3>4
    <3>8. \A q \in Pkts : pkt'[q] = "none" => \A j \in Latches : skb'[j] # q
      BY <2>0, <3>1, LatchesAre
    <3>9. \A q \in Pkts : pkt'[q] \in {"ring", "air"} =>
                             qup' /\ \E j \in Latches : skb'[j] = q
      BY <2>0, <3>1, <3>4
    <3> QED
      BY <2>0, <3>5, <3>6, <3>7, <3>8, <3>9
  <2> QED
    BY <1>16, <2>1, <2>2, LatchIs
<1>17. CASE MbxUnlock
  BY <1>17 DEF MbxUnlock, lists, chan, clock
<1> QED
  BY <1>1, <1>2, <1>3, <1>4, <1>5, <1>6, <1>7, <1>8, <1>9, <1>10, <1>11, <1>12,
     <1>13, <1>14, <1>15, <1>16, <1>17
     DEF Next, Driver, ClockStep

(* Trackers follow the latches.                                            *)
LEMMA TrackKept == IInv /\ [Next]_vars => TrackInv'
<1> SUFFICES ASSUME IInv, [Next]_vars PROVE TrackInv'
  OBVIOUS
<1> USE DEF IInv, TrackInv
<1>1. CASE ClockStep \/ UNCHANGED vars
  BY <1>1, ClockOnly DEF LatchVars
<1>2. ASSUME NEW p \in Pkts, RequestTs(p) PROVE TrackInv'
  <2>0. /\ pkt[p] = "none" /\ tracker' = tracker /\ hw' = hw
        /\ \A j \in Latches : skb[j] # p
    BY <1>2, RequestIs DEF HoldInv
  <2>1. \A t \in Latches : tracker[t].state # "FREE" => tracker[t].skb \in Pkts
    BY Types
  <2>2. CASE pkt' = [pkt EXCEPT ![p] = "plain"] /\ skb' = skb
    <3>1. \A q \in Pkts : pkt'[q] = IF q = p THEN "plain" ELSE pkt[q]
      BY <2>2, Types
    <3>2. \A j \in Latches : skb[j] # NoPkt => skb[j] \in Pkts
      BY Types
    <3> QED
      BY <2>0, <2>1, <2>2, <3>1, <3>2
  <2>3. ASSUME NEW i \in Latches, NEW what \in {"ring", "dropped"},
               i \in ToSet(free), skb' = [skb EXCEPT ![i] = p],
               pkt' = [pkt EXCEPT ![p] = what]
        PROVE  TrackInv'
    <3>1. /\ skb[i] = NoPkt /\ p # NoPkt
          /\ \A j \in Latches : skb'[j] = IF j = i THEN p ELSE skb[j]
      BY <2>3, Types, InUse, LatchesAre DEF ListInv
    <3>2. \A q \in Pkts : pkt'[q] = IF q = p THEN what ELSE pkt[q]
      BY <2>3, Types
    <3>3. \A j \in Latches : skb[j] # NoPkt => skb[j] \in Pkts
      BY Types
    <3>4. \A t \in Latches : tracker[t].state # "FREE" =>
            /\ pkt'[tracker[t].skb] = "done"
            /\ \E j \in Latches : skb'[j] = tracker[t].skb
      BY <2>0, <2>1, <3>1, <3>2
    <3>5. ASSUME NEW j \in Latches, skb'[j] # NoPkt,
                 pkt'[skb'[j]] \in {"air", "done"}
          PROVE  j # i /\ skb'[j] = skb[j] /\ pkt'[skb'[j]] = pkt[skb[j]]
      BY <2>0, <3>1, <3>2, <3>3, <3>5
    <3> QED
      BY <2>0, <3>4, <3>5
  <2> QED
    BY <1>2, <2>2, <2>3, RequestIs
<1>3. ASSUME NEW p \in Pkts, DevSend(p) PROVE TrackInv'
  <2>1. pkt[p] = "ring" /\ UNCHANGED <<skb, tracker>>
    BY <1>3, SendIs
  <2>2. \A q \in Pkts : pkt'[q] = IF q = p THEN "air" ELSE pkt[q]
    BY <1>3, SendIs, Types
  <2>3. PICK i \in Latches : skb[i] = p /\ hw' = [hw EXCEPT ![i] = p]
    BY <1>3, SendIs
  <2>4. \A j \in Latches : hw'[j] = IF j = i THEN p ELSE hw[j]
    BY <2>3, Types
  <2>5. \A j \in Latches :
          /\ skb[j] # NoPkt => skb[j] \in Pkts
          /\ tracker[j].state # "FREE" => tracker[j].skb \in Pkts
    BY Types
  <2>6. \A j \in Latches : j # i /\ skb[j] # NoPkt => skb[j] # p
    BY <2>3, LatchesAre DEF HoldInv
  <2> QED
    BY <2>1, <2>2, <2>3, <2>4, <2>5, <2>6
<1>4. ASSUME NEW p \in Pkts, ReadTstamp(p) PROVE TrackInv'
  <2>1. pkt[p] = "air" /\ UNCHANGED <<skb, hw>>
    BY <1>4, ReadIs
  <2>2. \A q \in Pkts : pkt'[q] = IF q = p THEN "done" ELSE pkt[q]
    BY <1>4, ReadIs, Types
  <2>3. PICK t \in Latches :
          /\ tracker[t].state = "FREE" /\ tracker[t].skb = NoPkt
          /\ tracker' = [tracker EXCEPT ![t] = [skb |-> p, state |-> "REQUEST"]]
    BY <1>4, ReadIs
  <2>4. \A u \in Latches : /\ u # t => tracker'[u] = tracker[u]
                           /\ tracker'[t].skb = p /\ tracker'[t].state = "REQUEST"
    BY <2>3, Types
  <2>5. \A j \in Latches :
          /\ skb[j] # NoPkt => skb[j] \in Pkts
          /\ tracker[j].state # "FREE" => tracker[j].skb \in Pkts
    BY Types
  <2>6. \A u \in Latches : tracker[u].skb # p
    BY <2>1, <2>5, LatchesAre
  <2>7. p # NoPkt /\ \E j \in Latches : skb[j] = p
    BY <2>1, LatchesAre DEF HoldInv
  <2>8. \A u \in Latches : tracker'[u].state = "FREE" <=> tracker'[u].skb = NoPkt
    BY <2>4, <2>7
  <2>9. \A u \in Latches : tracker'[u].state # "FREE" =>
          /\ pkt'[tracker'[u].skb] = "done"
          /\ \E j \in Latches : skb'[j] = tracker'[u].skb
    BY <2>1, <2>2, <2>4, <2>5, <2>7
  <2>10. \A u, w \in Latches :
           tracker'[u].skb = tracker'[w].skb /\ tracker'[u].skb # NoPkt => u = w
    BY <2>4, <2>6
  <2>11. ASSUME NEW j \in Latches, skb[j] # NoPkt, pkt'[skb[j]] = "done"
         PROVE  \E u \in Latches : tracker'[u].skb = skb[j]
    <3>1. CASE skb[j] = p
      BY <2>4, <3>1
    <3>2. CASE skb[j] # p
      <4>1. PICK u \in Latches : tracker[u].skb = skb[j]
        BY <2>2, <2>5, <2>11, <3>2
      <4> QED
        BY <4>1, <2>3, <2>4, <2>11
    <3> QED
      BY <3>1, <3>2
  <2>12. \A j \in Latches : skb[j] # NoPkt /\ pkt'[skb[j]] \in {"air", "done"} =>
                               hw[j] = skb[j]
    BY <2>1, <2>2, <2>5
  <2> QED
    BY <2>1, <2>8, <2>9, <2>10, <2>11, <2>12
<1>5. CASE QueuesDown
  <2>1. /\ UNCHANGED <<skb, tracker, hw>>
        /\ \A q \in Pkts : pkt'[q] = IF pkt[q] \in {"ring", "air"}
                                     THEN "dropped" ELSE pkt[q]
    BY <1>5 DEF QueuesDown, lists, chan
  <2>2. \A j \in Latches :
          /\ skb[j] # NoPkt => skb[j] \in Pkts
          /\ tracker[j].state # "FREE" => tracker[j].skb \in Pkts
    BY Types
  <2> QED
    BY <2>1, <2>2
<1>6. CASE QueuesUp
  BY <1>6 DEF QueuesUp, lists, chan, clock
<1>7. CASE Release
  BY <1>7 DEF Release, lists, chan, clock
<1>8. CASE WorkStart
  BY <1>8 DEF WorkStart, lists, chan, clock
<1>9. CASE WorkLock
  BY <1>9 DEF WorkLock, lists, chan, clock
<1>10. CASE WorkWalk
  <2>1. UNCHANGED <<skb, pkt, hw>>
    BY <1>10, WalkIs
  <2>2. CASE tracker' = tracker
    BY <2>1, <2>2
  <2>3. ASSUME NEW i \in Latches, NEW t \in Latches,
               tracker[t].skb = skb[i], tracker[t].state = "REQUEST",
               tracker' = [tracker EXCEPT ![t] =
                             [skb |-> skb[i], state |-> "READ_VALUE"]]
        PROVE  TrackInv'
    <3>1. \A u \in Latches :
            /\ tracker'[u].skb = tracker[u].skb
            /\ tracker'[u].state = "FREE" <=> tracker[u].state = "FREE"
      BY <2>3, Types
    <3> QED
      BY <2>1, <3>1
  <2> QED
    BY <1>10, <2>2, <2>3, WalkIs
<1>11. CASE WorkUnlock
  BY <1>11 DEF WorkUnlock, lists, chan, clock
<1>12. CASE WorkSend
  BY <1>12 DEF WorkSend, lists, chan, clock
<1>13. CASE DevAnswer
  BY <1>13 DEF DevAnswer, lists, chan, clock
<1>14. CASE MbxLook
  BY <1>14 DEF MbxLook, lists, chan, clock
<1>15. CASE MbxLock
  BY <1>15 DEF MbxLock, lists, chan, clock
<1>16. CASE MbxLatch
  <2>0. UNCHANGED <<pkt, hw>>
    BY <1>16, LatchIs
  <2>1. CASE UNCHANGED <<skb, tracker>>
    BY <2>0, <2>1
  <2>2. ASSUME NEW i \in Latches, NEW t \in Latches, i \in ToSet(in_use),
               skb' = [skb EXCEPT ![i] = NoPkt],
               tracker[t].skb = skb[i], tracker[t].state = "READ_VALUE",
               tracker' = [tracker EXCEPT ![t] = [skb |-> NoPkt, state |-> "FREE"]]
        PROVE  TrackInv'
    <3>1. /\ skb[i] # NoPkt
          /\ \A j \in Latches : skb'[j] = IF j = i THEN NoPkt ELSE skb[j]
      BY <2>2, Types, InUse, LatchesAre
    <3>2. \A u \in Latches : /\ u # t => tracker'[u] = tracker[u]
                             /\ tracker'[t].skb = NoPkt
                             /\ tracker'[t].state = "FREE"
      BY <2>2, Types
    <3>3. \A j \in Latches : j # i /\ skb[j] # NoPkt => skb[j] # skb[i]
      BY DEF HoldInv
    <3>4. \A u \in Latches :
            u # t /\ tracker[u].skb # NoPkt => tracker[u].skb # skb[i]
      BY <2>2
    <3>5. \A u \in Latches : tracker'[u].state = "FREE" <=> tracker'[u].skb = NoPkt
      BY <3>2
    <3>6. \A u \in Latches : tracker'[u].state # "FREE" =>
            /\ pkt[tracker'[u].skb] = "done"
            /\ \E j \in Latches : skb'[j] = tracker'[u].skb
      BY <3>1, <3>2, <3>4
    <3>7. \A u, w \in Latches :
           tracker'[u].skb = tracker'[w].skb /\ tracker'[u].skb # NoPkt => u = w
      BY <3>2
    <3>8. \A j \in Latches : skb'[j] # NoPkt /\ pkt[skb'[j]] = "done" =>
            \E u \in Latches : tracker'[u].skb = skb'[j]
      BY <2>2, <3>1, <3>2, <3>3
    <3>9. \A j \in Latches :
            skb'[j] # NoPkt /\ pkt[skb'[j]] \in {"air", "done"} => hw[j] = skb'[j]
      BY <3>1
    <3> QED
      BY <2>0, <3>5, <3>6, <3>7, <3>8, <3>9
  <2> QED
    BY <1>16, <2>1, <2>2, LatchIs
<1>17. CASE MbxUnlock
  BY <1>17 DEF MbxUnlock, lists, chan, clock
<1> QED
  BY <1>1, <1>2, <1>3, <1>4, <1>5, <1>6, <1>7, <1>8, <1>9, <1>10, <1>11, <1>12,
     <1>13, <1>14, <1>15, <1>16, <1>17
     DEF Next, Driver, ClockStep

(* Who walks a list holds its lock.                                        *)
LEMMA WorkKept == IInv /\ [Next]_vars => WorkInv'
<1> SUFFICES ASSUME IInv, [Next]_vars PROVE WorkInv'
  OBVIOUS
<1> USE DEF IInv, WorkInv
<1>1. CASE ClockStep \/ UNCHANGED vars
  BY <1>1, ClockOnly DEF LatchVars
<1>2. ASSUME NEW p \in Pkts, RequestTs(p) PROVE WorkInv'
  BY <1>2, RequestIs
<1>3. ASSUME NEW p \in Pkts, DevSend(p) PROVE WorkInv'
  BY <1>3, SendIs
<1>4. ASSUME NEW p \in Pkts, ReadTstamp(p) PROVE WorkInv'
  <2>1. caps /\ UNCHANGED <<caps, lock, in_use, work, mbx>>
    BY <1>4, ReadIs DEF HoldInv
  <2> QED
    BY <2>1
<1>5. CASE QueuesDown
  BY <1>5 DEF QueuesDown, lists, chan, clock
<1>6. CASE QueuesUp
  BY <1>6 DEF QueuesUp, lists, chan, clock
<1>7. CASE Release
  BY <1>7 DEF Release, lists, chan, clock
<1>8. CASE WorkStart
  <2>1. /\ caps /\ work.pc = "idle" /\ UNCHANGED <<caps, lock, in_use, mbx>>
        /\ \/ work' = work
           \/ work'.pc = "lock" /\ work'.msg = work.msg
    BY <1>8, Types DEF WorkStart, lists
  <2> QED
    BY <2>1
<1>9. CASE WorkLock
  <2>1. /\ work.pc = "lock" /\ lock = "none" /\ lock' = "work"
        /\ work'.pc = "walk" /\ work'.todo = in_use
        /\ UNCHANGED <<caps, in_use, queued, mbx>>
    BY <1>9 DEF WorkLock
  <2> QED
    BY <2>1 DEF ListInv
<1>10. CASE WorkWalk
  <2>1. /\ lock = "work" /\ work.pc = "walk" /\ work'.pc = "walk"
        /\ work.todo # <<>> /\ work'.todo = Tail(work.todo)
        /\ UNCHANGED <<caps, lock, in_use, queued, mbx>>
    BY <1>10, WalkIs
  <2>2. work.todo \in List(Latches) /\ ToSet(work.todo) \subseteq ToSet(in_use)
    BY <2>1
  <2>3. work'.todo \in List(Latches) /\ ToSet(work'.todo) \subseteq ToSet(work.todo)
    BY <2>1, <2>2, TailOfList
  <2> QED
    BY <2>1, <2>2, <2>3
<1>11. CASE WorkUnlock
  <2>1. /\ work.pc = "walk" /\ lock' = "none" /\ work'.pc = "send"
        /\ UNCHANGED <<caps, in_use, queued, mbx>>
    BY <1>11, Types DEF WorkUnlock
  <2> QED
    BY <2>1
<1>12. CASE WorkSend
  BY <1>12 DEF WorkSend, lists, chan, clock
<1>13. CASE DevAnswer
  BY <1>13 DEF DevAnswer, lists, chan, clock
<1>14. CASE MbxLook
  <2>1. /\ mbx.pc = "idle" /\ UNCHANGED <<caps, lock, in_use, queued, work>>
        /\ \/ mbx' = mbx
           \/ mbx'.pc = "lock"
    BY <1>14 DEF MbxLook, lists
  <2> QED
    BY <2>1
<1>15. CASE MbxLock
  <2>1. /\ mbx.pc = "lock" /\ lock = "none"
        /\ UNCHANGED <<caps, in_use, queued, work>>
        /\ \/ caps /\ lock' = "mbx" /\ mbx'.pc = "walk"
           \/ mbx'.pc = "idle" /\ mbx'.todo = <<>> /\ lock' = lock
    BY <1>15, Types DEF MbxLock
  <2> QED
    BY <2>1
<1>16. CASE MbxLatch
  <2>1. /\ lock = "mbx" /\ mbx.pc = "walk" /\ mbx'.pc = "walk"
        /\ UNCHANGED <<caps, lock, queued, work>>
    BY <1>16, LatchIs
  <2> QED
    BY <2>1
<1>17. CASE MbxUnlock
  <2>1. /\ mbx.pc = "walk" /\ mbx.todo = <<>> /\ lock' = "none"
        /\ mbx'.pc = "idle" /\ mbx'.todo = <<>>
        /\ UNCHANGED <<caps, in_use, queued, work>>
    BY <1>17, Types DEF MbxUnlock
  <2> QED
    BY <2>1
<1> QED
  BY <1>1, <1>2, <1>3, <1>4, <1>5, <1>6, <1>7, <1>8, <1>9, <1>10, <1>11, <1>12,
     <1>13, <1>14, <1>15, <1>16, <1>17
     DEF Next, Driver, ClockStep

(* Nothing is asked for or answered, and trackers that are being read stay.*)
LEMMA AskSame ==
  ASSUME IInv, UNCHANGED <<msgs, replies>>, work'.msg = work.msg,
         mbx'.todo = mbx.todo, caps' => caps,
         \A i \in Latches : Reading(i) => Reading(i)'
  PROVE  AskInv'
<1> SUFFICES ASSUME caps' PROVE OnceInv' /\ \A i \in
                 (InWork \cup InMsgs \cup InReplies \cup InMbx)' : Reading(i)'
  BY DEF AskInv
<1>1. /\ OnceInv
      /\ \A i \in InWork \cup InMsgs \cup InReplies \cup InMbx : Reading(i)
  BY DEF IInv, AskInv
<1>2. /\ InWork' = InWork /\ InMsgs' = InMsgs /\ InReplies' = InReplies
      /\ InMbx' = InMbx
  BY DEF InWork, InMsgs, InReplies, InMbx, InMsg, InAns
<1>3. OnceInv'
  BY <1>1, <1>2 DEF OnceInv, InMsg, InAns
<1>4. InWork \cup InMsgs \cup InReplies \cup InMbx \subseteq Latches
  BY <1>1, ListIn DEF OnceInv, InWork, InMsgs, InReplies, InMbx
<1> QED
  BY <1>1, <1>2, <1>3, <1>4

(* What is asked for are latches.                                          *)
LEMMA AskedIn ==
  ASSUME OnceInv
  PROVE  /\ InWork \subseteq Latches /\ InMbx \subseteq Latches
         /\ \A k \in DOMAIN msgs : InMsg(k) \subseteq InMsgs
         /\ \A k \in DOMAIN replies : InAns(k) \subseteq InReplies
<1>1. InWork \subseteq Latches /\ InMbx \subseteq Latches
  BY ListIn DEF OnceInv, InWork, InMbx
<1>2. ASSUME NEW k \in DOMAIN msgs PROVE InMsg(k) \subseteq InMsgs
  BY ListIn DEF OnceInv, InMsg, InMsgs
<1>3. ASSUME NEW k \in DOMAIN replies PROVE InAns(k) \subseteq InReplies
  BY ListIn DEF OnceInv, InAns, InReplies
<1> QED
  BY <1>1, <1>2, <1>3

(* Every latch is asked for once at a time.                                *)
LEMMA AskKept == IInv /\ [Next]_vars => AskInv'
<1> SUFFICES ASSUME IInv, [Next]_vars PROVE AskInv'
  OBVIOUS
<1> USE DEF IInv
<1>1. CASE ClockStep \/ UNCHANGED vars
  <2>1. UNCHANGED <<caps, msgs, replies, work, mbx, skb, tracker>>
    BY <1>1, ClockOnly DEF LatchVars
  <2> QED
    BY <2>1, AskSame DEF Reading
<1>2. ASSUME NEW p \in Pkts, RequestTs(p) PROVE AskInv'
  <2>1. UNCHANGED <<caps, msgs, replies, work, mbx, tracker>>
    BY <1>2, RequestIs
  <2>2. ASSUME NEW j \in Latches, skb[j] # NoPkt PROVE skb'[j] = skb[j]
    <3>1. j \notin ToSet(free)
      BY <2>2 DEF HoldInv, ListInv
    <3> QED
      BY <1>2, <3>1, RequestIs, Types
  <2>3. \A j \in Latches : Reading(j) => Reading(j)'
    BY <2>1, <2>2 DEF Reading
  <2> QED
    BY <2>1, <2>3, AskSame
<1>3. ASSUME NEW p \in Pkts, DevSend(p) PROVE AskInv'
  <2>1. UNCHANGED <<caps, msgs, replies, work, mbx, skb, tracker>>
    BY <1>3, SendIs
  <2> QED
    BY <2>1, AskSame DEF Reading
<1>4. ASSUME NEW p \in Pkts, ReadTstamp(p) PROVE AskInv'
  <2>1. UNCHANGED <<caps, msgs, replies, work, mbx, skb>>
    BY <1>4, ReadIs
  <2>2. ASSUME NEW u \in Latches, tracker[u].state = "READ_VALUE"
        PROVE  tracker'[u] = tracker[u]
    BY <1>4, <2>2, ReadIs, Types
  <2>3. \A j \in Latches : Reading(j) => Reading(j)'
    BY <2>1, <2>2 DEF Reading
  <2> QED
    BY <2>1, <2>3, AskSame
<1>5. CASE QueuesDown
  <2>1. UNCHANGED <<caps, msgs, replies, work, mbx, skb, tracker>>
    BY <1>5 DEF QueuesDown, lists, chan
  <2> QED
    BY <2>1, AskSame DEF Reading
<1>6. CASE QueuesUp
  <2>1. UNCHANGED <<caps, msgs, replies, work, mbx, skb, tracker>>
    BY <1>6 DEF QueuesUp, lists, chan
  <2> QED
    BY <2>1, AskSame DEF Reading
<1>7. CASE Release
  BY <1>7 DEF Release, AskInv
<1>8. CASE WorkStart
  <2>1. UNCHANGED <<caps, msgs, replies, mbx, skb, tracker>> /\ work'.msg = work.msg
    BY <1>8, Types DEF WorkStart, lists, chan
  <2> QED
    BY <2>1, AskSame DEF Reading
<1>9. CASE WorkLock
  <2>1. /\ UNCHANGED <<caps, msgs, replies, mbx, skb, tracker>>
        /\ work.pc = "lock" /\ work'.msg = <<>>
    BY <1>9 DEF WorkLock, chan
  <2>2. work'.msg = work.msg
    BY <2>1 DEF WorkInv
  <2> QED
    BY <2>1, <2>2, AskSame DEF Reading
<1>10. CASE WorkWalk
  <2>1. PICK i \in Latches :
          /\ i \in ToSet(in_use)
          /\ \/ tracker' = tracker /\ work'.msg = work.msg
             \/ \E t \in Latches :
                  /\ tracker[t].skb = skb[i] /\ tracker[t].state = "REQUEST"
                  /\ tracker' = [tracker EXCEPT ![t] =
                       [skb |-> skb[i], state |-> "READ_VALUE"]]
                  /\ work'.msg = Append(work.msg, i)
    BY <1>10, WalkIs
  <2>2. UNCHANGED <<caps, msgs, replies, mbx, skb>> /\ caps
    BY <1>10, WalkIs DEF WorkInv
  <2>3. CASE tracker' = tracker /\ work'.msg = work.msg
    BY <2>2, <2>3, AskSame DEF Reading
  <2>4. ASSUME NEW t \in Latches,
               tracker[t].skb = skb[i], tracker[t].state = "REQUEST",
               tracker' = [tracker EXCEPT ![t] =
                             [skb |-> skb[i], state |-> "READ_VALUE"]],
               work'.msg = Append(work.msg, i)
        PROVE  AskInv'
    <3>1. /\ OnceInv
          /\ \A j \in InWork \cup InMsgs \cup InReplies \cup InMbx : Reading(j)
      BY <2>2 DEF AskInv
    <3>2. skb[i] # NoPkt
      BY <2>1 DEF HoldInv
    <3>3. ~ Reading(i)
      <4>1. \A u \in Latches : tracker[u].skb = skb[i] => u = t
        BY <2>4, <3>2 DEF TrackInv
      <4> QED
        BY <2>4, <4>1 DEF Reading
    <3>4. i \notin InWork \cup InMsgs \cup InReplies \cup InMbx
      BY <3>1, <3>3
    <3>5. /\ tracker'[t].skb = skb[i] /\ tracker'[t].state = "READ_VALUE"
          /\ \A u \in Latches : u # t => tracker'[u] = tracker[u]
      BY <2>4, Types
    <3>6. ASSUME NEW j \in Latches, j = i \/ Reading(j) PROVE Reading(j)'
      BY <2>2, <2>4, <3>2, <3>5, <3>6 DEF Reading
    <3>7. work'.msg \in List(Latches) /\ InWork' = InWork \cup {i}
      <4>1. work.msg \in List(Latches) /\ i \notin ToSet(work.msg)
        BY <3>1, <3>4 DEF OnceInv, InWork
      <4>2. /\ Append(work.msg, i) \in List(Latches)
            /\ ToSet(Append(work.msg, i)) = ToSet(work.msg) \cup {i}
        BY <4>1, AppendOfList
      <4> QED
        BY <2>4, <4>2 DEF InWork
    <3>8. InMsgs' = InMsgs /\ InReplies' = InReplies /\ InMbx' = InMbx
      BY <2>2 DEF InMsgs, InReplies, InMbx, InMsg, InAns
    <3>9. OnceInv'
      BY <2>2, <3>1, <3>4, <3>7, <3>8 DEF OnceInv, InMsg, InAns
    <3>10. InWork \cup InMsgs \cup InReplies \cup InMbx \subseteq Latches
      BY <3>1, AskedIn DEF InMsgs, InReplies
    <3> QED
      BY <3>1, <3>6, <3>7, <3>8, <3>9, <3>10 DEF AskInv
  <2> QED
    BY <2>1, <2>3, <2>4
<1>11. CASE WorkUnlock
  <2>1. UNCHANGED <<caps, msgs, replies, mbx, skb, tracker>> /\ work'.msg = work.msg
    BY <1>11, Types DEF WorkUnlock, chan
  <2> QED
    BY <2>1, AskSame DEF Reading
<1>12. CASE WorkSend
  <2>1. /\ work.pc = "send" /\ work'.msg = <<>>
        /\ UNCHANGED <<caps, replies, mbx, skb, tracker>>
        /\ msgs' = msgs \/ msgs' = Append(msgs, work.msg)
    BY <1>12 DEF WorkSend, lists
  <2>2. caps
    BY <2>1 DEF WorkInv
  <2>3. /\ OnceInv
        /\ \A j \in InWork \cup InMsgs \cup InReplies \cup InMbx : Reading(j)
    BY <2>2 DEF AskInv
  <2>4. InWork' = {} /\ <<>> \in List(Latches)
    BY <2>1 DEF InWork, ToSet, List
  <2>5. InReplies' = InReplies /\ InMbx' = InMbx
    BY <2>1 DEF InReplies, InMbx, InAns
  <2>6. \A k \in DOMAIN msgs' :
          \/ k \in DOMAIN msgs /\ msgs'[k] = msgs[k]
          \/ k = Len(msgs) + 1 /\ msgs'[k] = work.msg
    <3>1. msgs \in Seq(Seq(Latches)) /\ work.msg \in Seq(Latches)
      BY Types DEF TypeInv
    <3>2. /\ Append(msgs, work.msg)[Len(msgs) + 1] = work.msg
          /\ Append(msgs, work.msg) \in Seq(Seq(Latches))
          /\ Len(Append(msgs, work.msg)) = Len(msgs) + 1
          /\ \A k \in 1 .. Len(msgs) : Append(msgs, work.msg)[k] = msgs[k]
      BY <3>1, AppendProperties
    <3>3. /\ DOMAIN msgs = 1 .. Len(msgs) /\ Len(msgs) \in Nat
          /\ DOMAIN Append(msgs, work.msg) = 1 .. Len(msgs) + 1
      BY <3>1, <3>2, LenProperties
    <3> QED
      BY <2>1, <3>2, <3>3
  <2>7. InMsgs' \subseteq InMsgs \cup InWork
    BY <2>6 DEF InMsgs, InMsg, InWork
  <2>8. ASSUME NEW k \in DOMAIN msgs', NEW l \in DOMAIN msgs', k # l
        PROVE  ToSet(msgs'[k]) \cap ToSet(msgs'[l]) = {}
    <3>1. /\ \A n \in DOMAIN msgs : ToSet(msgs[n]) \cap ToSet(work.msg) = {}
          /\ \A n, m \in DOMAIN msgs : n # m => ToSet(msgs[n]) \cap ToSet(msgs[m]) = {}
      BY <2>3, AskedIn DEF OnceInv, InMsg, InWork
    <3> QED
      BY <2>6, <2>8, <3>1
  <2>9. OnceInv'
    BY <2>1, <2>3, <2>4, <2>5, <2>6, <2>7, <2>8 DEF OnceInv, InMsg, InAns
  <2>10. \A j \in Latches : Reading(j) => Reading(j)'
    BY <2>1 DEF Reading
  <2>11. InWork \cup InMsgs \cup InReplies \cup InMbx \subseteq Latches
    BY <2>3, AskedIn DEF InMsgs, InReplies
  <2> QED
    BY <2>3, <2>4, <2>5, <2>7, <2>9, <2>10, <2>11 DEF AskInv
<1>13. CASE DevAnswer
  <2>1. /\ msgs # <<>> /\ msgs' = Tail(msgs)
        /\ UNCHANGED <<caps, work, mbx, skb, tracker>>
        /\ \E valid \in BOOLEAN :
             replies' = Append(replies,
               [k \in DOMAIN Head(msgs) |-> [latch |-> Head(msgs)[k],
                                             of |-> hw[Head(msgs)[k]],
                                             valid |-> valid]])
    BY <1>13 DEF DevAnswer, lists
  <2>2. SUFFICES ASSUME caps PROVE OnceInv' /\ \A i \in
                 (InWork \cup InMsgs \cup InReplies \cup InMbx)' : Reading(i)'
    BY <2>1 DEF AskInv
  <2>3. /\ OnceInv
        /\ \A j \in InWork \cup InMsgs \cup InReplies \cup InMbx : Reading(j)
    BY <2>2 DEF AskInv
  <2>4. InWork' = InWork /\ InMbx' = InMbx
    BY <2>1 DEF InWork, InMbx
  <2>5. /\ 1 \in DOMAIN msgs /\ Head(msgs) = msgs[1]
        /\ \A k \in DOMAIN msgs' : /\ k + 1 \in DOMAIN msgs /\ k + 1 # 1
                                   /\ k \in Nat /\ msgs'[k] = msgs[k + 1]
    BY <2>1, HeadTailProperties, LenProperties, EmptySeq DEF TypeInv
  <2>6. \A k \in DOMAIN replies' :
          \/ k \in DOMAIN replies /\ replies'[k] = replies[k]
          \/ k = Len(replies) + 1 /\ Answered(replies'[k]) = msgs[1]
    <3>1. PICK valid \in BOOLEAN :
             replies' = Append(replies,
               [k \in DOMAIN Head(msgs) |-> [latch |-> Head(msgs)[k],
                                             of |-> hw[Head(msgs)[k]],
                                             valid |-> valid]])
      BY <2>1
    <3> DEFINE a == [k \in DOMAIN Head(msgs) |-> [latch |-> Head(msgs)[k],
                                             of |-> hw[Head(msgs)[k]],
                                             valid |-> valid]]
    <3>2. Answered(a) = [k \in DOMAIN msgs[1] |-> msgs[1][k]]
      BY <2>5 DEF Answered
    <3>3. msgs[1] = [k \in DOMAIN msgs[1] |-> msgs[1][k]]
      <4>1. msgs[1] \in Seq(Latches)
        BY <2>3, <2>5 DEF OnceInv, List
      <4>2. msgs[1] \in [1 .. Len(msgs[1]) -> Latches]
        BY <4>1, LenProperties
      <4> QED
        BY <4>2
    <3> HIDE DEF a
    <3>4. replies' = Append(replies, a)
      BY <3>1 DEF a
    <3>5. replies \in Seq(Seq(Reply)) /\ a \in Seq(Reply)
      <4>1. /\ msgs[1] \in Seq(Latches) /\ DOMAIN msgs[1] = 1 .. Len(msgs[1])
            /\ Len(msgs[1]) \in Nat
            /\ \A k \in DOMAIN msgs[1] : msgs[1][k] \in Latches
        BY <2>3, <2>5, LenProperties DEF OnceInv, List
      <4>2. \A k \in DOMAIN msgs[1] : hw[msgs[1][k]] \in Pkts \cup {NoPkt}
        BY <4>1, Types
      <4>3. a \in [1 .. Len(msgs[1]) -> Reply]
        BY <2>5, <4>1, <4>2 DEF a, Reply
      <4>4. PICK n \in Nat : n = Len(msgs[1])
        BY <4>1
      <4>5. a \in [1 .. n -> Reply]
        BY <4>3, <4>4
      <4>6. a \in Seq(Reply)
        BY <4>5, SeqDef
      <4> QED
        BY <4>6 DEF TypeInv
    <3> QED
      BY <3>2, <3>3, <3>4, <3>5, AppendProperties, LenProperties DEF a
  <2>7. InMsgs' \subseteq InMsgs /\ InReplies' \subseteq InReplies \cup InMsg(1)
    BY <2>5, <2>6 DEF InMsgs, InReplies, InMsg, InAns
  <2>8. InMsgs' \cap InMsg(1) = {} /\ InMsg(1) \subseteq InMsgs
    BY <2>3, <2>5, AskedIn DEF OnceInv, InMsgs, InMsg
  <2>9. /\ \A k \in DOMAIN msgs' : msgs'[k] \in List(Latches)
        /\ \A k \in DOMAIN replies' : Answered(replies'[k]) \in List(Latches)
    BY <2>3, <2>5, <2>6 DEF OnceInv
  <2>10. \A k, l \in DOMAIN msgs' : k # l => InMsg(k)' \cap InMsg(l)' = {}
    BY <2>3, <2>5 DEF OnceInv, InMsg
  <2>11. ASSUME NEW k \in DOMAIN replies', NEW l \in DOMAIN replies', k # l
         PROVE  InAns(k)' \cap InAns(l)' = {}
    <3>1. /\ \A n \in DOMAIN replies : InAns(n) \cap InMsg(1) = {}
          /\ \A n, m \in DOMAIN replies : n # m => InAns(n) \cap InAns(m) = {}
      BY <2>3, <2>8, AskedIn DEF OnceInv
    <3> QED
      BY <2>6, <2>11, <3>1 DEF InAns, InMsg
  <2>12. /\ (InWork \cap (InMsgs \cup InReplies \cup InMbx))' = {}
         /\ (InMsgs \cap (InReplies \cup InMbx))' = {}
         /\ (InReplies \cap InMbx)' = {}
    BY <2>3, <2>4, <2>7, <2>8 DEF OnceInv
  <2>13. OnceInv'
    BY <2>1, <2>3, <2>9, <2>10, <2>11, <2>12 DEF OnceInv
  <2>14. \A j \in Latches : Reading(j) => Reading(j)'
    BY <2>1 DEF Reading
  <2>15. InWork \cup InMsgs \cup InReplies \cup InMbx \subseteq Latches
    BY <2>3, AskedIn DEF InMsgs, InReplies
  <2> QED
    BY <2>3, <2>4, <2>7, <2>8, <2>13, <2>14, <2>15
<1>14. CASE MbxLook
  <2>1. /\ replies # <<>> /\ replies' = Tail(replies) /\ mbx.pc = "idle"
        /\ UNCHANGED <<caps, msgs, work, skb, tracker>>
        /\ caps => mbx'.todo = Head(replies)
    BY <1>14 DEF MbxLook, lists
  <2>2. SUFFICES ASSUME caps PROVE OnceInv' /\ \A i \in
                 (InWork \cup InMsgs \cup InReplies \cup InMbx)' : Reading(i)'
    BY <2>1 DEF AskInv
  <2>3. /\ OnceInv
        /\ \A j \in InWork \cup InMsgs \cup InReplies \cup InMbx : Reading(j)
    BY <2>2 DEF AskInv
  <2>4. InWork' = InWork /\ InMsgs' = InMsgs
    BY <2>1 DEF InWork, InMsgs, InMsg
  <2>5. /\ 1 \in DOMAIN replies /\ Head(replies) = replies[1]
        /\ \A k \in DOMAIN replies' :
             /\ k + 1 \in DOMAIN replies /\ k + 1 # 1 /\ k \in Nat
             /\ replies'[k] = replies[k + 1]
    BY <2>1, HeadTailProperties, LenProperties, EmptySeq DEF TypeInv
  <2>6. InMbx' = InAns(1) /\ Answered(mbx'.todo) \in List(Latches)
    BY <2>1, <2>2, <2>3, <2>5 DEF InMbx, InAns, OnceInv
  <2>7. InReplies' \subseteq InReplies
    BY <2>5 DEF InReplies, InAns
  <2>8. InReplies' \cap InAns(1) = {} /\ InAns(1) \subseteq InReplies
    BY <2>3, <2>5, AskedIn DEF OnceInv, InReplies, InAns
  <2>9. \A k \in DOMAIN replies' : Answered(replies'[k]) \in List(Latches)
    BY <2>3, <2>5 DEF OnceInv
  <2>10. \A k, l \in DOMAIN replies' : k # l => InAns(k)' \cap InAns(l)' = {}
    BY <2>3, <2>5 DEF OnceInv, InAns
  <2>11. /\ (InWork \cap (InMsgs \cup InReplies \cup InMbx))' = {}
         /\ (InMsgs \cap (InReplies \cup InMbx))' = {}
         /\ (InReplies \cap InMbx)' = {}
    BY <2>3, <2>4, <2>6, <2>7, <2>8 DEF OnceInv
  <2>12. OnceInv'
    BY <2>1, <2>3, <2>6, <2>9, <2>10, <2>11 DEF OnceInv, InMsg
  <2>13. \A j \in Latches : Reading(j) => Reading(j)'
    BY <2>1 DEF Reading
  <2>14. InWork \cup InMsgs \cup InReplies \cup InMbx \subseteq Latches
    BY <2>3, AskedIn DEF InMsgs, InReplies
  <2> QED
    BY <2>3, <2>4, <2>6, <2>7, <2>8, <2>12, <2>13, <2>14
<1>15. CASE MbxLock
  <2>1. UNCHANGED <<caps, msgs, replies, work, skb, tracker>>
    BY <1>15 DEF MbxLock, chan
  <2>2. CASE caps
    <3>1. mbx'.todo = mbx.todo
      BY <1>15, <2>2, Types DEF MbxLock
    <3> QED
      BY <2>1, <3>1, AskSame DEF Reading
  <2>3. CASE ~ caps
    BY <2>1, <2>3 DEF AskInv
  <2> QED
    BY <2>2, <2>3
<1>16. CASE MbxLatch
  <2> DEFINE i == Head(mbx.todo).latch
  <2>1. /\ caps /\ mbx.todo # <<>> /\ mbx'.todo = Tail(mbx.todo)
        /\ UNCHANGED <<caps, msgs, replies, work>>
    BY <1>16, LatchIs
  <2>2. /\ OnceInv
        /\ \A j \in InWork \cup InMsgs \cup InReplies \cup InMbx : Reading(j)
    BY <2>1 DEF AskInv
  <2>3. /\ Answered(mbx'.todo) \in List(Latches) /\ i \in InMbx /\ i \in Latches
        /\ InMbx' = InMbx \ {i}
    <3>1. mbx.todo \in Seq(Reply) /\ Answered(mbx.todo) \in List(Latches)
      BY <2>2, Types DEF OnceInv
    <3> QED
      BY <2>1, <3>1, AnsweredTail DEF InMbx
  <2> HIDE DEF i
  <2>4. InWork' = InWork /\ InMsgs' = InMsgs /\ InReplies' = InReplies
    BY <2>1 DEF InWork, InMsgs, InReplies, InMsg, InAns
  <2>5. OnceInv'
    BY <2>1, <2>2, <2>3, <2>4 DEF OnceInv, InMsg, InAns
  <2>6. ASSUME NEW j \in Latches, Reading(j), j # i
        PROVE  Reading(j)'
    <3>1. CASE UNCHANGED <<skb, tracker>>
      BY <2>6, <3>1 DEF Reading
    <3>2. ASSUME NEW t \in Latches, skb' = [skb EXCEPT ![i] = NoPkt],
                 tracker[t].skb = skb[i],
                 tracker' = [tracker EXCEPT ![t] =
                               [skb |-> NoPkt, state |-> "FREE"]]
          PROVE  Reading(j)'
      <4>1. skb[j] # NoPkt /\ skb'[j] = skb[j] /\ skb[j] # skb[i]
        BY <2>3, <2>6, <3>2, Types DEF Reading, HoldInv
      <4>2. PICK u \in Latches :
              tracker[u].skb = skb[j] /\ tracker[u].state = "READ_VALUE"
        BY <2>6 DEF Reading
      <4>3. u # t /\ tracker'[u] = tracker[u]
        BY <3>2, <4>1, <4>2, Types
      <4> QED
        BY <4>1, <4>2, <4>3 DEF Reading
    <3> QED
      BY <1>16, <3>1, <3>2, LatchIs DEF i
  <2>7. i \notin InWork \cup InMsgs \cup InReplies
    BY <2>2, <2>3 DEF OnceInv
  <2>8. InWork \cup InMsgs \cup InReplies \cup InMbx \subseteq Latches
    BY <2>2, AskedIn DEF InMsgs, InReplies
  <2> QED
    BY <2>2, <2>3, <2>4, <2>5, <2>6, <2>7, <2>8 DEF AskInv
<1>17. CASE MbxUnlock
  <2>1. UNCHANGED <<caps, msgs, replies, work, skb, tracker>> /\ mbx'.todo = mbx.todo
    BY <1>17, Types DEF MbxUnlock, chan
  <2> QED
    BY <2>1, AskSame DEF Reading
<1> QED
  BY <1>1, <1>2, <1>3, <1>4, <1>5, <1>6, <1>7, <1>8, <1>9, <1>10, <1>11, <1>12,
     <1>13, <1>14, <1>15, <1>16, <1>17
     DEF Next, Driver, ClockStep

(* A request that was set is heard.                                        *)
LEMMA HeardKept == IInv /\ [Next]_vars => RequestHeard'
<1> SUFFICES ASSUME IInv, [Next]_vars PROVE RequestHeard'
  OBVIOUS
<1> USE DEF IInv, RequestHeard, Requests
<1>1. CASE ClockStep \/ UNCHANGED vars
  BY <1>1, ClockOnly DEF LatchVars
<1>2. ASSUME NEW p \in Pkts, RequestTs(p) PROVE RequestHeard'
  <2>1. work.pc # "walk" /\ UNCHANGED <<tracker, queued, work>>
    BY <1>2, RequestIs DEF WorkInv
  <2>2. lost \subseteq lost'
    BY <1>2, RequestIs
  <2> QED
    BY <2>1, <2>2
<1>3. ASSUME NEW p \in Pkts, DevSend(p) PROVE RequestHeard'
  BY <1>3, SendIs
<1>4. ASSUME NEW p \in Pkts, ReadTstamp(p) PROVE RequestHeard'
  BY <1>4, ReadIs
<1>5. CASE QueuesDown
  BY <1>5 DEF QueuesDown, lists, chan, clock
<1>6. CASE QueuesUp
  BY <1>6 DEF QueuesUp, lists, chan, clock
<1>7. CASE Release
  BY <1>7 DEF Release, lists, chan, clock
<1>8. CASE WorkStart
  <2>1. work.pc = "idle" /\ tracker' = tracker
    BY <1>8 DEF WorkStart
  <2>2. CASE work' = [work EXCEPT !.pc = "lock"]
    BY <2>1, <2>2, Types
  <2>3. CASE lost' = lost \cup {tracker[i].skb : i \in Requests}
    BY <2>1, <2>3
  <2> QED
    BY <1>8, <2>2, <2>3 DEF WorkStart
<1>9. CASE WorkLock
  <2>1. /\ work'.pc = "walk" /\ work'.todo = in_use
        /\ UNCHANGED <<tracker, skb>>
    BY <1>9 DEF WorkLock
  <2>2. ASSUME NEW t \in Latches, tracker[t].state = "REQUEST"
        PROVE  \E j \in ToSet(in_use) : skb[j] = tracker[t].skb
    <3>1. PICK j \in Latches : skb[j] = tracker[t].skb
      BY <2>2 DEF TrackInv
    <3>2. skb[j] # NoPkt
      BY <2>2, <3>1 DEF TrackInv
    <3> QED
      BY <3>1, <3>2 DEF HoldInv
  <2> QED
    BY <2>1, <2>2
<1>10. CASE WorkWalk
  <2>1. /\ UNCHANGED <<skb, queued, lost>> /\ work.pc = "walk" /\ work.todo # <<>>
        /\ work'.pc = "walk" /\ work'.todo = Tail(work.todo)
        /\ work.todo \in List(Latches)
    BY <1>10, WalkIs DEF WorkInv
  <2>2. ToSet(work'.todo) = ToSet(work.todo) \ {Head(work.todo)}
    BY <2>1, TailOfList
  <2>3. ASSUME NEW t \in Latches, tracker'[t].state = "REQUEST"
        PROVE  /\ tracker[t] = tracker'[t]
               /\ tracker[t].skb # skb[Head(work.todo)]
    <3>1. PICK i \in Latches :
            /\ i = Head(work.todo) /\ i \in ToSet(in_use)
            /\ \/ /\ tracker' = tracker
                  /\ \A u \in Latches : tracker[u].skb = skb[i] =>
                                          tracker[u].state # "REQUEST"
               \/ \E u \in Latches :
                    /\ tracker[u].skb = skb[i] /\ tracker[u].state = "REQUEST"
                    /\ tracker' = [tracker EXCEPT ![u] =
                         [skb |-> skb[i], state |-> "READ_VALUE"]]
      BY <1>10, WalkIs
    <3>2. CASE tracker' = tracker
      <4>1. CASE \A u \in Latches : tracker[u].skb = skb[i] =>
                                     tracker[u].state # "REQUEST"
        BY <2>3, <3>1, <3>2, <4>1
      <4>2. ASSUME NEW u \in Latches, tracker[u].state = "REQUEST",
                   tracker' = [tracker EXCEPT ![u] =
                         [skb |-> skb[i], state |-> "READ_VALUE"]]
            PROVE  FALSE
        BY <3>2, <4>2, Types
      <4> QED
        BY <3>1, <4>1, <4>2
    <3>3. ASSUME NEW u \in Latches,
                 tracker[u].skb = skb[i], tracker[u].state = "REQUEST",
                 tracker' = [tracker EXCEPT ![u] =
                         [skb |-> skb[i], state |-> "READ_VALUE"]]
          PROVE  tracker[t] = tracker'[t] /\ tracker[t].skb # skb[i]
      <4>1. t # u /\ tracker'[t] = tracker[t]
        BY <2>3, <3>3, Types
      <4>2. skb[i] # NoPkt
        BY <3>1 DEF HoldInv
      <4> QED
        BY <3>3, <4>1, <4>2 DEF TrackInv
    <3> QED
      BY <3>1, <3>2, <3>3
  <2> QED
    BY <2>1, <2>2, <2>3
<1>11. CASE WorkUnlock
  <2>1. /\ UNCHANGED <<tracker, queued, lost>>
        /\ work.pc = "walk" /\ ToSet(work.todo) = {}
    BY <1>11 DEF WorkUnlock, ToSet
  <2> QED
    BY <2>1
<1>12. CASE WorkSend
  BY <1>12 DEF WorkSend, lists, chan, clock
<1>13. CASE DevAnswer
  BY <1>13 DEF DevAnswer, lists, chan, clock
<1>14. CASE MbxLook
  BY <1>14 DEF MbxLook, lists, chan, clock
<1>15. CASE MbxLock
  BY <1>15 DEF MbxLock, lists, chan, clock
<1>16. CASE MbxLatch
  <2>1. work.pc # "walk" /\ UNCHANGED <<queued, work, lost>>
    BY <1>16, LatchIs DEF WorkInv
  <2>2. ASSUME NEW t \in Latches, tracker'[t].state = "REQUEST"
        PROVE  tracker'[t] = tracker[t]
    BY <1>16, <2>2, LatchIs, Types
  <2> QED
    BY <2>1, <2>2
<1>17. CASE MbxUnlock
  BY <1>17 DEF MbxUnlock, lists, chan, clock
<1> QED
  BY <1>1, <1>2, <1>3, <1>4, <1>5, <1>6, <1>7, <1>8, <1>9, <1>10, <1>11, <1>12,
     <1>13, <1>14, <1>15, <1>16, <1>17
     DEF Next, Driver, ClockStep

--------------------------------------------------------------------------------
(* The latches as the device reports them                                  *)
LEMMA StampInit == Init => IInv
<1> SUFFICES ASSUME Init PROVE IInv
  OBVIOUS
<1> USE DEF Init
<1>1. NumLatches \in Nat /\ NumLatches > 0 /\ Start \in Nat
  BY LatchAssumption, ClockAssumption
<1>2. \A i \in Latches : NumLatches + 1 - i \in Latches
  BY <1>1 DEF Latches
<1>3. /\ free \in Seq(Latches) /\ Len(free) = NumLatches
      /\ DOMAIN free = 1 .. NumLatches
  <2>1. free \in [1 .. NumLatches -> Latches]
    BY <1>2 DEF Latches
  <2>2. free \in Seq(Latches)
    BY <1>1, <2>1, SeqDef
  <2> QED
    BY <1>1, <2>1, <2>2, LenProperties
<1>4. free \in List(Latches) /\ ToSet(free) = Latches
  <2>1. \A k, l \in DOMAIN free : free[k] = free[l] => k = l
    BY <1>1 DEF Latches
  <2>2. ToSet(free) \subseteq Latches
    BY <1>3, <2>1, ListIn DEF List
  <2>3. ASSUME NEW i \in Latches PROVE i \in ToSet(free)
    <3>1. PICK k \in Latches : k = NumLatches + 1 - i
      BY <1>2
    <3>2. free[k] = i /\ k \in DOMAIN free
      BY <1>1, <1>3, <3>1 DEF Latches
    <3> QED
      BY <3>2 DEF ToSet
  <2> QED
    BY <1>3, <2>1, <2>2, <2>3 DEF List
<1>5. <<>> \in List(Latches) /\ ToSet(<<>>) = {} /\ Len(<<>>) = 0
  BY DEF List, ToSet
<1>6. TypeInv
  <2>1. upd \in [Updaters -> [pc : {"idle", "read", "write", "stamp"},
                              read : [val : Nat, epoch : Nat], at : Nat]]
    BY <1>1 DEF NoTime
  <2>2. /\ msgs \in Seq(Seq(Latches)) /\ replies \in Seq(Seq(Reply))
        /\ work \in [pc : {"idle", "lock", "walk", "send"},
                     todo : Seq(Latches), msg : Seq(Latches)]
        /\ mbx \in [pc : {"idle", "lock", "walk"}, todo : Seq(Reply)]
    OBVIOUS
  <2>3. /\ now \in Nat /\ offset \in Nat /\ epoch \in Nat
        /\ cache \in [val : Nat, epoch : Nat, jiffies : Nat]
    BY <1>1
  <2>4. /\ qup \in BOOLEAN /\ caps \in BOOLEAN /\ queued \in BOOLEAN
        /\ lock \in {"none", "work", "mbx"}
        /\ work.pc \in {"idle", "lock", "walk", "send"}
        /\ mbx.pc \in {"idle", "lock", "walk"}
    OBVIOUS
  <2>5. in_use \in Seq(Latches)
    OBVIOUS
  <2>6. /\ skb \in [Latches -> Pkts \cup {NoPkt}]
        /\ tracker \in [Latches -> [skb : Pkts \cup {NoPkt},
                                    state : {"FREE", "REQUEST", "READ_VALUE"}]]
        /\ refs \in [Pkts -> Nat]
    OBVIOUS
  <2>7. RangeOK
    BY <1>3, <2>3, <2>4, <2>5, <2>6 DEF RangeOK
  <2>8. /\ pkt \in [Pkts -> {"none", "plain", "ring", "air", "done", "dropped"}]
        /\ hw \in [Latches -> Pkts \cup {NoPkt}]
    OBVIOUS
  <2> QED
    BY <2>1, <2>2, <2>7, <2>8 DEF TypeInv
<1>7. ListInv
  <2>1. /\ in_use \in List(Latches) /\ ToSet(in_use) = {} /\ Len(in_use) = 0
        /\ in_use = <<>> /\ caps
    BY <1>5
  <2>2. ToSet(free) \cap ToSet(in_use) = {}
    BY <2>1
  <2>3. ToSet(free) \cup ToSet(in_use) = Latches
    BY <1>4, <2>1
  <2>4. Len(free) + Len(in_use) = NumLatches
    BY <1>1, <1>3, <2>1
  <2> HIDE DEF Init
  <2> QED
    BY <1>4, <2>1, <2>2, <2>3, <2>4 DEF ListInv
<1>8. HoldInv /\ TrackInv
  BY <1>5, LatchesAre DEF HoldInv, TrackInv
<1>9. WorkInv
  BY <1>5 DEF WorkInv
<1>10. AskInv
  <2>1. Answered(<<>>) = <<>>
    BY DEF Answered
  <2>2. InWork = {} /\ InMsgs = {} /\ InReplies = {} /\ InMbx = {}
    BY <1>5, <2>1 DEF InWork, InMsgs, InReplies, InMbx
  <2> QED
    BY <1>5, <2>1, <2>2 DEF AskInv, OnceInv
<1>11. RequestHeard
  BY DEF RequestHeard, Requests
<1> QED
  BY <1>6, <1>7, <1>8, <1>9, <1>10, <1>11 DEF IInv

(* The inductive invariant of time stamps                                  *)
LEMMA StampInvariant == Spec => []IInv
<1>1. IInv /\ [Next]_vars => IInv'
  BY TypeKept, ListKept, HoldKept, TrackKept, WorkKept, AskKept, HeardKept
     DEF IInv
<1> QED
  BY StampInit, <1>1, PTL DEF Spec

(* What the mailbox task found of the cached clock is about the next latch *)
(* of the answer it walks.                                                 *)
FlagInv ==
  /\ slow \in BOOLEAN /\ aged \in {"no", "young", "old"}
  /\ aged # "no" => mbx.pc = "walk" /\ mbx.todo # <<>>

LEMMA FlagInvariant == Spec => []FlagInv
<1>1. Init => FlagInv
  BY DEF Init, FlagInv
<1>2. FlagInv /\ [Next]_vars => FlagInv'
  <2> SUFFICES ASSUME FlagInv, [Next]_vars PROVE FlagInv'
    OBVIOUS
  <2>1. CASE Tick
    <3>1. slow' \in BOOLEAN
      BY <2>1, Zenon DEF Tick, FlagInv
    <3> QED
      BY <2>1, <3>1 DEF Tick, FlagInv
  <2>2. CASE MbxAge
    BY <2>2 DEF MbxAge, FlagInv, time
  <2>3. CASE MbxLatch
    BY <2>3 DEF MbxLatch, FlagInv, time
  <2>4. CASE Settime \/ QueuesDown \/ QueuesUp \/ Release \/ DevAnswer
    BY <2>4 DEF Settime, QueuesDown, QueuesUp, Release, DevAnswer, FlagInv, clock
  <2>5. ASSUME NEW u \in Updaters, ReadClock(u) \/ StoreTime(u) \/ StoreJiffies(u)
        PROVE  FlagInv'
    BY <2>5 DEF ReadClock, StoreTime, StoreJiffies, FlagInv
  <2>6. ASSUME NEW p \in Pkts, RequestTs(p) \/ DevSend(p) \/ ReadTstamp(p)
        PROVE  FlagInv'
    BY <2>6 DEF RequestTs, DevSend, ReadTstamp, FlagInv, clock
  <2>7. CASE WorkStart \/ WorkLock \/ WorkWalk \/ WorkUnlock \/ WorkSend
    BY <2>7 DEF WorkStart, WorkLock, WorkWalk, WorkUnlock, WorkSend, FlagInv, clock
  <2>8. CASE MbxLook \/ MbxLock \/ MbxUnlock
    <3>1. /\ UNCHANGED <<slow, aged>> /\ (mbx.pc # "walk" \/ mbx.todo = <<>>)
      BY <2>8 DEF MbxLook, MbxLock, MbxUnlock, clock
    <3> QED
      BY <3>1 DEF FlagInv
  <2>9. CASE UNCHANGED vars
    BY <2>9 DEF vars, clock, FlagInv
  <2> QED
    BY <2>1, <2>2, <2>3, <2>4, <2>5, <2>6, <2>7, <2>8, <2>9 DEF Next, Driver
<1> QED
  BY <1>1, <1>2, PTL DEF Spec

(* No latch is lost or used twice, each packet that holds one is           *)
(* referenced once, and trackers never point to anything but a packet that *)
(* a latch keeps alive; every cleaned packet with a latch has one.         *)
THEOREM LatchesSafe == Spec => []LatchesSound
<1>1. IInv /\ FlagInv => LatchesSound
  <2> SUFFICES ASSUME IInv, FlagInv PROVE LatchesSound
    OBVIOUS
  <2>1. LatchesOwned
    <3>1. \A p \in Pkts : /\ refs[p] \in {0, 1}
                          /\ refs[p] = 1 <=> \E i \in Latches : skb[i] = p
      BY DEF IInv, HoldInv
    <3> QED
      BY <3>1 DEF LatchesOwned, IInv, ListInv, HoldInv
  <2>2. ToSet(in_use) \subseteq Latches
    BY ListIn DEF IInv, ListInv
  <2>3. ASSUME NEW t \in Latches, tracker[t].state # "FREE"
        PROVE  /\ \E j \in ToSet(in_use) : skb[j] = tracker[t].skb
               /\ \A k \in Latches \ {t} : tracker[k].skb # tracker[t].skb
    <3>1. tracker[t].skb # NoPkt
      BY <2>3 DEF IInv, TrackInv
    <3>2. PICK j \in Latches : skb[j] = tracker[t].skb
      BY <2>3 DEF IInv, TrackInv
    <3>3. j \in ToSet(in_use)
      BY <3>1, <3>2 DEF IInv, HoldInv
    <3> QED
      BY <3>1, <3>2, <3>3 DEF IInv, TrackInv
  <2>4. ASSUME NEW j \in ToSet(in_use), pkt[skb[j]] = "done"
        PROVE  \E i \in Latches : tracker[i].skb = skb[j]
    BY <2>2, <2>4 DEF IInv, HoldInv, TrackInv
  <2>5. TrackersMatch
    BY <2>3, <2>4 DEF TrackersMatch
  <2> QED
    BY <2>1, <2>5 DEF LatchesSound, IInv, TypeInv, TypeOK, FlagInv
<1> QED
  BY StampInvariant, FlagInvariant, <1>1, PTL

(* A request is never lost between the completion that makes it, the work, *)
(* the device and the mailbox task, and an answer is for a latch in use,   *)
(* whose tracker waits for it and which holds the packet's own stamp.      *)
THEOREM RequestsSafe == Spec => []RequestsSound
<1>1. IInv => RequestsSound
  <2> SUFFICES ASSUME IInv PROVE RequestsSound
    OBVIOUS
  <2>1. RequestHeard
    BY DEF IInv
  <2>2. ASSUME caps, NEW i \in Asked
        PROVE  /\ i \in ToSet(in_use) /\ TrackerOf(skb[i], "READ_VALUE") # {}
               /\ hw[i] = skb[i]
    <3>1. /\ OnceInv
          /\ \A j \in InWork \cup InMsgs \cup InReplies \cup InMbx : Reading(j)
      BY <2>2 DEF IInv, AskInv
    <3>2. \A s \in Seq(Reply) : ToSet(Answered(s)) = {r.latch : r \in ToSet(s)}
      BY LenProperties DEF Answered, ToSet
    <3>3. /\ mbx.todo \in Seq(Reply)
          /\ \A k \in DOMAIN replies : replies[k] \in Seq(Reply)
      BY Types, LenProperties DEF IInv, TypeInv
    <3>4. i \in InMsgs \cup InReplies \cup InMbx
      <4>1. \/ \E k \in DOMAIN msgs : i \in ToSet(msgs[k])
            \/ \E k \in DOMAIN replies : i \in {r.latch : r \in ToSet(replies[k])}
            \/ i \in {r.latch : r \in ToSet(mbx.todo)}
        BY <2>2 DEF Asked
      <4>2. \/ \E k \in DOMAIN msgs : i \in InMsg(k)
            \/ \E k \in DOMAIN replies : i \in InAns(k)
            \/ i \in InMbx
        BY <4>1, <3>2, <3>3 DEF InMsg, InAns, InMbx
      <4> QED
        BY <3>1, <4>2, AskedIn
    <3>5. i \in Latches /\ Reading(i)
      BY <3>1, <3>4, AskedIn DEF InMsgs, InReplies
    <3>6. PICK t \in Latches :
            tracker[t].skb = skb[i] /\ tracker[t].state = "READ_VALUE"
      BY <3>5 DEF Reading
    <3>7. skb[i] # NoPkt /\ pkt[skb[i]] = "done"
      BY <3>5, <3>6 DEF Reading, IInv, TrackInv
    <3>8. i \in ToSet(in_use) /\ hw[i] = skb[i]
      BY <3>5, <3>7 DEF IInv, HoldInv, TrackInv
    <3> QED
      BY <3>6, <3>8 DEF TrackerOf
  <2>3. AnswersExpected
    BY <2>2 DEF AnswersExpected
  <2> QED
    BY <2>1, <2>3 DEF RequestsSound
<1> QED
  BY StampInvariant, <1>1, PTL

--------------------------------------------------------------------------------
(* The clock and the values of stamps                                      *)

(* The cached value is at most two reads older than its age says, because  *)
(* the stores of two threads may mix; and what a thread is about to store  *)
(* was read not long ago.                                                  *)
AgeInv ==
  /\ cache.jiffies <= now /\ cache.epoch <= epoch
  /\ cache.epoch = epoch => /\ cache.val <= now + offset
                            /\ cache.jiffies + offset <= cache.val + 2 * MaxRead
  /\ \A u \in Updaters : upd[u].pc \in {"write", "stamp"} =>
       /\ upd[u].at <= now /\ now <= upd[u].at + MaxRead
       /\ upd[u].pc = "write" =>
            /\ upd[u].read.epoch <= epoch
            /\ upd[u].read.epoch = epoch => upd[u].read.val = upd[u].at + offset
       /\ upd[u].pc = "stamp" /\ cache.epoch = epoch =>
            upd[u].at + offset <= cache.val + MaxRead

(* No packet was stamped in the future.                                    *)
StampInv ==
  /\ at \in [Pkts -> [val : Nat, epoch : Nat]]
  /\ \A p \in Pkts : /\ at[p].epoch <= epoch
                     /\ at[p].epoch = epoch => at[p].val <= now + offset

(* An answer holds the values of the packets that hold the latches still.  *)
OfSkb(s) == \A j \in DOMAIN s : s[j].of = skb[s[j].latch]
OfInv == caps => OfSkb(mbx.todo) /\ \A k \in DOMAIN replies : OfSkb(replies[k])

(* Remainders                                                              *)
LEMMA ModUnique ==
  ASSUME NEW n \in Nat \ {0}, NEW q \in Int, NEW r \in 0 .. n - 1
  PROVE  (n * q + r) % n = r
OBVIOUS

LEMMA ModQuot ==
  ASSUME NEW n \in Nat \ {0}, NEW x \in Int
  PROVE  /\ x = n * (x \div n) + (x % n) /\ x \div n \in Int
         /\ x % n \in 0 .. n - 1
OBVIOUS

(* The distance of two numbers is that of their remainders.                *)
LEMMA ModApart ==
  ASSUME NEW n \in Nat \ {0}, NEW a \in Nat, NEW b \in Nat, b <= a, a - b < n
  PROVE  ((a % n) + n - (b % n)) % n = a - b
<1> DEFINE qa == a \div n
           ra == a % n
           qb == b \div n
           rb == b % n
           d  == a - b
           q  == qb - qa + 1
<1>1. a = n * qa + ra /\ qa \in Int /\ ra \in 0 .. n - 1
  BY ModQuot
<1>2. b = n * qb + rb /\ qb \in Int /\ rb \in 0 .. n - 1
  BY ModQuot
<1>3. d \in 0 .. n - 1
  OBVIOUS
<1> HIDE DEF qa, ra, qb, rb
<1>4. d = n * qa + ra - (n * qb + rb)
  BY <1>1, <1>2
<1>5. q \in Int
  BY <1>1, <1>2
<1>6. n * q = n * qb - n * qa + n
  BY <1>1, <1>2
<1>7. ra + n - rb = n * q + d
  BY <1>1, <1>2, <1>4, <1>6
<1> HIDE DEF q, d
<1>8. (n * q + d) % n = d
  BY <1>3, <1>5, ModUnique
<1>9. (ra + n - rb) % n = d
  BY <1>7, <1>8
<1> QED
  BY <1>9 DEF ra, rb, d

(* A time within half a wrap of the cached one is extended to itself       *)
(* (idpf_ptp_tstamp_extend_32b_to_64b).                                    *)
LEMMA ExtendIs ==
  ASSUME NEW c \in Nat, NEW t \in Nat,
         c <= t + Wrap \div 2, t - c < Wrap \div 2
  PROVE  ExtendTstamp(c, t % Wrap) = t
<1> DEFINE half == Wrap \div 2
           lo == t % Wrap
           cl == c % Wrap
           delta   == (lo + Wrap - cl) % Wrap
           reverse == (cl + Wrap - lo) % Wrap
<1>1. Wrap \in Nat \ {0} /\ Wrap % 2 = 0
  BY ClockAssumption
<1>2. half \in Nat /\ Wrap = half + half /\ half > 0
  BY <1>1
<1>3. ExtendTstamp(c, lo) = IF delta > half - 1 THEN c - reverse ELSE c + delta
  BY DEF ExtendTstamp
<1>4. CASE c <= t
  <2>1. t - c < Wrap
    BY <1>2, <1>4
  <2>2. delta = t - c
    <3>1. ((t % Wrap) + Wrap - (c % Wrap)) % Wrap = t - c
      <4> HIDE DEF half, lo, cl, delta, reverse
      <4> QED BY <1>1, <1>4, <2>1, ModApart
    <3> QED BY <3>1
  <2> HIDE DEF delta, reverse, lo, cl
  <2>3. ~ (delta > half - 1) /\ c + delta = t
    BY <1>2, <1>4, <2>2
  <2> QED
    BY <1>3, <2>3 DEF lo
<1>5. CASE t < c
  <2>1. c - t < Wrap /\ c - t > 0
    BY <1>2, <1>5
  <2>2. reverse = c - t
    <3>1. ((c % Wrap) + Wrap - (t % Wrap)) % Wrap = c - t
      <4>1. t <= c /\ c - t < Wrap
        BY <1>5, <2>1
      <4> HIDE DEF half, lo, cl, delta, reverse
      <4> QED BY <1>1, <4>1, ModApart
    <3> QED BY <3>1
  <2>3. delta = Wrap - (c - t)
    <3> DEFINE e == t + Wrap
    <3>1. e \in Nat /\ c <= e /\ e - c < Wrap /\ e - c = Wrap - (c - t)
      BY <1>1, <1>2, <1>5, <2>1
    <3>2. e % Wrap = t % Wrap
      <4>1. /\ t = Wrap * (t \div Wrap) + lo /\ t \div Wrap \in Int
            /\ lo \in 0 .. Wrap - 1
        BY <1>1, ModQuot
      <4> HIDE DEF lo
      <4> DEFINE q == (t \div Wrap) + 1
      <4>2. q \in Int /\ Wrap * q = Wrap * (t \div Wrap) + Wrap
        BY <1>1, <4>1
      <4>3. e = Wrap * q + lo
        BY <1>1, <4>1, <4>2
      <4> HIDE DEF q, e
      <4>4. (Wrap * q + lo) % Wrap = lo
        BY <1>1, <4>1, <4>2, ModUnique
      <4> QED
        BY <4>3, <4>4 DEF lo
    <3> HIDE DEF e
    <3>3. ((e % Wrap) + Wrap - cl) % Wrap = e - c
      BY <1>1, <3>1, ModApart
    <3> QED
      BY <3>1, <3>2, <3>3
  <2> HIDE DEF delta, reverse, lo, cl
  <2>4. delta > half - 1 /\ c - reverse = t
    BY <1>1, <1>2, <1>5, <2>1, <2>2, <2>3
  <2> QED
    BY <1>3, <2>4 DEF lo
<1> QED
  BY <1>4, <1>5

(* The clock stays as it is but for the steps that are about it.           *)
LEMMA ClockElse == [Next]_vars => ClockStep \/ (UNCHANGED time)
<1>1. ASSUME NEW p \in Pkts, RequestTs(p) \/ DevSend(p) \/ ReadTstamp(p)
      PROVE  UNCHANGED clock
  BY <1>1 DEF RequestTs, DevSend, ReadTstamp
<1>2. QueuesDown \/ QueuesUp \/ Release \/ DevAnswer => UNCHANGED clock
  BY DEF QueuesDown, QueuesUp, Release, DevAnswer
<1>3. Driver => MbxAge \/ (UNCHANGED clock) \/ (UNCHANGED time)
  BY DEF Driver, WorkStart, WorkLock, WorkWalk, WorkUnlock, WorkSend, MbxLook,
         MbxLock, MbxLatch, MbxUnlock
<1>4. UNCHANGED vars => UNCHANGED clock
  BY DEF vars
<1>5. UNCHANGED clock => UNCHANGED time
  BY DEF clock, time
<1> QED
  BY <1>1, <1>2, <1>3, <1>4, <1>5 DEF Next, ClockStep

(* An update that was slow is remembered.                                  *)
LEMMA SlowStays == [Next]_vars /\ ~ slow' => ~ slow
<1>1. Tick /\ ~ slow' => ~ slow
  BY Zenon DEF Tick
<1>2. ClockStep => Tick \/ (UNCHANGED slow)
  BY DEF ClockStep, Settime, ReadClock, StoreTime, StoreJiffies, MbxAge, time
<1>3. [Next]_vars => Tick \/ (UNCHANGED slow)
  BY <1>2, ClockElse DEF time
<1> QED
  BY <1>1, <1>3, Zenon

(* What is known of the clock and the threads that cache it                *)
ClockTyped ==
  /\ now \in Nat /\ offset \in Nat /\ epoch \in Nat
  /\ cache \in [val : Nat, epoch : Nat, jiffies : Nat]
  /\ upd \in [Updaters -> [pc : {"idle", "read", "write", "stamp"},
                           read : [val : Nat, epoch : Nat], at : Nat]]

(* No step makes the cached value older than two reads and its age.        *)
LEMMA AgeKept == IInv /\ AgeInv /\ [Next]_vars /\ ~ slow' => AgeInv'
<1> SUFFICES ASSUME IInv, AgeInv, [Next]_vars, ~ slow' PROVE AgeInv'
  OBVIOUS
<1>1. ClockTyped
  BY DEF ClockTyped, IInv, TypeInv, RangeOK
<1>2. MaxRead \in Nat /\ Jump \in Nat
  BY ClockAssumption
<1>3. CASE MbxAge \/ UNCHANGED time
  BY <1>3 DEF AgeInv, MbxAge, time
<1>4. CASE Tick
  <2>1. now' = now + 1 /\ UNCHANGED <<offset, epoch, cache, upd>>
    BY <1>4 DEF Tick
  <2>2. \A u \in Updaters : upd[u].pc \in {"write", "stamp"} =>
          now' <= upd[u].at + MaxRead
    <3>1. \A u \in Updaters : upd[u].pc \in {"write", "stamp"} =>
            ~ (now' > upd[u].at + MaxRead)
      BY <1>4, Zenon DEF Tick
    <3> QED
      BY <1>1, <1>2, <2>1, <3>1 DEF ClockTyped
  <2> QED
    BY <1>1, <1>2, <2>1, <2>2 DEF AgeInv, ClockTyped
<1>5. CASE Settime
  <2>1. /\ offset' = offset + Jump /\ epoch' = epoch + 1 /\ UNCHANGED <<now, cache>>
        /\ upd' = [upd EXCEPT !["user"].pc = "read"]
    BY <1>5 DEF Settime, Pc
  <2>2. \A u \in Updaters : upd'[u].pc \in {"write", "stamp"} => upd'[u] = upd[u]
    BY <1>1, <2>1 DEF ClockTyped
  <2>3. cache.epoch # epoch' /\ cache.epoch <= epoch'
    BY <1>1, <2>1 DEF AgeInv, ClockTyped
  <2>4. \A u \in Updaters : upd[u].pc = "write" =>
          upd[u].read.epoch <= epoch' /\ upd[u].read.epoch # epoch'
    BY <1>1, <2>1 DEF AgeInv, ClockTyped
  <2> QED
    BY <2>1, <2>2, <2>3, <2>4 DEF AgeInv
<1>6. ASSUME NEW u \in Updaters, ReadClock(u) PROVE AgeInv'
  <2>1. /\ UNCHANGED <<now, offset, epoch, cache>>
        /\ upd' = [upd EXCEPT ![u] = [pc |-> "write", at |-> now,
                     read |-> [val |-> now + offset, epoch |-> epoch]]]
    BY <1>6 DEF ReadClock, Clock
  <2>2. \A w \in Updaters : upd'[w] = IF w = u
          THEN [pc |-> "write", at |-> now,
                read |-> [val |-> now + offset, epoch |-> epoch]] ELSE upd[w]
    BY <1>1, <2>1 DEF ClockTyped
  <2> QED
    BY <1>1, <1>2, <2>1, <2>2 DEF AgeInv, ClockTyped
<1>7. ASSUME NEW u \in Updaters, StoreTime(u) PROVE AgeInv'
  <2>1. /\ upd[u].pc = "write" /\ UNCHANGED <<now, offset, epoch>>
        /\ cache' = [cache EXCEPT !.val = upd[u].read.val,
                                  !.epoch = upd[u].read.epoch]
        /\ upd' = [upd EXCEPT ![u].pc = "stamp"]
    BY <1>7 DEF StoreTime, Pc
  <2>2. /\ cache'.val = upd[u].read.val /\ cache'.epoch = upd[u].read.epoch
        /\ cache'.jiffies = cache.jiffies
    BY <1>1, <2>1 DEF ClockTyped
  <2>3. \A w \in Updaters : /\ w # u => upd'[w] = upd[w]
                            /\ upd'[w].at = upd[w].at
    BY <1>1, <2>1 DEF ClockTyped
  <2>4. upd'[u].pc = "stamp"
    BY <1>1, <2>1 DEF ClockTyped
  <2>5. /\ upd[u].at \in Nat /\ upd[u].at <= now /\ now <= upd[u].at + MaxRead
        /\ upd[u].read.epoch <= epoch
        /\ upd[u].read.epoch = epoch => upd[u].read.val = upd[u].at + offset
    BY <1>1, <2>1 DEF AgeInv, ClockTyped
  <2>6. cache.jiffies \in Nat /\ cache.jiffies <= now
    BY <1>1 DEF AgeInv, ClockTyped
  <2>7. now \in Nat /\ offset \in Nat /\ epoch \in Nat
    BY <1>1 DEF ClockTyped
  <2>8. cache'.jiffies <= now' /\ cache'.epoch <= epoch'
    BY <2>1, <2>2, <2>5, <2>6
  <2>9. ASSUME cache'.epoch = epoch'
        PROVE  /\ cache'.val <= now' + offset'
               /\ cache'.jiffies + offset' <= cache'.val + 2 * MaxRead
    BY <1>2, <2>1, <2>2, <2>5, <2>6, <2>7, <2>9
  <2>10. ASSUME NEW w \in Updaters, upd'[w].pc \in {"write", "stamp"}
         PROVE  /\ upd'[w].at <= now' /\ now' <= upd'[w].at + MaxRead
                /\ upd'[w].pc = "write" =>
                     /\ upd'[w].read.epoch <= epoch'
                     /\ upd'[w].read.epoch = epoch' =>
                          upd'[w].read.val = upd'[w].at + offset'
                /\ upd'[w].pc = "stamp" /\ cache'.epoch = epoch' =>
                     upd'[w].at + offset' <= cache'.val + MaxRead
    <3>1. upd[w].at \in Nat
      BY <1>1 DEF ClockTyped
    <3>2. upd[w].at <= now /\ now <= upd[w].at + MaxRead
      BY <2>1, <2>3, <2>10 DEF AgeInv
    <3>3. cache'.epoch = epoch' => upd'[w].at + offset' <= cache'.val + MaxRead
      BY <1>2, <2>1, <2>2, <2>3, <2>5, <2>7, <3>1, <3>2
    <3>4. upd'[w].pc = "write" => w # u
      BY <2>4
    <3> QED
      BY <2>1, <2>3, <2>10, <3>2, <3>3, <3>4 DEF AgeInv
  <2> QED
    BY <2>8, <2>9, <2>10 DEF AgeInv
<1>8. ASSUME NEW u \in Updaters, StoreJiffies(u) PROVE AgeInv'
  <2>1. /\ upd[u].pc = "stamp" /\ UNCHANGED <<now, offset, epoch>>
        /\ cache' = [cache EXCEPT !.jiffies = now]
        /\ upd' = [upd EXCEPT ![u] = [pc |-> "idle", read |-> NoTime, at |-> now]]
    BY <1>8 DEF StoreJiffies
  <2>2. /\ cache'.val = cache.val /\ cache'.epoch = cache.epoch
        /\ cache'.jiffies = now
    BY <1>1, <2>1 DEF ClockTyped
  <2>3. \A w \in Updaters : upd'[w].pc \in {"write", "stamp"} => upd'[w] = upd[w]
    BY <1>1, <2>1 DEF ClockTyped
  <2>4. /\ upd[u].at \in Nat /\ now <= upd[u].at + MaxRead
        /\ cache.epoch = epoch => upd[u].at + offset <= cache.val + MaxRead
    BY <1>1, <2>1 DEF AgeInv, ClockTyped
  <2>5. now \in Nat /\ offset \in Nat /\ cache.val \in Nat
    BY <1>1 DEF ClockTyped
  <2>6. cache.epoch = epoch => cache'.jiffies + offset' <= cache'.val + 2 * MaxRead
    BY <1>2, <2>1, <2>2, <2>4, <2>5
  <2>7. cache'.jiffies <= now'
    BY <2>1, <2>2, <2>5
  <2> QED
    BY <2>1, <2>2, <2>3, <2>6, <2>7 DEF AgeInv
<1> QED
  BY <1>3, <1>4, <1>5, <1>6, <1>7, <1>8, ClockElse DEF ClockStep

(* No step dates a stamp in the future.                                    *)
LEMMA StampKept == IInv /\ StampInv /\ [Next]_vars => StampInv'
<1> SUFFICES ASSUME IInv, StampInv, [Next]_vars PROVE StampInv'
  OBVIOUS
<1>1. /\ now \in Nat /\ offset \in Nat /\ epoch \in Nat /\ Jump \in Nat
      /\ at \in [Pkts -> [val : Nat, epoch : Nat]]
  BY ClockAssumption DEF IInv, TypeInv, RangeOK, StampInv
<1>2. /\ \E c \in Nat : c = now' + offset' /\ c >= now + offset
      /\ \E e \in Nat : e = epoch' /\ e >= epoch
  <2>1. CASE MbxAge \/ UNCHANGED time
    <3>1. UNCHANGED <<now, offset, epoch>>
      BY <2>1 DEF MbxAge, time
    <3> QED
      BY <1>1, <3>1
  <2>2. CASE Tick
    BY <1>1, <2>2 DEF Tick
  <2>3. CASE Settime
    BY <1>1, <2>3 DEF Settime
  <2>4. ASSUME NEW u \in Updaters, ReadClock(u) \/ StoreTime(u) \/ StoreJiffies(u)
        PROVE  UNCHANGED <<now, offset, epoch>>
    BY <2>4 DEF ReadClock, StoreTime, StoreJiffies
  <2> QED
    BY <1>1, <2>1, <2>2, <2>3, <2>4, ClockElse DEF ClockStep
<1>3. ASSUME UNCHANGED at PROVE StampInv'
  <2>1. PICK c \in Nat : c = now' + offset' /\ c >= now + offset
    BY <1>2
  <2>2. PICK e \in Nat : e = epoch' /\ e >= epoch
    BY <1>2
  <2>3. c >= now + offset /\ e >= epoch
    BY <2>1, <2>2
  <2>4. ASSUME NEW p \in Pkts
        PROVE  at[p].epoch <= e /\ (at[p].epoch = e => at[p].val <= c)
    <3>1. /\ at[p].epoch \in Nat /\ at[p].val \in Nat /\ at[p].epoch <= epoch
          /\ at[p].epoch = epoch => at[p].val <= now + offset
      BY <1>1 DEF StampInv
    <3> QED
      BY <1>1, <2>3, <3>1
  <2> QED
    BY <1>1, <1>3, <2>1, <2>2, <2>4 DEF StampInv
<1>4. ASSUME NEW p \in Pkts, at' = [at EXCEPT ![p] = [val |-> Clock, epoch |-> epoch]],
             UNCHANGED time
      PROVE  StampInv'
  <2>1. [val |-> Clock, epoch |-> epoch] \in [val : Nat, epoch : Nat]
    BY <1>1 DEF Clock
  <2>2. at' \in [Pkts -> [val : Nat, epoch : Nat]]
    BY <1>1, <1>4, <2>1
  <2>3. \A q \in Pkts : at'[q] = IF q = p THEN [val |-> now + offset, epoch |-> epoch]
                                        ELSE at[q]
    BY <1>1, <1>4 DEF Clock
  <2> QED
    BY <1>1, <1>4, <2>2, <2>3 DEF StampInv, time
<1>5. ASSUME NEW P \in SUBSET Pkts, UNCHANGED time,
             at' = [q \in Pkts |-> IF q \in P THEN NoTime ELSE at[q]]
      PROVE  StampInv'
  <2>1. NoTime \in [val : Nat, epoch : Nat] /\ NoTime.val = 0 /\ NoTime.epoch = 0
    BY DEF NoTime
  <2> QED
    BY <1>1, <1>5, <2>1 DEF StampInv, time
<1>6. ASSUME NEW p \in Pkts, DevSend(p) PROVE StampInv'
  BY <1>4, <1>6 DEF DevSend, clock, time
<1>7. CASE QueuesDown
  <2> DEFINE gone == {p \in Pkts : pkt[p] \in {"ring", "air"}}
  <2>1. at' = [q \in Pkts |-> IF q \in gone THEN NoTime ELSE at[q]] /\ UNCHANGED time
    BY <1>7 DEF QueuesDown, clock, time
  <2>2. gone \in SUBSET Pkts
    OBVIOUS
  <2> HIDE DEF gone
  <2> QED
    BY <1>5, <2>1, <2>2
<1>8. CASE MbxLatch
  <2>1. UNCHANGED time
    BY <1>8 DEF MbxLatch
  <2>2. UNCHANGED at \/ \E q : at' = [at EXCEPT ![q] = NoTime]
    BY <1>8 DEF MbxLatch, TstampOf
  <2>3. ASSUME NEW q, at' = [at EXCEPT ![q] = NoTime]
        PROVE  at' = [r \in Pkts |-> IF r \in Pkts \cap {q} THEN NoTime ELSE at[r]]
    BY <1>1, <2>3
  <2>4. \A q : Pkts \cap {q} \in SUBSET Pkts
    OBVIOUS
  <2> QED
    BY <1>3, <1>5, <2>1, <2>2, <2>3, <2>4
<1>9. ASSUME NEW p \in Pkts, RequestTs(p) \/ ReadTstamp(p) PROVE UNCHANGED at
  BY <1>9 DEF RequestTs, ReadTstamp
<1>10. ClockStep => UNCHANGED at
  BY DEF ClockStep, Tick, Settime, ReadClock, StoreTime, StoreJiffies, MbxAge
<1>11. QueuesUp \/ Release \/ DevAnswer => UNCHANGED at
  BY DEF QueuesUp, Release, DevAnswer
<1>12. /\ WorkStart \/ WorkLock \/ WorkWalk \/ WorkUnlock \/ WorkSend => UNCHANGED at
       /\ MbxLook \/ MbxLock \/ MbxUnlock => UNCHANGED at
  BY DEF WorkStart, WorkLock, WorkWalk, WorkUnlock, WorkSend, MbxLook, MbxLock,
         MbxUnlock
<1>13. UNCHANGED vars => UNCHANGED at
  BY DEF vars
<1> QED
  BY <1>3, <1>6, <1>7, <1>8, <1>9, <1>10, <1>11, <1>12, <1>13
     DEF Next, Driver, ClockStep

(* The latches of an answer are being read and hold a cleaned packet.      *)
LEMMA AnswerReads ==
  ASSUME IInv, caps
  PROVE  /\ \A j \in DOMAIN mbx.todo : /\ mbx.todo[j].latch \in InMbx
                                       /\ mbx.todo[j].latch \in Latches
         /\ \A k \in DOMAIN replies : \A j \in DOMAIN replies[k] :
              /\ replies[k][j].latch \in InReplies
              /\ replies[k][j].latch \in Latches
         /\ \A i \in InMsgs \cup InReplies \cup InMbx :
              Reading(i) /\ hw[i] = skb[i]
<1>1. /\ OnceInv
      /\ \A i \in InWork \cup InMsgs \cup InReplies \cup InMbx : Reading(i)
  BY DEF IInv, AskInv
<1>2. /\ mbx.todo \in Seq(Reply) /\ replies \in Seq(Seq(Reply))
      /\ \A k \in DOMAIN replies : replies[k] \in Seq(Reply)
  BY Types, LenProperties DEF IInv, TypeInv
<1>3. ASSUME NEW s \in Seq(Reply), NEW j \in DOMAIN s
      PROVE  s[j].latch \in Latches /\ s[j].latch \in ToSet(Answered(s))
  <2>1. s[j] \in Reply
    BY <1>3, LenProperties
  <2>2. j \in DOMAIN Answered(s) /\ Answered(s)[j] = s[j].latch
    BY DEF Answered
  <2> QED
    BY <2>1, <2>2 DEF Reply, ToSet
<1>4. ASSUME NEW k \in DOMAIN replies, NEW j \in DOMAIN replies[k]
      PROVE  replies[k][j].latch \in InReplies /\ replies[k][j].latch \in Latches
  BY <1>2, <1>3, <1>4 DEF InReplies, InAns
<1>5. ASSUME NEW i \in InMsgs \cup InReplies \cup InMbx
      PROVE  Reading(i) /\ hw[i] = skb[i]
  <2>1. i \in Latches
    <3>1. InMbx \subseteq Latches
      BY <1>1, ListIn DEF OnceInv, InMbx
    <3> QED
      BY <3>1 DEF InMsgs, InReplies
  <2>2. Reading(i)
    BY <1>1
  <2>3. PICK t \in Latches : tracker[t].skb = skb[i] /\ tracker[t].state = "READ_VALUE"
    BY <2>2 DEF Reading
  <2>4. skb[i] # NoPkt /\ pkt[skb[i]] = "done"
    BY <2>2, <2>3 DEF IInv, TrackInv, Reading
  <2> QED
    BY <2>1, <2>2, <2>4 DEF IInv, TrackInv
<1>6. \A j \in DOMAIN mbx.todo : mbx.todo[j].latch \in InMbx /\ mbx.todo[j].latch \in Latches
  BY <1>2, <1>3 DEF InMbx
<1> QED
  BY <1>4, <1>5, <1>6

(* Answers keep their packets as long as latches that are read keep them.  *)
LEMMA OfSame ==
  ASSUME IInv, OfInv, caps' = caps, replies' = replies, mbx'.todo = mbx.todo,
         \A j \in Latches : Reading(j) => skb'[j] = skb[j]
  PROVE  OfInv'
<1> SUFFICES ASSUME caps PROVE OfSkb(mbx.todo)' /\ \A k \in DOMAIN replies : OfSkb(replies[k])'
  BY DEF OfInv
<1>1. \A j \in DOMAIN mbx.todo : mbx.todo[j].of = skb[mbx.todo[j].latch]
  BY DEF OfInv, OfSkb
<1>2. \A k \in DOMAIN replies : \A j \in DOMAIN replies[k] :
        replies[k][j].of = skb[replies[k][j].latch]
  BY DEF OfInv, OfSkb
<1>3. \A j \in DOMAIN mbx.todo : mbx'.todo[j].of = skb'[mbx'.todo[j].latch]
  BY <1>1, AnswerReads
<1>4. \A k \in DOMAIN replies : \A j \in DOMAIN replies[k] :
        replies[k][j].of = skb'[replies[k][j].latch]
  BY <1>2, AnswerReads
<1> QED
  BY <1>3, <1>4 DEF OfSkb

(* A latch that is read is kept by all steps but the mailbox task's and    *)
(* the release.                                                            *)
LEMMA OfKept == IInv /\ OfInv /\ [Next]_vars => OfInv'
<1> SUFFICES ASSUME IInv, OfInv, [Next]_vars PROVE OfInv'
  OBVIOUS
<1>1. CASE ClockStep \/ UNCHANGED vars
  BY <1>1, ClockOnly, OfSame DEF LatchVars
<1>2. ASSUME NEW p \in Pkts, RequestTs(p) PROVE OfInv'
  <2>1. UNCHANGED <<caps, replies, mbx>>
    BY <1>2, RequestIs
  <2>2. ASSUME NEW j \in Latches, skb[j] # NoPkt PROVE skb'[j] = skb[j]
    <3>1. j \notin ToSet(free)
      BY <2>2 DEF IInv, HoldInv, ListInv
    <3> QED
      BY <1>2, <3>1, RequestIs, Types
  <2> QED
    BY <2>1, <2>2, OfSame DEF Reading
<1>3. ASSUME NEW p \in Pkts, DevSend(p) \/ ReadTstamp(p) PROVE OfInv'
  <2>1. UNCHANGED <<caps, replies, mbx, skb>>
    BY <1>3 DEF DevSend, ReadTstamp, lists, chan
  <2> QED
    BY <2>1, OfSame
<1>4. CASE QueuesDown \/ QueuesUp
  <2>1. UNCHANGED <<caps, replies, mbx, skb>>
    BY <1>4 DEF QueuesDown, QueuesUp, lists, chan
  <2> QED
    BY <2>1, OfSame
<1>5. CASE Release
  BY <1>5 DEF Release, OfInv
<1>6. CASE WorkStart \/ WorkLock \/ WorkWalk \/ WorkUnlock \/ WorkSend
  <2>1. UNCHANGED <<caps, replies, mbx, skb>>
    BY <1>6 DEF WorkStart, WorkLock, WorkWalk, WorkUnlock, WorkSend, lists, chan
  <2> QED
    BY <2>1, OfSame
<1>7. CASE MbxLook
  <2>1. /\ replies # <<>> /\ replies' = Tail(replies) /\ UNCHANGED <<caps, skb>>
        /\ caps => mbx'.todo = Head(replies)
    BY <1>7 DEF MbxLook, lists
  <2>2. replies \in Seq(Seq(Reply))
    BY DEF IInv, TypeInv
  <2>3. /\ 1 \in DOMAIN replies /\ Head(replies) = replies[1]
        /\ \A k \in DOMAIN Tail(replies) :
             k + 1 \in DOMAIN replies /\ Tail(replies)[k] = replies[k + 1]
    BY <2>1, <2>2
  <2>4. OfSkb(mbx.todo)' <=> OfSkb(mbx'.todo)
    BY <2>1 DEF OfSkb
  <2>5. ASSUME caps
        PROVE  OfSkb(mbx'.todo) /\ \A k \in DOMAIN replies' : OfSkb(replies'[k])
    BY <2>1, <2>3, <2>5 DEF OfInv
  <2> QED
    BY <2>1, <2>5 DEF OfInv, OfSkb
<1>8. CASE MbxLock
  <2>1. /\ UNCHANGED <<caps, replies, skb>>
        /\ caps => mbx'.todo = mbx.todo
    BY <1>8, Types DEF MbxLock, chan
  <2> QED
    BY <2>1, OfSame DEF OfInv
<1>9. CASE MbxUnlock
  <2>1. UNCHANGED <<caps, replies, skb>> /\ mbx'.todo = mbx.todo
    BY <1>9, Types DEF MbxUnlock, chan
  <2> QED
    BY <2>1, OfSame
<1>10. CASE MbxLatch
  <2>1. /\ caps /\ mbx.todo # <<>> /\ mbx'.todo = Tail(mbx.todo)
        /\ UNCHANGED <<caps, replies>>
        /\ \A j \in Latches : j # Head(mbx.todo).latch => skb'[j] = skb[j]
    BY <1>10, LatchIs, Types
  <2>2. mbx.todo \in Seq(Reply) /\ Answered(mbx.todo) \in List(Latches)
    BY <2>1 DEF IInv, TypeInv, AskInv, OnceInv
  <2>3. /\ Head(mbx.todo) = mbx.todo[1] /\ 1 \in DOMAIN mbx.todo
        /\ \A k \in DOMAIN Tail(mbx.todo) :
             /\ k + 1 \in DOMAIN mbx.todo /\ k + 1 # 1
             /\ Tail(mbx.todo)[k] = mbx.todo[k + 1]
    BY <2>1, <2>2
  <2>4. \A j, k \in DOMAIN mbx.todo :
          mbx.todo[j].latch = mbx.todo[k].latch => j = k
    BY <2>2 DEF Answered, List
  <2>5. ASSUME NEW k \in DOMAIN Tail(mbx.todo)
        PROVE  /\ Tail(mbx.todo)[k].of = skb[Tail(mbx.todo)[k].latch]
               /\ Tail(mbx.todo)[k].latch \in Latches
               /\ Tail(mbx.todo)[k].latch # Head(mbx.todo).latch
    <3>1. mbx.todo[k + 1].of = skb[mbx.todo[k + 1].latch]
      BY <2>1, <2>3 DEF OfInv, OfSkb
    <3>2. mbx.todo[k + 1].latch # mbx.todo[1].latch
      BY <2>3, <2>4
    <3>3. mbx.todo[k + 1].latch \in Latches
      BY <2>1, <2>3, AnswerReads
    <3> QED
      BY <2>3, <3>1, <3>2, <3>3
  <2>6. ASSUME NEW k \in DOMAIN replies, NEW j \in DOMAIN replies[k]
        PROVE  /\ replies[k][j].of = skb[replies[k][j].latch]
               /\ replies[k][j].latch \in Latches
               /\ replies[k][j].latch # Head(mbx.todo).latch
    <3>1. replies[k][j].latch \in InReplies /\ Head(mbx.todo).latch \in InMbx
      BY <2>1, <2>3, AnswerReads
    <3>2. InReplies \cap InMbx = {}
      BY <2>1 DEF IInv, AskInv, OnceInv
    <3> QED
      BY <2>1, <3>1, <3>2, AnswerReads DEF OfInv, OfSkb
  <2>7. \A k \in DOMAIN Tail(mbx.todo) :
          Tail(mbx.todo)[k].of = skb'[Tail(mbx.todo)[k].latch]
    BY <2>1, <2>5
  <2>8. \A k \in DOMAIN replies : \A j \in DOMAIN replies[k] :
          replies[k][j].of = skb'[replies[k][j].latch]
    BY <2>1, <2>6
  <2> QED
    BY <2>1, <2>7, <2>8 DEF OfInv, OfSkb
<1>11. CASE DevAnswer
  <2> DEFINE m == Head(msgs)
  <2>1. /\ msgs # <<>> /\ UNCHANGED <<caps, skb, mbx>>
        /\ \E valid \in BOOLEAN : replies' = Append(replies,
             [k \in DOMAIN m |-> [latch |-> m[k], of |-> hw[m[k]], valid |-> valid]])
    BY <1>11 DEF DevAnswer, lists
  <2>2. msgs \in Seq(Seq(Latches)) /\ replies \in Seq(Seq(Reply))
    BY DEF IInv, TypeInv
  <2>3. 1 \in DOMAIN msgs /\ m = msgs[1]
    BY <2>1, <2>2
  <2>4. ASSUME caps, NEW k \in DOMAIN m PROVE hw[m[k]] = skb[m[k]]
    <3>1. m[k] \in InMsg(1)
      BY <2>3 DEF InMsg, ToSet
    <3>2. m[k] \in Latches
      <4>1. msgs[1] \in Seq(Latches)
        BY <2>2, <2>3
      <4> QED
        BY <2>3, <4>1
    <3>3. m[k] \in InMsgs
      BY <2>3, <3>1, <3>2 DEF InMsgs
    <3> QED
      BY <2>4, <3>3, AnswerReads
  <2> HIDE DEF m
  <2>5. PICK valid \in BOOLEAN : replies' = Append(replies,
             [k \in DOMAIN m |-> [latch |-> m[k], of |-> hw[m[k]], valid |-> valid]])
    BY <2>1
  <2> DEFINE a == [k \in DOMAIN m |-> [latch |-> m[k], of |-> hw[m[k]], valid |-> valid]]
  <2>6. ASSUME caps PROVE \A j \in DOMAIN a : a[j].of = skb[a[j].latch]
    BY <2>4, <2>6
  <2> HIDE DEF a
  <2>7. /\ replies' = Append(replies, a)
        /\ \A k \in DOMAIN replies' :
             (k \in DOMAIN replies /\ replies'[k] = replies[k]) \/ replies'[k] = a
    <3>1. replies' = Append(replies, a)
      BY <2>5 DEF a
    <3> QED
      BY <2>2, <3>1
  <2>8. ASSUME caps, NEW k \in DOMAIN replies'
        PROVE  \A j \in DOMAIN replies'[k] : replies'[k][j].of = skb[replies'[k][j].latch]
    BY <2>6, <2>7, <2>8 DEF OfInv, OfSkb
  <2> QED
    BY <2>1, <2>8 DEF OfInv, OfSkb
<1> QED
  BY <1>1, <1>2, <1>3, <1>4, <1>5, <1>6, <1>7, <1>8, <1>9, <1>10, <1>11
     DEF Next, Driver, ClockStep

(* A cached value that was found young is not much older than the stamp of *)
(* the next latch, whatever is stored in between.                          *)
YoungInv ==
  (aged = "young" /\ cache.epoch = epoch) =>
    \A p \in Pkts : (p = skb[Head(mbx.todo).latch] /\ at[p].epoch = epoch) =>
                      at[p].val <= cache.val + Discard + 2 * MaxRead

(* While it is known, nobody else touches the answer, its latches and the  *)
(* stamp of the next one.                                                  *)
LEMMA AnswerKept ==
  ASSUME IInv, FlagInv, [Next]_vars, aged # "no", ~ MbxLatch, NEW p \in Pkts,
         p = skb[Head(mbx.todo).latch]
  PROVE  UNCHANGED <<mbx, skb, aged>> /\ at'[p] = at[p]
<1>1. /\ mbx.pc = "walk" /\ mbx.todo # <<>> /\ lock = "mbx" /\ caps
      /\ at \in [Pkts -> [val : Nat, epoch : Nat]] => at[p] \in [val : Nat, epoch : Nat]
  BY DEF FlagInv, IInv, WorkInv
<1>2. pkt[p] = "done"
  <2>1. mbx.todo \in Seq(Reply) /\ 1 \in DOMAIN mbx.todo /\ Head(mbx.todo) = mbx.todo[1]
    BY <1>1 DEF IInv, TypeInv
  <2>2. Reading(Head(mbx.todo).latch)
    BY <1>1, <2>1, AnswerReads
  <2> QED
    BY <2>2 DEF Reading, IInv, TrackInv
<1>3. CASE ClockStep \/ UNCHANGED vars
  <2>1. ~ MbxAge
    BY DEF MbxAge
  <2>2. UNCHANGED <<aged, at>>
    BY <1>3, <2>1 DEF ClockStep, Tick, Settime, ReadClock, StoreTime, StoreJiffies,
       vars, clock
  <2> QED
    BY <1>3, <2>2, ClockOnly DEF LatchVars
<1>4. ASSUME NEW q \in Pkts, RequestTs(q) \/ DevSend(q) \/ ReadTstamp(q)
      PROVE  UNCHANGED <<mbx, skb, aged>> /\ at'[p] = at[p]
  <2>1. ~ RequestTs(q)
    BY <1>1 DEF RequestTs
  <2>2. CASE DevSend(q)
    <3>1. q # p
      BY <1>2, <2>2 DEF DevSend
    <3> QED
      BY <2>2, <3>1 DEF DevSend, lists, clock
  <2>3. CASE ReadTstamp(q)
    BY <2>3 DEF ReadTstamp, lists, clock
  <2> QED
    BY <1>4, <2>1, <2>2, <2>3
<1>5. CASE QueuesDown
  BY <1>2, <1>5 DEF QueuesDown, lists, clock
<1>6. CASE QueuesUp \/ DevAnswer
  BY <1>6 DEF QueuesUp, DevAnswer, lists, clock
<1>7. CASE WorkStart \/ WorkLock \/ WorkWalk \/ WorkUnlock \/ WorkSend
  BY <1>7 DEF WorkStart, WorkLock, WorkWalk, WorkUnlock, WorkSend, lists, clock
<1>8. ~ (Release \/ MbxLook \/ MbxLock \/ MbxUnlock \/ MbxAge)
  BY <1>1 DEF Release, MbxLook, MbxLock, MbxUnlock, MbxAge
<1> QED
  BY <1>3, <1>4, <1>5, <1>6, <1>7, <1>8 DEF Next, Driver, ClockStep

(* A look finds it young enough, and a store makes it younger.             *)
LEMMA YoungKept ==
  ASSUME IInv, FlagInv, AgeInv, StampInv, YoungInv, [Next]_vars, ~ slow'
  PROVE  YoungInv'
<1>1. ClockTyped
  BY DEF ClockTyped, IInv, TypeInv, RangeOK
<1>2. /\ MaxRead \in Nat /\ Discard \in Nat /\ Jump \in Nat
      /\ \A q \in Pkts : at[q].val \in Nat /\ at[q].epoch \in Nat
  BY ClockAssumption DEF StampInv
<1>3. CASE MbxLatch
  BY <1>3 DEF MbxLatch, YoungInv
<1>4. CASE MbxAge
  <2>1. /\ UNCHANGED <<now, offset, epoch, cache, skb, mbx, at>>
        /\ aged' = "young" => ~ (cache.jiffies + Discard < now)
    BY <1>4 DEF MbxAge, time, lists
  <2>2. ASSUME aged' = "young", cache.epoch = epoch, NEW q \in Pkts,
               at[q].epoch = epoch
        PROVE  at[q].val <= cache.val + Discard + 2 * MaxRead
    <3>1. /\ at[q].val <= now + offset
          /\ cache.jiffies + offset <= cache.val + 2 * MaxRead
      BY <2>2 DEF AgeInv, StampInv
    <3>2. now <= cache.jiffies + Discard
      BY <1>1, <1>2, <2>1, <2>2 DEF ClockTyped
    <3>3. /\ now \in Nat /\ offset \in Nat /\ cache.val \in Nat
          /\ cache.jiffies \in Nat /\ at[q].val \in Nat
      BY <1>1, <1>2 DEF ClockTyped
    <3> QED
      BY <1>2, <3>1, <3>2, <3>3
  <2> QED
    BY <2>1, <2>2 DEF YoungInv
<1>5. ASSUME aged' = "young", cache'.epoch = epoch', ~ MbxLatch, ~ MbxAge,
             NEW q \in Pkts, q = skb'[Head(mbx'.todo).latch], at'[q].epoch = epoch'
      PROVE  at'[q].val <= cache'.val + Discard + 2 * MaxRead
  <2>1. aged = "young"
    <3>1. CASE aged = "no"
      <4>1. UNCHANGED aged
        <5>1. ASSUME NEW p \in Pkts, RequestTs(p) \/ DevSend(p) \/ ReadTstamp(p)
              PROVE  UNCHANGED aged
          BY <5>1 DEF RequestTs, DevSend, ReadTstamp, clock
        <5>2. QueuesDown \/ QueuesUp \/ Release \/ DevAnswer => UNCHANGED aged
          BY DEF QueuesDown, QueuesUp, Release, DevAnswer, clock
        <5>3. Driver => UNCHANGED aged
          BY <1>5 DEF Driver, WorkStart, WorkLock, WorkWalk, WorkUnlock, WorkSend,
             MbxLook, MbxLock, MbxUnlock, clock
        <5>4. ClockStep => UNCHANGED aged
          BY <1>5 DEF ClockStep, Tick, Settime, ReadClock, StoreTime, StoreJiffies
        <5>5. UNCHANGED vars => UNCHANGED aged
          BY DEF vars, clock
        <5> QED
          BY <5>1, <5>2, <5>3, <5>4, <5>5 DEF Next, ClockStep
      <4> QED
        BY <1>5, <3>1, <4>1
    <3>2. CASE aged # "no"
      <4>1. \A p \in Pkts : p = skb[Head(mbx.todo).latch] => UNCHANGED aged
        BY <1>5, <3>2, AnswerKept
      <4>2. mbx.pc = "walk" /\ mbx.todo # <<>> /\ caps
        BY <3>2 DEF FlagInv, IInv, WorkInv
      <4>3. mbx.todo \in Seq(Reply) /\ 1 \in DOMAIN mbx.todo
            /\ Head(mbx.todo) = mbx.todo[1]
        BY <4>2 DEF IInv, TypeInv
      <4>4. Reading(Head(mbx.todo).latch) /\ Head(mbx.todo).latch \in Latches
        BY <4>2, <4>3, AnswerReads
      <4>5. skb[Head(mbx.todo).latch] \in Pkts
        BY <4>4 DEF Reading, IInv, TypeInv, RangeOK
      <4> QED
        BY <1>5, <4>1, <4>5
    <3> QED
      BY <3>1, <3>2
  <2>2. q = skb[Head(mbx.todo).latch] /\ at'[q] = at[q]
    <3>1. mbx.pc = "walk" /\ mbx.todo # <<>> /\ caps
      BY <2>1 DEF FlagInv, IInv, WorkInv
    <3>2. mbx.todo \in Seq(Reply) /\ 1 \in DOMAIN mbx.todo
          /\ Head(mbx.todo) = mbx.todo[1]
      BY <3>1 DEF IInv, TypeInv
    <3>3. Reading(Head(mbx.todo).latch) /\ Head(mbx.todo).latch \in Latches
      BY <3>1, <3>2, AnswerReads
    <3>4. PICK p \in Pkts : p = skb[Head(mbx.todo).latch]
      BY <3>3 DEF Reading, IInv, TypeInv, RangeOK
    <3>5. UNCHANGED <<mbx, skb>> /\ at'[p] = at[p]
      BY <1>5, <2>1, <3>4, AnswerKept
    <3>6. q = p
      BY <1>5, <3>4, <3>5
    <3> QED
      BY <3>4, <3>5, <3>6
  <2>3. at[q].val \in Nat /\ at[q].epoch \in Nat /\ at[q].epoch <= epoch
        /\ (at[q].epoch = epoch => at[q].val <= now + offset)
    BY <1>2 DEF StampInv
  <2>4. CASE UNCHANGED <<epoch, cache>>
    BY <1>5, <2>1, <2>2, <2>4 DEF YoungInv
  <2>5. CASE Tick \/ UNCHANGED time
    BY <2>4, <2>5 DEF Tick, time
  <2>6. CASE Settime
    <3>1. cache.epoch <= epoch /\ epoch' = epoch + 1 /\ UNCHANGED cache
      BY <2>6 DEF Settime, AgeInv
    <3> QED
      BY <1>1, <1>5, <3>1 DEF ClockTyped
  <2>7. ASSUME NEW u \in Updaters, ReadClock(u)
        PROVE  UNCHANGED <<epoch, cache>>
    BY <2>7 DEF ReadClock
  <2>8. ASSUME NEW u \in Updaters, StoreTime(u)
        PROVE  at'[q].val <= cache'.val + Discard + 2 * MaxRead
    <3>1. /\ upd[u].pc = "write" /\ UNCHANGED epoch
          /\ cache' = [cache EXCEPT !.val = upd[u].read.val,
                                    !.epoch = upd[u].read.epoch]
      BY <2>8 DEF StoreTime
    <3>2. cache'.val = upd[u].read.val /\ cache'.epoch = upd[u].read.epoch
      BY <1>1, <3>1 DEF ClockTyped
    <3>3. /\ now <= upd[u].at + MaxRead
          /\ upd[u].read.epoch = epoch => upd[u].read.val = upd[u].at + offset
      BY <3>1 DEF AgeInv
    <3>4. upd[u].at \in Nat /\ now \in Nat /\ offset \in Nat
      BY <1>1 DEF ClockTyped
    <3>5. at[q].val <= now + offset /\ cache'.val = upd[u].at + offset
      BY <1>5, <2>2, <2>3, <3>1, <3>2, <3>3
    <3> QED
      BY <1>2, <2>2, <2>3, <3>3, <3>4, <3>5
  <2>9. ASSUME NEW u \in Updaters, StoreJiffies(u)
        PROVE  at'[q].val <= cache'.val + Discard + 2 * MaxRead
    <3>1. UNCHANGED epoch /\ cache' = [cache EXCEPT !.jiffies = now]
      BY <2>9 DEF StoreJiffies
    <3>2. cache'.val = cache.val /\ cache'.epoch = cache.epoch
      BY <1>1, <3>1 DEF ClockTyped
    <3> QED
      BY <1>5, <2>1, <2>2, <3>1, <3>2 DEF YoungInv
  <2> QED
    BY <1>5, <2>4, <2>5, <2>6, <2>7, <2>8, <2>9, ClockElse DEF ClockStep
<1> QED
  BY <1>3, <1>4, <1>5 DEF YoungInv

(* What is given to a packet is exact.                                     *)
LEMMA GivenExact ==
  ASSUME IInv, FlagInv, AgeInv, StampInv, OfInv, YoungInv, [Next]_vars,
         NEW p \in Pkts, got'[p] # got[p],
         now + offset <= at[p].val + Wrap \div 2,
         cache.epoch = at[p].epoch, epoch = cache.epoch
  PROVE  got'[p] \in {"zero", "right"}
<1>1. MbxLatch
  <2>1. ClockStep \/ UNCHANGED vars => UNCHANGED got
    BY DEF ClockStep, Tick, Settime, ReadClock, StoreTime, StoreJiffies, MbxAge,
           vars
  <2>2. ASSUME NEW q \in Pkts, RequestTs(q) \/ DevSend(q) \/ ReadTstamp(q)
        PROVE  UNCHANGED got
    BY <2>2 DEF RequestTs, DevSend, ReadTstamp
  <2>3. QueuesDown \/ QueuesUp \/ Release \/ DevAnswer => UNCHANGED got
    BY DEF QueuesDown, QueuesUp, Release, DevAnswer
  <2>4. /\ WorkStart \/ WorkLock \/ WorkWalk \/ WorkUnlock \/ WorkSend => UNCHANGED got
        /\ MbxLook \/ MbxLock \/ MbxUnlock => UNCHANGED got
    BY DEF WorkStart, WorkLock, WorkWalk, WorkUnlock, WorkSend, MbxLook, MbxLock,
           MbxUnlock
  <2> QED
    BY <2>1, <2>2, <2>3, <2>4 DEF Next, Driver, ClockStep
<1> DEFINE r == Head(mbx.todo)
           i == r.latch
<1>2. caps /\ mbx.todo # <<>>
  BY <1>1, LatchIs
<1>3. got' = [got EXCEPT ![skb[i]] = Given(skb[i], TstampValue(r.of))]
  BY <1>1 DEF MbxLatch, TstampOf
<1>4. /\ mbx.todo \in Seq(Reply) /\ 1 \in DOMAIN mbx.todo /\ r = mbx.todo[1]
  BY <1>2 DEF IInv, TypeInv
<1>5. r.of = skb[i]
  BY <1>2, <1>4 DEF OfInv, OfSkb
<1>8. p = skb[i] => p = skb[Head(mbx.todo).latch]
  OBVIOUS
<1> HIDE DEF r, i
<1>6. skb[i] = p /\ got'[p] = Given(p, TstampValue(p))
  BY <1>3, <1>5
<1>7. TstampValue(p) \in {0, at[p].val}
  <2>1. CASE aged = "old"
    BY <2>1 DEF TstampValue
  <2>2. CASE aged = "young"
    <3>1. /\ now \in Nat /\ offset \in Nat /\ cache.val \in Nat
          /\ at[p].val \in Nat
      BY DEF IInv, TypeInv, RangeOK, StampInv
    <3>2. cache.val <= now + offset
      BY DEF AgeInv
    <3>7. at[p].val <= cache.val + Discard + 2 * MaxRead
      BY <1>6, <1>8, <2>2 DEF YoungInv
    <3>3. /\ Discard \in Nat /\ MaxRead \in Nat /\ Wrap \in Nat
          /\ Discard + 2 * MaxRead < Wrap \div 2 /\ Wrap \div 2 \in Nat
      BY ClockAssumption
    <3>4. cache.val <= at[p].val + Wrap \div 2
      BY <3>1, <3>2, <3>3
    <3>5. at[p].val - cache.val < Wrap \div 2
      BY <3>1, <3>3, <3>7
    <3>6. ExtendTstamp(cache.val, at[p].val % Wrap) = at[p].val
      BY <3>1, <3>4, <3>5, ExtendIs
    <3> QED
      BY <2>2, <3>6 DEF TstampValue
  <2>3. aged \in {"young", "old"}
    BY <1>1 DEF MbxLatch, FlagInv
  <2> QED
    BY <2>1, <2>2, <2>3
<1> QED
  BY <1>6, <1>7 DEF Given

(* A stamp that is handed out is 0 or the very time at which the device    *)
(* stamped the packet, for any width of the device's counter, any age at   *)
(* which idpf_ptp_extend_tstamp gives up and any racing of the two threads *)
(* that store the cached clock with each other and with the mailbox task,  *)
(* if half a wrap has not passed, the clock was not set again and no       *)
(* update of the cached clock was slow.                                    *)
THEOREM StampsExact == Spec => TstampExact
<1> DEFINE Fresh == slow \/ (AgeInv /\ YoungInv)
<1>1. Init => Fresh /\ StampInv /\ OfInv
  <2>1. Init => AgeInv /\ StampInv /\ OfInv
    BY ClockAssumption DEF Init, AgeInv, StampInv, OfInv, OfSkb, NoTime, Updaters
  <2>2. Init => YoungInv
    BY DEF Init, YoungInv
  <2> QED
    BY <2>1, <2>2
<1>2. IInv /\ FlagInv /\ Fresh /\ StampInv /\ OfInv /\ [Next]_vars
        => Fresh' /\ StampInv' /\ OfInv'
  <2> SUFFICES ASSUME IInv, FlagInv, Fresh, StampInv, OfInv, [Next]_vars
               PROVE  Fresh' /\ StampInv' /\ OfInv'
    OBVIOUS
  <2>1. StampInv' /\ OfInv'
    BY StampKept, OfKept
  <2>2. ASSUME ~ slow' PROVE AgeInv' /\ YoungInv'
    <3>1. ~ slow
      BY <2>2, SlowStays
    <3>2. AgeInv /\ YoungInv
      BY <3>1
    <3> QED
      BY <2>2, <3>2, AgeKept, YoungKept
  <2>3. Fresh'
    BY <2>2, Zenon
  <2> QED
    BY <2>1, <2>3
<1>3. IInv /\ FlagInv /\ Fresh /\ StampInv /\ OfInv /\ [Next]_vars =>
        [\A p \in Pkts :
           (/\ got'[p] # got[p] /\ ~ slow
            /\ now + offset <= at[p].val + Wrap \div 2
            /\ cache.epoch = at[p].epoch /\ epoch = cache.epoch)
           => got'[p] \in {"zero", "right"}]_vars
  BY GivenExact
<1> HIDE DEF Fresh
<1> QED
  BY <1>1, <1>2, <1>3, StampInvariant, FlagInvariant, PTL DEF Spec, TstampExact
================================================================================
