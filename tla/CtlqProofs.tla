------------------------------ MODULE CtlqProofs ------------------------------
(***************************************************************************)
(* Proofs about the two control queues: first CtlqSend, for every number   *)
(* of senders, then CtlqRecv, for every size of the rings that fits the    *)
(* u16 of struct idpf_ctlq_info.                                           *)
(***************************************************************************)
EXTENDS CtlqSend, CtlqRecv, FiniteSetTheorems, FunctionTheorems,
        SequenceTheorems, WellFoundedInduction, TLAPS

(* The place of a slot, counted from next_to_clean                         *)
Off(i) == Dist(next_to_clean, i)

(* A sender that has built a message has it until the tail is written;     *)
(* what was reclaimed is with the sender only until it is freed.           *)
MsgHeld ==
  /\ \A t \in Senders : pc[t] \in {"send", "tail"} => msg[t] \in Nat
  /\ \A t \in Senders : pc[t] # "free" => got[t] = {}

(* cq_lock is held exactly between the descriptor and the tail write, and  *)
(* the tail is behind next_to_use by the one message of its holder.        *)
LockHeld ==
  /\ \A t \in Senders : pc[t] = "tail" <=> cq_lock = t
  /\ cq_lock = None => tail = next_to_use
  /\ cq_lock # None => next_to_use = Inc(tail) /\ tx_msg[tail] = msg[cq_lock]

(* The device follows the driver around the ring without overtaking it.    *)
RingOrder ==
  /\ Off(done) <= Off(fetched) /\ Off(fetched) <= Off(tail)
  /\ Off(tail) <= Off(next_to_use)

(* The slots by their places: written back, handed over, free              *)
SlotState ==
  \A i \in Slot :
    /\ (tx_msg[i] # None) <=> Off(i) < Off(next_to_use)
    /\ Off(i) < Off(done) => desc[i] = "done"
    /\ Off(done) <= Off(i) /\ Off(i) < Off(next_to_use) => desc[i] = "ready"
    /\ Off(next_to_use) <= Off(i) => desc[i] = "zero"

(* How many messages were reclaimed since the ring was made                *)
Cleaned == finished - Off(done)

(* The histories and the ring tell the same story.                         *)
HistoryFits ==
  /\ Cleaned \in Nat
  /\ Len(sent) = Cleaned + Off(tail)
  /\ Len(executed) = Cleaned + Off(fetched)
  /\ \A i \in Slot : Off(i) < Off(tail) => tx_msg[i] = sent[Cleaned + Off(i) + 1]
  /\ \A n \in 1 .. Len(executed) : executed[n] = sent[n]

RingInv == MsgHeld /\ LockHeld /\ RingOrder /\ SlotState /\ HistoryFits

(* A message has one holder, and what has a holder is allocated.           *)
Built(t) == pc[t] = "send"

OneHolder ==
  /\ \A i, j \in Slot : tx_msg[i] # None /\ tx_msg[i] = tx_msg[j] => i = j
  /\ \A i \in Slot, t \in Senders :
       /\ tx_msg[i] \notin got[t]
       /\ Built(t) => tx_msg[i] # msg[t]
  /\ \A t, u \in Senders :
       /\ Built(t) => msg[t] \notin got[u]
       /\ t # u => got[t] \cap got[u] = {}
       /\ t # u /\ Built(t) /\ Built(u) => msg[t] # msg[u]

HoldersLive ==
  /\ live \subseteq 1 .. count
  /\ \A i \in Slot : tx_msg[i] # None => tx_msg[i] \in live
  /\ \A t \in Senders : got[t] \subseteq live /\ (Built(t) => msg[t] \in live)
  /\ \A m \in live : \/ \E i \in Slot : tx_msg[i] = m
                     \/ \E t \in Senders : m \in got[t]
                     \/ \E t \in Senders : Built(t) /\ msg[t] = m

HolderInv == OneHolder /\ HoldersLive
-----------------------------------------------------------------------------
(* Arithmetic of the ring *)

(* What the assumption on the size of the ring says to the arithmetic       *)
LEMMA SizeFits == RingSize \in Nat /\ RingSize >= 2 /\ RingSize <= 65535
BY RingSizeAssumption

(* The remainder of a number below twice the size of the ring              *)
LEMMA ModSmall ==
  ASSUME NEW a \in Nat, a < 2 * RingSize
  PROVE  a % RingSize = IF a < RingSize THEN a ELSE a - RingSize
<1>1. CASE a < RingSize
  BY <1>1, SizeFits
<1>2. CASE a >= RingSize
  BY <1>2, SizeFits
<1> QED BY <1>1, <1>2, SizeFits

(* How far slot b lies ahead of slot a                                     *)
LEMMA DistIs ==
  ASSUME NEW a \in Slot, NEW b \in Slot
  PROVE  /\ Dist(a, b) = IF a <= b THEN b - a ELSE b - a + RingSize
         /\ Dist(a, b) \in Slot
BY SizeFits DEF Dist, Slot

(* The slot k places after next_to_clean                                   *)
LEMMA FromCleanIs ==
  ASSUME next_to_clean \in Slot, NEW k \in 0 .. RingSize
  PROVE  FromClean(k) = IF next_to_clean + k < RingSize
                        THEN next_to_clean + k ELSE next_to_clean + k - RingSize
<1>1. PICK x \in Nat : x = next_to_clean + k /\ x < 2 * RingSize
  BY SizeFits DEF Slot
<1>2. x % RingSize = IF x < RingSize THEN x ELSE x - RingSize
  BY <1>1, ModSmall
<1>3. FromClean(k) = x % RingSize
  BY <1>1, Zenon DEF FromClean
<1> QED BY <1>1, <1>2, <1>3, SizeFits DEF Slot

(* IDPF_CTLQ_DESC_UNUSED counts the free slots but one.                    *)
LEMMA UnusedIs ==
  ASSUME next_to_clean \in Slot, next_to_use \in Slot
  PROVE  Unused = RingSize - 1 - Off(next_to_use)
<1>1. PICK room \in Nat : room = IF next_to_clean > next_to_use THEN 0
                                 ELSE RingSize
  BY SizeFits
<1>2. PICK x \in Nat : x = room + next_to_clean - next_to_use - 1 /\ x < 65536
  BY <1>1, SizeFits DEF Slot
<1>3. Unused = x
  <2>1. x % 65536 = x
    BY <1>2
  <2> QED BY <2>1, <1>1, <1>2, SMT DEF Unused
<1>4. Off(next_to_use) = IF next_to_clean <= next_to_use
                         THEN next_to_use - next_to_clean
                         ELSE next_to_use - next_to_clean + RingSize
  BY DistIs DEF Off
<1> QED BY <1>1, <1>2, <1>3, <1>4, SizeFits DEF Slot

(* The places of the slots and FromClean are inverse to each other.        *)
LEMMA OffFromClean ==
  ASSUME next_to_clean \in Slot
  PROVE  /\ \A i \in Slot : Off(i) \in Slot /\ FromClean(Off(i)) = i
         /\ \A k \in Slot : FromClean(k) \in Slot /\ Off(FromClean(k)) = k
<1>1. ASSUME NEW i \in Slot
      PROVE  Off(i) \in Slot /\ FromClean(Off(i)) = i
  <2>1. Off(i) \in Slot /\ Off(i) \in 0 .. RingSize
    BY DistIs, SizeFits DEF Off, Slot
  <2>2. Off(i) = IF next_to_clean <= i THEN i - next_to_clean
                 ELSE i - next_to_clean + RingSize
    BY DistIs DEF Off
  <2> QED BY <2>1, <2>2, FromCleanIs, SizeFits DEF Slot
<1>2. ASSUME NEW k \in Slot
      PROVE  FromClean(k) \in Slot /\ Off(FromClean(k)) = k
  <2>1. k \in 0 .. RingSize
    BY SizeFits DEF Slot
  <2>2. FromClean(k) \in Slot
    BY <2>1, FromCleanIs, SizeFits DEF Slot
  <2>3. FromClean(k) = IF next_to_clean + k < RingSize
                       THEN next_to_clean + k ELSE next_to_clean + k - RingSize
    BY <2>1, FromCleanIs
  <2>4. Off(FromClean(k)) = IF next_to_clean <= FromClean(k)
                            THEN FromClean(k) - next_to_clean
                            ELSE FromClean(k) - next_to_clean + RingSize
    BY <2>2, DistIs DEF Off
  <2> QED BY <2>2, <2>3, <2>4, SizeFits DEF Slot
<1> QED BY <1>1, <1>2

(* How distances around the ring combine                                   *)
LEMMA DistFacts ==
  ASSUME NEW a \in Slot, NEW b \in Slot
  PROVE  /\ Dist(a, b) \in Nat /\ Dist(a, b) <= RingSize - 1
         /\ Dist(a, a) = 0
         /\ \A c \in Slot : Dist(a, b) = Dist(a, c) => b = c
         /\ Inc(b) \in Slot /\ Inc(b) # b
         /\ Dist(a, b) < RingSize - 1 => Dist(a, Inc(b)) = Dist(a, b) + 1
         /\ \A c \in Slot : Dist(b, c) =
              IF Dist(a, b) <= Dist(a, c) THEN Dist(a, c) - Dist(a, b)
              ELSE Dist(a, c) - Dist(a, b) + RingSize
<1>1. Dist(a, b) = IF a <= b THEN b - a ELSE b - a + RingSize
  BY DistIs
<1>2. Inc(b) \in Slot /\ Inc(b) # b
  BY SizeFits DEF Inc, Slot
<1>3. Dist(a, Inc(b)) = IF a <= Inc(b) THEN Inc(b) - a
                        ELSE Inc(b) - a + RingSize
  BY <1>2, DistIs
<1>4. Dist(a, a) = 0
  <2>1. Dist(a, a) = IF a <= a THEN a - a ELSE a - a + RingSize
    BY DistIs
  <2> QED BY <2>1, SizeFits DEF Slot
<1>5. Dist(a, b) < RingSize - 1 => Dist(a, Inc(b)) = Dist(a, b) + 1
  BY <1>1, <1>2, <1>3, SizeFits DEF Inc, Slot
<1>6. ASSUME NEW c \in Slot
      PROVE  /\ Dist(a, b) = Dist(a, c) => b = c
             /\ Dist(b, c) =
                  IF Dist(a, b) <= Dist(a, c) THEN Dist(a, c) - Dist(a, b)
                  ELSE Dist(a, c) - Dist(a, b) + RingSize
  <2>1. /\ Dist(a, c) = IF a <= c THEN c - a ELSE c - a + RingSize
        /\ Dist(b, c) = IF b <= c THEN c - b ELSE c - b + RingSize
    BY DistIs
  <2> QED BY <1>1, <2>1, SizeFits DEF Slot
<1>7. Dist(a, b) \in Nat /\ Dist(a, b) <= RingSize - 1
  BY <1>1, SizeFits DEF Slot
<1> QED BY <1>2, <1>4, <1>5, <1>6, <1>7

(* The first k slots after next_to_clean, and how many they are            *)
Run(k) == {FromClean(j) : j \in 0 .. k - 1}

(* The slots from one index up to another are those of the places between.  *)
LEMMA RunIs ==
  ASSUME next_to_clean \in Slot, NEW k \in 0 .. RingSize
  PROVE  /\ Run(k) \subseteq Slot
         /\ \A i \in Slot : i \in Run(k) <=> Off(i) < k
         /\ Cardinality(Run(k)) = k
<1>1. k \in Nat /\ k <= RingSize /\ \A j \in 0 .. k - 1 : j \in Slot
  BY SizeFits DEF Slot
<1>2. Run(k) \subseteq Slot
  BY <1>1, OffFromClean DEF Run
<1>3. ASSUME NEW i \in Slot
      PROVE  i \in Run(k) <=> Off(i) < k
  <2>1. ASSUME i \in Run(k)
        PROVE  Off(i) < k
    <3>1. PICK j \in 0 .. k - 1 : i = FromClean(j)
      BY <2>1 DEF Run
    <3>2. Off(i) = j
      BY <3>1, <1>1, OffFromClean
    <3> QED BY <3>2, <1>1
  <2>2. ASSUME Off(i) < k
        PROVE  i \in Run(k)
    <3>1. Off(i) \in Slot /\ FromClean(Off(i)) = i
      BY OffFromClean
    <3>2. Off(i) \in 0 .. k - 1
      BY <3>1, <2>2, <1>1, SizeFits DEF Slot
    <3> QED BY <3>1, <3>2 DEF Run
  <2> QED BY <2>1, <2>2
<1>4. Cardinality(Run(k)) = k
  <2> DEFINE f == [j \in 0 .. k - 1 |-> FromClean(j)]
  <2>1. f \in [0 .. k - 1 -> Run(k)]
    BY DEF Run
  <2>2. \A x, y \in 0 .. k - 1 : f[x] = f[y] => x = y
    BY <1>1, OffFromClean
  <2>3. \A i \in Run(k) : \E x \in 0 .. k - 1 : f[x] = i
    BY DEF Run
  <2> HIDE DEF f
  <2>4. ExistsBijection(0 .. k - 1, Run(k))
    <3>1. f \in Bijection(0 .. k - 1, Run(k))
      BY <2>1, <2>2, <2>3, Fun_IsBij, Zenon
    <3> QED BY <3>1, Fun_ExistsBij, Zenon
  <2>5. IsFiniteSet(0 .. k - 1) /\ Cardinality(0 .. k - 1) = k
    BY <1>1, FS_Interval
  <2> QED BY <2>4, <2>5, FS_Bijection, Zenon
<1> QED BY <1>2, <1>3, <1>4

(* The slots in flight, by their places                                    *)
LEMMA InFlightIs ==
  ASSUME next_to_clean \in Slot, next_to_use \in Slot
  PROVE  /\ InFlight \subseteq Slot
         /\ \A i \in Slot : i \in InFlight <=> Off(i) < Off(next_to_use)
         /\ Cardinality(InFlight) = Off(next_to_use)
<1>1. Off(next_to_use) \in 0 .. RingSize
  BY DistFacts, SizeFits DEF Off
<1>2. InFlight = Run(Off(next_to_use))
  BY DEF InFlight, Run, Off
<1> QED BY <1>1, <1>2, RunIs

-----------------------------------------------------------------------------
(* The invariant of the ring is inductive. *)

(* idpf_ctlq_init_regs starts with an empty ring.                           *)
LEMMA RingInit == Init => TypeOK /\ RingInv
<1> SUFFICES ASSUME Init
             PROVE  TypeOK /\ RingInv
  OBVIOUS
<1>1. 0 \in Slot /\ Dist(0, 0) = 0 /\ \A i \in Slot : Dist(0, i) \in Nat
  <2>1. 0 \in Slot
    BY SizeFits DEF Slot
  <2> QED BY <2>1, DistFacts
<1>2. TypeOK
  BY <1>1, EmptySeq DEF Init, TypeOK
<1>3. MsgHeld /\ LockHeld /\ RingOrder
  BY <1>1, NoneAssumption DEF Init, MsgHeld, LockHeld, RingOrder, Off
<1>4. SlotState
  BY <1>1 DEF Init, SlotState, Off
<1>5. HistoryFits
  BY <1>1, EmptySeq DEF Init, HistoryFits, Cleaned, Off
<1> QED BY <1>2, <1>3, <1>4, <1>5 DEF RingInv

(* idpf_mb_clean takes messages out that the device has written back.      *)
LEMMA CleanKeepsRing ==
  ASSUME TypeOK, RingInv, NEW t \in Senders, SendClean(t)
  PROVE  TypeOK' /\ RingInv'
<1>1. PICK s \in SUBSET Slot :
        /\ Cleans(s, FALSE)
        /\ got'    = [got EXCEPT ![t] = {tx_msg[i] : i \in s}]
        /\ desc'   = [i \in Slot |-> IF i \in s THEN "zero" ELSE desc[i]]
        /\ tx_msg' = [i \in Slot |-> IF i \in s THEN None ELSE tx_msg[i]]
        /\ next_to_clean' = FromClean(Cardinality(s))
  BY DEF SendClean
<1>2. PICK k \in 0 .. RingSize :
        s = Run(k) /\ \A i \in s : desc[i] = "done" /\ tx_msg[i] # None
  BY <1>1 DEF Cleans, Passes, Run
<1>3. next_to_clean \in Slot /\ next_to_use \in Slot /\ tail \in Slot
        /\ fetched \in Slot /\ done \in Slot
  BY DEF TypeOK
<1>4. /\ \A i \in Slot : i \in s <=> Off(i) < k
      /\ Cardinality(s) = k
      /\ k \in Nat /\ k <= RingSize
  BY <1>2, <1>3, RunIs, SizeFits
<1>5. k <= Off(done)
  <2>1. CASE k = 0
    BY <2>1, <1>3, DistFacts DEF Off
  <2>2. CASE k > 0
    <3>1. k - 1 \in Slot
      BY <2>2, <1>4, SizeFits DEF Slot
    <3>2. PICK i \in Slot : Off(i) = k - 1
      BY <3>1, <1>3, OffFromClean
    <3>3. desc[i] = "done" /\ tx_msg[i] # None
      BY <3>2, <1>2, <1>4
    <3>4. Off(i) < Off(done)
      <4>1. Off(i) \in Nat /\ Off(done) \in Nat
        BY <1>3, DistFacts DEF Off
      <4>2. Off(i) < Off(next_to_use)
        BY <3>3 DEF RingInv, SlotState
      <4> QED BY <4>1, <4>2, <3>3 DEF RingInv, SlotState
    <3> QED BY <3>2, <3>4, <1>3, <1>4, DistFacts DEF Off
  <2> QED BY <2>1, <2>2, <1>4
<1>6. /\ next_to_clean' \in Slot
      /\ \A i \in Slot : Dist(next_to_clean', i) =
           IF k <= Off(i) THEN Off(i) - k ELSE Off(i) - k + RingSize
  <2>1. k \in Slot
    BY <1>3, <1>4, <1>5, DistFacts, SizeFits DEF Off, Slot
  <2>2. next_to_clean' \in Slot /\ Off(next_to_clean') = k
    BY <1>1, <1>3, <1>4, <2>1, OffFromClean
  <2>3. \A i \in Slot : Dist(next_to_clean', i) =
          IF Off(next_to_clean') <= Off(i) THEN Off(i) - Off(next_to_clean')
          ELSE Off(i) - Off(next_to_clean') + RingSize
    BY <2>2, <1>3, DistFacts DEF Off
  <2> QED BY <2>2, <2>3, Zenon
<1>7. \A i \in Slot : Off(i) \in Nat /\ Off(i) <= RingSize - 1
  BY <1>3, DistFacts DEF Off
<1>8. TypeOK'
  <2>1. desc' \in [Slot -> {"zero", "ready", "done"}]
          /\ tx_msg' \in [Slot -> Nat \cup {None}]
    BY <1>1 DEF TypeOK
  <2>2. got' \in [Senders -> SUBSET Nat]
    <3>1. {tx_msg[i] : i \in s} \subseteq Nat
      BY <1>2 DEF TypeOK
    <3> QED BY <3>1, <1>1 DEF TypeOK
  <2>3. pc' \in [Senders -> {"idle", "clean", "free", "alloc", "send", "tail"}]
    BY DEF SendClean, TypeOK
  <2> QED BY <2>1, <2>2, <2>3, <1>6 DEF SendClean, TypeOK, hwVars
<1>9. MsgHeld' /\ LockHeld'
  BY <1>1 DEF SendClean, RingInv, MsgHeld, LockHeld, TypeOK
<1>10. /\ Off(done)' = Off(done) - k /\ Off(fetched)' = Off(fetched) - k
       /\ Off(tail)' = Off(tail) - k
       /\ Off(next_to_use)' = Off(next_to_use) - k
       /\ RingOrder'
  <2>1. /\ Off(done) <= Off(fetched) /\ Off(fetched) <= Off(tail)
        /\ Off(tail) <= Off(next_to_use)
    BY DEF RingInv, RingOrder
  <2>2. UNCHANGED <<done, fetched, tail, next_to_use>>
    BY DEF SendClean, hwVars
  <2> QED BY <2>1, <2>2, <1>3, <1>4, <1>5, <1>6, <1>7 DEF RingOrder, Off
<1>11. SlotState'
  <2> SUFFICES ASSUME NEW i \in Slot
               PROVE  /\ (tx_msg'[i] # None) <=> Off(i)' < Off(next_to_use)'
                      /\ Off(i)' < Off(done)' => desc'[i] = "done"
                      /\ Off(done)' <= Off(i)' /\ Off(i)' < Off(next_to_use)'
                           => desc'[i] = "ready"
                      /\ Off(next_to_use)' <= Off(i)' => desc'[i] = "zero"
    BY DEF SlotState
  <2>1. Off(i)' = IF k <= Off(i) THEN Off(i) - k ELSE Off(i) - k + RingSize
    BY <1>6 DEF Off
  <2>2. Off(i) \in Nat /\ Off(next_to_use) \in Nat /\ Off(done) \in Nat
          /\ Off(next_to_use) <= RingSize - 1 /\ Off(done) <= RingSize - 1
    BY <1>3, <1>7
  <2>3. CASE i \in s
    <3>1. tx_msg'[i] = None /\ desc'[i] = "zero"
      BY <1>1, <2>3
    <3>2. Off(i) < k
      BY <1>4, <2>3
    <3> QED BY <3>1, <3>2, <2>1, <2>2, <1>4, <1>10, SizeFits
  <2>4. CASE i \notin s
    <3>1. tx_msg'[i] = tx_msg[i] /\ desc'[i] = desc[i]
      BY <1>1, <2>4
    <3>2. k <= Off(i)
      BY <1>4, <2>2, <2>4
    <3>3. /\ (tx_msg[i] # None) <=> Off(i) < Off(next_to_use)
          /\ Off(i) < Off(done) => desc[i] = "done"
          /\ Off(done) <= Off(i) /\ Off(i) < Off(next_to_use)
               => desc[i] = "ready"
          /\ Off(next_to_use) <= Off(i) => desc[i] = "zero"
      BY DEF RingInv, SlotState
    <3> QED BY <3>1, <3>2, <3>3, <2>1, <2>2, <1>4, <1>10, SizeFits
  <2> QED BY <2>3, <2>4
<1>12. HistoryFits'
  <2>1. finished' = finished /\ sent' = sent /\ executed' = executed
    BY DEF SendClean, hwVars
  <2>2. Cleaned \in Nat /\ Cleaned' = Cleaned + k
    BY <2>1, <1>3, <1>4, <1>7, <1>10 DEF Cleaned, RingInv, HistoryFits, TypeOK
  <2>3. Len(sent)' = Cleaned' + Off(tail)'
          /\ Len(executed)' = Cleaned' + Off(fetched)'
    BY <2>1, <2>2, <1>3, <1>4, <1>7, <1>10 DEF RingInv, HistoryFits
  <2>4. ASSUME NEW i \in Slot, Off(i)' < Off(tail)'
        PROVE  tx_msg'[i] = sent'[Cleaned' + Off(i)' + 1]
    <3>1. Off(i)' = IF k <= Off(i) THEN Off(i) - k ELSE Off(i) - k + RingSize
      BY <1>6 DEF Off
    <3>2. k <= Off(i) /\ Off(i)' = Off(i) - k
      BY <3>1, <2>4, <1>3, <1>4, <1>7, <1>10, SizeFits
    <3>3. i \notin s /\ Off(i) < Off(tail)
      BY <3>2, <2>4, <1>3, <1>4, <1>7, <1>10
    <3>4. tx_msg'[i] = sent[Cleaned + Off(i) + 1]
      BY <3>3, <1>1 DEF RingInv, HistoryFits
    <3>5. Cleaned' + Off(i)' + 1 = Cleaned + Off(i) + 1
      BY <3>2, <2>2, <1>4, <1>7
    <3> QED BY <3>4, <3>5, <2>1
  <2>5. \A n \in 1 .. Len(executed)' : executed'[n] = sent'[n]
    BY <2>1 DEF RingInv, HistoryFits
  <2> QED BY <2>2, <2>3, <2>4, <2>5, <1>4 DEF HistoryFits
<1> QED BY <1>8, <1>9, <1>10, <1>11, <1>12 DEF RingInv

(* Where the indices of the ring and the device are, in one place          *)
LEMMA Places ==
  ASSUME TypeOK, RingInv
  PROVE  /\ next_to_clean \in Slot /\ next_to_use \in Slot /\ tail \in Slot
         /\ fetched \in Slot /\ done \in Slot
         /\ \A i \in Slot : Off(i) \in Nat /\ Off(i) <= RingSize - 1
         /\ \A i, j \in Slot : Off(i) = Off(j) => i = j
         /\ Off(done) <= Off(fetched) /\ Off(fetched) <= Off(tail)
         /\ Off(tail) <= Off(next_to_use)
         /\ RingSize \in Nat
<1>1. /\ next_to_clean \in Slot /\ next_to_use \in Slot /\ tail \in Slot
      /\ fetched \in Slot /\ done \in Slot
  BY DEF TypeOK
<1>2. /\ Off(done) <= Off(fetched) /\ Off(fetched) <= Off(tail)
      /\ Off(tail) <= Off(next_to_use)
  BY DEF RingInv, RingOrder
<1>3. \A i \in Slot : Off(i) \in Nat /\ Off(i) <= RingSize - 1
  BY <1>1, DistFacts DEF Off
<1>4. \A i, j \in Slot : Off(i) = Off(j) => i = j
  BY <1>1, DistFacts DEF Off
<1> QED BY <1>1, <1>2, <1>3, <1>4, SizeFits

(* The descriptor of a message goes to the first free slot.                *)
LEMMA DescKeepsRing ==
  ASSUME TypeOK, RingInv, NEW t \in Senders, SendDesc(t)
  PROVE  TypeOK' /\ RingInv'
<1>1. /\ pc[t] = "send" /\ cq_lock = None /\ cq_lock' = t
      /\ desc' = [desc EXCEPT ![next_to_use] = "ready"]
      /\ tx_msg' = [tx_msg EXCEPT ![next_to_use] = msg[t]]
      /\ next_to_use' = Inc(next_to_use)
      /\ pc' = [pc EXCEPT ![t] = "tail"]
      /\ UNCHANGED <<next_to_clean, tail, fetched, done, running, executed,
                     finished, msg, got, live, count, sent, nreset>>
  BY DEF SendDesc, hwVars
<1>2. msg[t] \in Nat /\ msg[t] # None
  BY <1>1, NoneAssumption DEF RingInv, MsgHeld
<1>3. Off(next_to_use) < RingSize - 1
  BY Places, UnusedIs DEF SendDesc
<1>4. next_to_use' \in Slot /\ Off(next_to_use)' = Off(next_to_use) + 1
  BY <1>1, <1>3, Places, DistFacts DEF Off
<1>5. \A i \in Slot : Off(i)' = Off(i)
  BY <1>1 DEF Off
<1>6. /\ Off(done)' = Off(done) /\ Off(fetched)' = Off(fetched)
      /\ Off(tail)' = Off(tail)
  BY <1>1 DEF Off
<1>7. TypeOK'
  BY <1>1, <1>2, <1>4 DEF TypeOK
<1>8. MsgHeld'
  BY <1>1, <1>2 DEF RingInv, MsgHeld, TypeOK
<1>9. LockHeld'
  <2>1. \A u \in Senders : pc[u] # "tail" /\ u # None
    BY <1>1, NoneAssumption, SendersAssumption DEF RingInv, LockHeld
  <2>2. tail = next_to_use
    BY <1>1 DEF RingInv, LockHeld
  <2>3. tx_msg'[tail] = msg[t]
    BY <1>1, <2>2 DEF TypeOK
  <2> QED BY <1>1, <2>1, <2>2, <2>3 DEF LockHeld, TypeOK
<1>10. RingOrder'
  BY <1>4, <1>6, Places DEF RingOrder
<1>11. SlotState'
  <2> SUFFICES ASSUME NEW i \in Slot
               PROVE  /\ (tx_msg'[i] # None) <=> Off(i)' < Off(next_to_use)'
                      /\ Off(i)' < Off(done)' => desc'[i] = "done"
                      /\ Off(done)' <= Off(i)' /\ Off(i)' < Off(next_to_use)'
                           => desc'[i] = "ready"
                      /\ Off(next_to_use)' <= Off(i)' => desc'[i] = "zero"
    BY DEF SlotState
  <2>1. /\ (tx_msg[i] # None) <=> Off(i) < Off(next_to_use)
        /\ Off(i) < Off(done) => desc[i] = "done"
        /\ Off(done) <= Off(i) /\ Off(i) < Off(next_to_use) => desc[i] = "ready"
        /\ Off(next_to_use) <= Off(i) => desc[i] = "zero"
    BY DEF RingInv, SlotState
  <2>2. CASE i = next_to_use
    <3>1. tx_msg'[i] = msg[t] /\ desc'[i] = "ready"
      BY <1>1, <2>2 DEF TypeOK
    <3> QED BY <3>1, <2>2, <1>2, <1>4, <1>5, <1>6, Places
  <2>3. CASE i # next_to_use
    <3>1. tx_msg'[i] = tx_msg[i] /\ desc'[i] = desc[i]
      BY <1>1, <2>3 DEF TypeOK
    <3>2. Off(i) # Off(next_to_use)
      BY <2>3, Places
    <3> QED BY <2>1, <3>1, <3>2, <1>4, <1>5, <1>6, Places
  <2> QED BY <2>2, <2>3
<1>12. HistoryFits'
  <2>1. Cleaned' = Cleaned
    BY <1>1, <1>6 DEF Cleaned
  <2>2. ASSUME NEW i \in Slot, Off(i)' < Off(tail)'
        PROVE  tx_msg'[i] = sent'[Cleaned' + Off(i)' + 1]
    <3>1. Off(i) < Off(tail) /\ i # next_to_use
      BY <2>2, <1>5, <1>6, Places
    <3>2. tx_msg'[i] = tx_msg[i]
      BY <3>1, <1>1 DEF TypeOK
    <3> QED BY <3>1, <3>2, <2>1, <1>1, <1>5 DEF RingInv, HistoryFits
  <2> QED BY <2>1, <2>2, <1>1, <1>6 DEF RingInv, HistoryFits
<1> QED BY <1>7, <1>8, <1>9, <1>10, <1>11, <1>12 DEF RingInv

(* The tail write hands the last descriptor to the device.                 *)
LEMMA TailKeepsRing ==
  ASSUME TypeOK, RingInv, NEW t \in Senders, SendTail(t)
  PROVE  TypeOK' /\ RingInv'
<1>1. /\ pc[t] = "tail" /\ cq_lock = t
      /\ tail' = next_to_use /\ sent' = Append(sent, msg[t])
      /\ cq_lock' = None
      /\ msg' = [msg EXCEPT ![t] = None]
      /\ pc' = [pc EXCEPT ![t] = "idle"]
      /\ UNCHANGED <<desc, tx_msg, next_to_use, next_to_clean, fetched, done,
                     running, executed, finished, got, live, count, nreset>>
  BY DEF SendTail, RingInv, LockHeld, ringVars, hwVars
<1>2. msg[t] \in Nat /\ sent \in Seq(Nat) /\ cq_lock # None
  BY <1>1, NoneAssumption, SendersAssumption DEF RingInv, MsgHeld, TypeOK
<1>3. /\ sent' \in Seq(Nat) /\ Len(sent') = Len(sent) + 1 /\ Len(sent) \in Nat
      /\ \A n \in 1 .. Len(sent) : sent'[n] = sent[n]
      /\ sent'[Len(sent) + 1] = msg[t]
  BY <1>1, <1>2, AppendProperties, LenProperties
<1>4. next_to_use = Inc(tail) /\ tx_msg[tail] = msg[t]
  BY <1>1, <1>2 DEF RingInv, LockHeld
<1>5. Off(next_to_use) = Off(tail) + 1
  <2>1. Inc(tail) # tail
          /\ (Off(tail) < RingSize - 1 => Off(Inc(tail)) = Off(tail) + 1)
    BY Places, DistFacts DEF Off
  <2> QED BY <1>4, <2>1, Places
<1>6. /\ \A i \in Slot : Off(i)' = Off(i)
      /\ Off(done)' = Off(done) /\ Off(fetched)' = Off(fetched)
      /\ Off(tail)' = Off(next_to_use) /\ Off(next_to_use)' = Off(next_to_use)
  BY <1>1 DEF Off
<1>7. TypeOK'
  BY <1>1, <1>3 DEF TypeOK
<1>8. MsgHeld' /\ LockHeld'
  <2>1. \A u \in Senders : u # t => pc[u] # "tail"
    BY <1>1 DEF RingInv, LockHeld
  <2> QED BY <2>1, <1>1, <1>2, NoneAssumption, SendersAssumption
          DEF RingInv, MsgHeld, LockHeld, TypeOK
<1>9. RingOrder'
  BY <1>6, Places DEF RingOrder
<1>10. SlotState'
  BY <1>1, <1>6 DEF RingInv, SlotState
<1>11. HistoryFits'
  <2>1. Cleaned' = Cleaned /\ Cleaned \in Nat
    BY <1>1, <1>6 DEF Cleaned, RingInv, HistoryFits
  <2>2. Len(sent) = Cleaned + Off(tail) /\ Len(executed) = Cleaned + Off(fetched)
          /\ (\A i \in Slot : Off(i) < Off(tail)
                => tx_msg[i] = sent[Cleaned + Off(i) + 1])
          /\ \A n \in 1 .. Len(executed) : executed[n] = sent[n]
    BY DEF RingInv, HistoryFits
  <2>3. ASSUME NEW i \in Slot, Off(i)' < Off(tail)'
        PROVE  tx_msg'[i] = sent'[Cleaned' + Off(i)' + 1]
    <3>1. CASE i = tail
      BY <3>1, <2>1, <2>2, <1>1, <1>3, <1>4, <1>6
    <3>2. CASE i # tail
      <4>1. Off(i) < Off(tail)
        BY <3>2, <2>3, <1>5, <1>6, Places
      <4>2. Cleaned + Off(i) + 1 \in 1 .. Len(sent)
        BY <4>1, <2>1, <2>2, Places
      <4> QED BY <4>1, <4>2, <2>1, <2>2, <1>1, <1>3, <1>6
    <3> QED BY <3>1, <3>2
  <2>4. Len(sent)' = Cleaned' + Off(tail)'
          /\ Len(executed)' = Cleaned' + Off(fetched)'
    BY <2>1, <2>2, <1>1, <1>3, <1>5, <1>6, Places
  <2>5. \A n \in 1 .. Len(executed)' : executed'[n] = sent'[n]
    <3>1. Len(executed) <= Len(sent) /\ Len(executed) \in Nat
      BY <2>1, <2>2, Places
    <3> QED BY <3>1, <2>2, <1>1, <1>3
  <2> QED BY <2>1, <2>3, <2>4, <2>5 DEF HistoryFits
<1> QED BY <1>7, <1>8, <1>9, <1>10, <1>11 DEF RingInv

(* The device takes the next message, and it is the next one queued.       *)
LEMMA FetchKeepsRing ==
  ASSUME TypeOK, RingInv, HwFetch
  PROVE  TypeOK' /\ RingInv'
<1>1. /\ fetched # tail
      /\ executed' = Append(executed, tx_msg[fetched])
      /\ fetched' = Inc(fetched)
      /\ UNCHANGED <<desc, tx_msg, next_to_use, next_to_clean, cq_lock, tail,
                     done, running, finished, pc, msg, got, live, count, sent,
                     nreset>>
  BY DEF HwFetch, ringVars, sendVars
<1>2. Off(fetched) < Off(tail)
  <2>1. Off(fetched) # Off(tail)
    BY <1>1, Places
  <2> QED BY <2>1, Places
<1>3. fetched' \in Slot /\ Off(fetched)' = Off(fetched) + 1
  <2>1. fetched \in Slot /\ next_to_clean \in Slot
          /\ Off(fetched) < RingSize - 1
    BY <1>2, Places
  <2> QED BY <2>1, <1>1, DistFacts DEF Off
<1>4. /\ \A i \in Slot : Off(i)' = Off(i)
      /\ Off(done)' = Off(done) /\ Off(tail)' = Off(tail)
      /\ Off(next_to_use)' = Off(next_to_use) /\ Cleaned' = Cleaned
  BY <1>1 DEF Off, Cleaned
<1>5. executed \in Seq(Nat \cup {None}) /\ tx_msg[fetched] \in Nat \cup {None}
  BY DEF TypeOK
<1>6. /\ executed' \in Seq(Nat \cup {None})
      /\ Len(executed') = Len(executed) + 1 /\ Len(executed) \in Nat
      /\ \A n \in 1 .. Len(executed) : executed'[n] = executed[n]
      /\ executed'[Len(executed) + 1] = tx_msg[fetched]
  BY <1>1, <1>5, AppendProperties, LenProperties
<1>7. TypeOK'
  BY <1>1, <1>3, <1>6 DEF TypeOK
<1>8. MsgHeld' /\ LockHeld'
  BY <1>1 DEF RingInv, MsgHeld, LockHeld
<1>9. RingOrder'
  BY <1>2, <1>3, <1>4, Places DEF RingOrder
<1>10. SlotState'
  BY <1>1, <1>4 DEF RingInv, SlotState
<1>11. HistoryFits'
  <2>1. /\ Cleaned \in Nat /\ Len(executed) = Cleaned + Off(fetched)
        /\ tx_msg[fetched] = sent[Cleaned + Off(fetched) + 1]
    BY <1>2, Places DEF RingInv, HistoryFits
  <2>2. Len(executed)' = Cleaned' + Off(fetched)'
    BY <2>1, <1>3, <1>4, <1>6, Places
  <2>3. ASSUME NEW n \in 1 .. Len(executed)'
        PROVE  executed'[n] = sent'[n]
    <3>1. CASE n = Len(executed) + 1
      BY <3>1, <2>1, <1>1, <1>6
    <3>2. CASE n # Len(executed) + 1
      <4>1. n \in 1 .. Len(executed)
        BY <3>2, <1>6
      <4> QED BY <4>1, <1>1, <1>6 DEF RingInv, HistoryFits
    <3> QED BY <3>1, <3>2
  <2> QED BY <2>1, <2>2, <2>3, <1>1, <1>4 DEF RingInv, HistoryFits
<1> QED BY <1>7, <1>8, <1>9, <1>10, <1>11 DEF RingInv

(* The device writes a descriptor back that it has fetched.                *)
LEMMA WriteBackKeepsRing ==
  ASSUME TypeOK, RingInv, HwWriteBack
  PROVE  TypeOK' /\ RingInv'
<1>1. /\ done # fetched
      /\ desc' = [desc EXCEPT ![done] = "done"]
      /\ done' = Inc(done)
      /\ finished' = finished + 1
      /\ UNCHANGED <<tx_msg, next_to_use, next_to_clean, cq_lock, tail, fetched,
                     running, executed, pc, msg, got, live, count, sent, nreset>>
  BY DEF HwWriteBack, sendVars
<1>2. Off(done) < Off(fetched)
  <2>1. Off(done) # Off(fetched)
    BY <1>1, Places
  <2> QED BY <2>1, Places
<1>3. done' \in Slot /\ Off(done)' = Off(done) + 1
  BY <1>1, <1>2, Places, DistFacts DEF Off
<1>4. /\ \A i \in Slot : Off(i)' = Off(i)
      /\ Off(fetched)' = Off(fetched) /\ Off(tail)' = Off(tail)
      /\ Off(next_to_use)' = Off(next_to_use)
  BY <1>1 DEF Off
<1>5. finished \in Nat
  BY DEF TypeOK
<1>6. Cleaned' = Cleaned
  BY <1>1, <1>3, <1>5, Places DEF Cleaned
<1>7. TypeOK'
  BY <1>1, <1>3 DEF TypeOK
<1>8. MsgHeld' /\ LockHeld'
  BY <1>1 DEF RingInv, MsgHeld, LockHeld
<1>9. RingOrder'
  BY <1>2, <1>3, <1>4, Places DEF RingOrder
<1>10. SlotState'
  <2> SUFFICES ASSUME NEW i \in Slot
               PROVE  /\ (tx_msg'[i] # None) <=> Off(i)' < Off(next_to_use)'
                      /\ Off(i)' < Off(done)' => desc'[i] = "done"
                      /\ Off(done)' <= Off(i)' /\ Off(i)' < Off(next_to_use)'
                           => desc'[i] = "ready"
                      /\ Off(next_to_use)' <= Off(i)' => desc'[i] = "zero"
    BY DEF SlotState
  <2>1. /\ (tx_msg[i] # None) <=> Off(i) < Off(next_to_use)
        /\ Off(i) < Off(done) => desc[i] = "done"
        /\ Off(done) <= Off(i) /\ Off(i) < Off(next_to_use) => desc[i] = "ready"
        /\ Off(next_to_use) <= Off(i) => desc[i] = "zero"
    BY DEF RingInv, SlotState
  <2>2. CASE i = done
    <3>1. desc'[i] = "done" /\ tx_msg'[i] = tx_msg[i]
      BY <1>1, <2>2 DEF TypeOK
    <3> QED BY <3>1, <2>1, <2>2, <1>2, <1>3, <1>4, Places
  <2>3. CASE i # done
    <3>1. desc'[i] = desc[i] /\ tx_msg'[i] = tx_msg[i]
      BY <1>1, <2>3 DEF TypeOK
    <3>2. Off(i) # Off(done)
      BY <2>3, Places
    <3> QED BY <3>1, <3>2, <2>1, <1>3, <1>4, Places
  <2> QED BY <2>2, <2>3
<1>11. HistoryFits'
  BY <1>1, <1>4, <1>6 DEF RingInv, HistoryFits
<1> QED BY <1>7, <1>8, <1>9, <1>10, <1>11 DEF RingInv

(* The ring is made anew.                                                  *)
LEMMA ReinitKeepsRing ==
  ASSUME TypeOK, RingInv, Reinit
  PROVE  TypeOK' /\ RingInv'
<1>1. /\ \A t \in Senders : pc[t] = "idle"
      /\ live' \subseteq live
      /\ desc' = [i \in Slot |-> "zero"] /\ tx_msg' = [i \in Slot |-> None]
      /\ next_to_use' = 0 /\ next_to_clean' = 0 /\ tail' = 0
      /\ fetched' = 0 /\ done' = 0 /\ running' = TRUE
      /\ sent' = <<>> /\ executed' = <<>> /\ finished' = 0
      /\ UNCHANGED <<cq_lock, pc, msg, got, count, nreset>>
  BY DEF Reinit, sendVars
<1>2. 0 \in Slot /\ Dist(0, 0) = 0 /\ \A i \in Slot : Dist(0, i) \in Nat
  <2>1. 0 \in Slot
    BY SizeFits DEF Slot
  <2> QED BY <2>1, DistFacts
<1>3. cq_lock = None
  BY <1>1 DEF RingInv, LockHeld, TypeOK
<1>4. TypeOK'
  BY <1>1, <1>2, EmptySeq DEF TypeOK
<1>5. MsgHeld' /\ LockHeld' /\ RingOrder'
  BY <1>1, <1>2, <1>3, NoneAssumption
     DEF RingInv, MsgHeld, LockHeld, RingOrder, Off
<1>6. SlotState'
  BY <1>1, <1>2 DEF SlotState, Off
<1>7. HistoryFits'
  BY <1>1, <1>2, EmptySeq DEF HistoryFits, Cleaned, Off
<1> QED BY <1>4, <1>5, <1>6, <1>7 DEF RingInv

(* What leaves the ring and the device alone keeps the invariant, if it    *)
(* leaves the messages of the senders at the ring alone, too.              *)
LEMMA RestKeepsRing ==
  ASSUME TypeOK, RingInv,
         UNCHANGED <<desc, tx_msg, next_to_use, next_to_clean, cq_lock, tail,
                     fetched, done, executed, finished, sent>>,
         TypeOK', MsgHeld',
         \A t \in Senders : pc'[t] = "tail" <=> pc[t] = "tail",
         \A t \in Senders : pc[t] = "tail" => msg'[t] = msg[t]
  PROVE  RingInv'
<1>1. /\ \A i \in Slot : Off(i)' = Off(i)
      /\ Off(fetched)' = Off(fetched) /\ Off(tail)' = Off(tail)
      /\ Off(next_to_use)' = Off(next_to_use) /\ Off(done)' = Off(done)
      /\ Cleaned' = Cleaned
  BY DEF Off, Cleaned
<1>2. LockHeld'
  BY DEF RingInv, LockHeld, TypeOK
<1>3. RingOrder' /\ SlotState' /\ HistoryFits'
  BY <1>1 DEF RingInv, RingOrder, SlotState, HistoryFits
<1> QED BY <1>2, <1>3 DEF RingInv

(* RingInv is inductive together with the types.                            *)
LEMMA RingInductive == TypeOK /\ RingInv /\ [Next]_vars => TypeOK' /\ RingInv'
<1> SUFFICES ASSUME TypeOK, RingInv, [Next]_vars
             PROVE  TypeOK' /\ RingInv'
  OBVIOUS
<1>1. ASSUME NEW t \in Senders, SendStart(t)
      PROVE  TypeOK' /\ RingInv'
  <2>1. TypeOK' /\ MsgHeld'
    BY <1>1 DEF SendStart, TypeOK, RingInv, MsgHeld, ringVars, hwVars
  <2> QED BY <2>1, <1>1, RestKeepsRing DEF SendStart, TypeOK, ringVars, hwVars
<1>2. ASSUME NEW t \in Senders, SendFree(t)
      PROVE  TypeOK' /\ RingInv'
  <2>1. TypeOK' /\ MsgHeld'
    BY <1>2 DEF SendFree, TypeOK, RingInv, MsgHeld, ringVars, hwVars
  <2> QED BY <2>1, <1>2, RestKeepsRing DEF SendFree, TypeOK, ringVars, hwVars
<1>3. ASSUME NEW t \in Senders, SendNoMem(t)
      PROVE  TypeOK' /\ RingInv'
  <2>1. TypeOK' /\ MsgHeld'
    BY <1>3 DEF SendNoMem, TypeOK, RingInv, MsgHeld, ringVars, hwVars
  <2> QED BY <2>1, <1>3, RestKeepsRing DEF SendNoMem, TypeOK, ringVars, hwVars
<1>4. ASSUME NEW t \in Senders, SendAlloc(t)
      PROVE  TypeOK' /\ RingInv'
  <2>1. TypeOK' /\ MsgHeld'
    BY <1>4 DEF SendAlloc, TypeOK, RingInv, MsgHeld, ringVars, hwVars
  <2> QED BY <2>1, <1>4, RestKeepsRing DEF SendAlloc, TypeOK, ringVars, hwVars
<1>5. ASSUME NEW t \in Senders, SendNoSpace(t)
      PROVE  TypeOK' /\ RingInv'
  <2>1. TypeOK' /\ MsgHeld'
    BY <1>5 DEF SendNoSpace, TypeOK, RingInv, MsgHeld, ringVars, hwVars
  <2> QED BY <2>1, <1>5, RestKeepsRing DEF SendNoSpace, TypeOK, ringVars, hwVars
<1>6. ASSUME HwReset
      PROVE  TypeOK' /\ RingInv'
  <2>1. nreset' \in Nat /\ running' \in BOOLEAN
    <3>1. nreset' = nreset + 1 /\ running' = FALSE
      BY <1>6, Zenon DEF HwReset
    <3>2. running' \in BOOLEAN
      BY <3>1, Zenon
    <3> QED BY <3>1, <3>2 DEF TypeOK
  <2>2. TypeOK' /\ MsgHeld'
    BY <1>6, <2>1 DEF HwReset, TypeOK, RingInv, MsgHeld, ringVars, sendVars
  <2> QED BY <2>2, <1>6, RestKeepsRing DEF HwReset, TypeOK, ringVars, sendVars
<1>7. ASSUME UNCHANGED vars
      PROVE  TypeOK' /\ RingInv'
  <2>1. TypeOK' /\ MsgHeld'
    BY <1>7 DEF vars, TypeOK, RingInv, MsgHeld, ringVars, hwVars, sendVars
  <2> QED BY <2>1, <1>7, RestKeepsRing
          DEF vars, TypeOK, ringVars, hwVars, sendVars
<1> QED BY <1>1, <1>2, <1>3, <1>4, <1>5, <1>6, <1>7, CleanKeepsRing,
           DescKeepsRing, TailKeepsRing, FetchKeepsRing, WriteBackKeepsRing,
           ReinitKeepsRing DEF Next, Send

(* RingInv always holds.                                                    *)
LEMMA RingInvariant == Spec => [](TypeOK /\ RingInv)
<1>1. Init => TypeOK /\ RingInv
  BY RingInit
<1>2. TypeOK /\ RingInv /\ [Next]_vars => (TypeOK /\ RingInv)'
  BY RingInductive
<1> QED BY <1>1, <1>2, PTL DEF Spec

-----------------------------------------------------------------------------
(* The invariant of the holders is inductive. *)

(* At first there is no message.                                            *)
LEMMA HolderInit == Init => HolderInv
BY NoneAssumption
   DEF Init, HolderInv, OneHolder, HoldersLive, Built, Slot

(* What a message held by a sender or a slot is                            *)
LEMMA HeldAreMsgs ==
  ASSUME TypeOK, RingInv, HolderInv
  PROVE  /\ count \in Nat /\ live \subseteq Nat /\ None \notin live
         /\ \A m \in live : m <= count
         /\ \A t \in Senders : None \notin got[t]
         /\ \A t \in Senders : Built(t) => msg[t] # None
<1>1. count \in Nat /\ live \subseteq Nat
  BY DEF TypeOK
<1>2. None \notin live
  BY <1>1, NoneAssumption
<1>3. \A m \in live : m <= count
  <2>1. \A m \in live : m \in 1 .. count
    BY DEF HolderInv, HoldersLive
  <2> QED BY <2>1, <1>1
<1>4. /\ \A t \in Senders : None \notin got[t]
      /\ \A t \in Senders : Built(t) => msg[t] # None
  BY <1>2 DEF HolderInv, HoldersLive
<1> QED BY <1>1, <1>2, <1>3, <1>4

(* The reclaimed messages pass from the ring to the sender.                *)
LEMMA CleanKeepsHolders ==
  ASSUME TypeOK, RingInv, HolderInv, NEW t \in Senders, SendClean(t)
  PROVE  HolderInv'
<1>1. PICK s \in SUBSET Slot :
        /\ Cleans(s, FALSE)
        /\ got'    = [got EXCEPT ![t] = {tx_msg[i] : i \in s}]
        /\ tx_msg' = [i \in Slot |-> IF i \in s THEN None ELSE tx_msg[i]]
  BY DEF SendClean
<1>2. /\ pc[t] = "clean" /\ pc' = [pc EXCEPT ![t] = "free"]
      /\ UNCHANGED <<msg, live, count>>
  BY DEF SendClean
<1>3. \A i \in s : tx_msg[i] # None
  BY <1>1 DEF Cleans, Passes
<1>4. \A u \in Senders : Built(u)' <=> Built(u)
  BY <1>2 DEF Built, TypeOK
<1>5. /\ got'[t] = {tx_msg[i] : i \in s}
      /\ \A u \in Senders : u # t => got'[u] = got[u]
  BY <1>1 DEF TypeOK
<1>6. \A i \in Slot : \/ i \in s /\ tx_msg'[i] = None
                      \/ i \notin s /\ tx_msg'[i] = tx_msg[i]
  BY <1>1
<1>7. \A u \in Senders : None \notin got'[u]
  BY <1>3, <1>5, HeldAreMsgs
<1>8. OneHolder'
  <2>1. \A i, j \in Slot : tx_msg'[i] # None /\ tx_msg'[i] = tx_msg'[j] => i = j
    BY <1>6 DEF HolderInv, OneHolder
  <2>2. ASSUME NEW i \in Slot, NEW u \in Senders
        PROVE  tx_msg'[i] \notin got'[u] /\ (Built(u)' => tx_msg'[i] # msg'[u])
    <3>1. CASE i \in s
      <4>1. tx_msg'[i] = None
        BY <3>1, <1>6
      <4> QED BY <4>1, <1>2, <1>4, <1>7, HeldAreMsgs
    <3>2. CASE i \notin s
      <4>1. tx_msg'[i] = tx_msg[i]
        BY <3>2, <1>6
      <4>2. Built(u)' => tx_msg'[i] # msg'[u]
        BY <4>1, <1>2, <1>4 DEF HolderInv, OneHolder
      <4>3. CASE u = t
        <5>1. \A j \in s : tx_msg[j] # tx_msg[i]
          BY <3>2, <1>3 DEF HolderInv, OneHolder
        <5> QED BY <4>1, <4>2, <4>3, <5>1, <1>5
      <4>4. CASE u # t
        BY <4>1, <4>2, <4>4, <1>5 DEF HolderInv, OneHolder
      <4> QED BY <4>3, <4>4
    <3> QED BY <3>1, <3>2
  <2>3. ASSUME NEW u \in Senders, NEW w \in Senders
        PROVE  /\ Built(u)' => msg'[u] \notin got'[w]
               /\ u # w => got'[u] \cap got'[w] = {}
               /\ u # w /\ Built(u)' /\ Built(w)' => msg'[u] # msg'[w]
    <3>1. Built(u)' => msg'[u] \notin got'[w]
      <4>1. CASE w = t
        BY <4>1, <1>2, <1>4, <1>5 DEF HolderInv, OneHolder
      <4>2. CASE w # t
        BY <4>2, <1>2, <1>4, <1>5 DEF HolderInv, OneHolder
      <4> QED BY <4>1, <4>2
    <3>2. u # w => got'[u] \cap got'[w] = {}
      <4>1. \A x \in Senders : x # t => got'[t] \cap got'[x] = {}
        BY <1>5 DEF HolderInv, OneHolder
      <4>2. u # w /\ u # t /\ w # t => got'[u] \cap got'[w] = {}
        BY <1>5 DEF HolderInv, OneHolder
      <4> QED BY <4>1, <4>2
    <3>3. u # w /\ Built(u)' /\ Built(w)' => msg'[u] # msg'[w]
      BY <1>2, <1>4 DEF HolderInv, OneHolder
    <3> QED BY <3>1, <3>2, <3>3
  <2> QED BY <2>1, <2>2, <2>3 DEF OneHolder
<1>9. HoldersLive'
  <2>1. \A i \in Slot : tx_msg'[i] # None => tx_msg'[i] \in live'
    BY <1>2, <1>6 DEF HolderInv, HoldersLive
  <2>2. \A u \in Senders : got'[u] \subseteq live'
    BY <1>2, <1>3, <1>5 DEF HolderInv, HoldersLive
  <2>3. ASSUME NEW m \in live
        PROVE  \/ \E i \in Slot : tx_msg'[i] = m
               \/ \E u \in Senders : m \in got'[u]
               \/ \E u \in Senders : Built(u)' /\ msg'[u] = m
    <3>1. CASE \E i \in Slot : tx_msg[i] = m
      BY <3>1, <1>5, <1>6
    <3>2. CASE \E u \in Senders : m \in got[u]
      <4>1. got[t] = {}
        BY <1>2 DEF RingInv, MsgHeld
      <4> QED BY <3>2, <4>1, <1>5
    <3>3. CASE \E u \in Senders : Built(u) /\ msg[u] = m
      BY <3>3, <1>2, <1>4
    <3> QED BY <3>1, <3>2, <3>3 DEF HolderInv, HoldersLive
  <2> QED BY <2>1, <2>2, <2>3, <1>2, <1>4 DEF HolderInv, HoldersLive
<1> QED BY <1>8, <1>9 DEF HolderInv

(* The reclaimed messages are released.                                    *)
LEMMA FreeKeepsHolders ==
  ASSUME TypeOK, RingInv, HolderInv, NEW t \in Senders, SendFree(t)
  PROVE  HolderInv'
<1>1. /\ live' = live \ got[t] /\ pc[t] = "free"
      /\ got' = [got EXCEPT ![t] = {}] /\ pc' = [pc EXCEPT ![t] = "alloc"]
      /\ UNCHANGED <<tx_msg, msg, count>>
  BY DEF SendFree, ringVars
<1>2. \A u \in Senders : Built(u)' <=> Built(u)
  BY <1>1 DEF Built, TypeOK
<1>3. got'[t] = {} /\ \A u \in Senders : u # t => got'[u] = got[u]
  BY <1>1 DEF TypeOK
<1>4. \A u \in Senders : got'[u] \subseteq got[u]
  BY <1>3
<1>5. OneHolder'
  <2>1. \A i \in Slot, u \in Senders :
          tx_msg'[i] \notin got'[u] /\ (Built(u)' => tx_msg'[i] # msg'[u])
    BY <1>1, <1>2, <1>4 DEF HolderInv, OneHolder
  <2>2. \A u, w \in Senders :
          /\ Built(u)' => msg'[u] \notin got'[w]
          /\ u # w => got'[u] \cap got'[w] = {}
          /\ u # w /\ Built(u)' /\ Built(w)' => msg'[u] # msg'[w]
    BY <1>1, <1>2, <1>4 DEF HolderInv, OneHolder
  <2> QED BY <2>1, <2>2, <1>1 DEF HolderInv, OneHolder
<1>6. HoldersLive'
  <2>1. \A i \in Slot : tx_msg'[i] # None => tx_msg'[i] \in live'
    BY <1>1 DEF HolderInv, OneHolder, HoldersLive
  <2>2. \A u \in Senders : got'[u] \subseteq live'
    BY <1>1, <1>3 DEF HolderInv, OneHolder, HoldersLive
  <2>3. \A u \in Senders : Built(u)' => msg'[u] \in live'
    BY <1>1, <1>2 DEF HolderInv, OneHolder, HoldersLive
  <2>4. ASSUME NEW m \in live'
        PROVE  \/ \E i \in Slot : tx_msg'[i] = m
               \/ \E u \in Senders : m \in got'[u]
               \/ \E u \in Senders : Built(u)' /\ msg'[u] = m
    <3>1. m \in live /\ m \notin got[t]
      BY <1>1
    <3> QED BY <3>1, <1>1, <1>2, <1>3 DEF HolderInv, HoldersLive
  <2> QED BY <2>1, <2>2, <2>3, <2>4, <1>1 DEF HolderInv, HoldersLive
<1> QED BY <1>5, <1>6 DEF HolderInv

(* A new message is nobody's else.                                         *)
LEMMA AllocKeepsHolders ==
  ASSUME TypeOK, RingInv, HolderInv, NEW t \in Senders, SendAlloc(t)
  PROVE  HolderInv'
<1>1. /\ count' = count + 1 /\ live' = live \cup {count + 1}
      /\ msg' = [msg EXCEPT ![t] = count + 1]
      /\ pc[t] = "alloc" /\ pc' = [pc EXCEPT ![t] = "send"]
      /\ UNCHANGED <<tx_msg, got>>
  BY DEF SendAlloc, ringVars
<1>2. /\ count \in Nat /\ live \subseteq 1 .. count
      /\ count + 1 \notin live /\ count + 1 # None
  <2>1. count \in Nat /\ \A m \in live : m <= count
    BY HeldAreMsgs
  <2>2. count + 1 \in Nat /\ count + 1 \notin live
    BY <2>1
  <2> QED BY <2>1, <2>2, NoneAssumption DEF HolderInv, HoldersLive
<1>3. /\ Built(t)' /\ ~ Built(t) /\ msg'[t] = count + 1
      /\ \A u \in Senders : u # t => (Built(u)' <=> Built(u)) /\ msg'[u] = msg[u]
  BY <1>1 DEF Built, TypeOK
<1>4. \A i \in Slot : tx_msg[i] # count + 1
  BY <1>2 DEF HolderInv, HoldersLive
<1>5. \A u \in Senders : count + 1 \notin got[u]
                         /\ (Built(u) => msg[u] # count + 1)
  BY <1>2 DEF HolderInv, HoldersLive
<1>6. OneHolder'
  <2>1. \A i \in Slot, u \in Senders :
          tx_msg'[i] \notin got'[u] /\ (Built(u)' => tx_msg'[i] # msg'[u])
    BY <1>1, <1>3, <1>4 DEF HolderInv, OneHolder
  <2>2. \A u, w \in Senders :
          /\ Built(u)' => msg'[u] \notin got'[w]
          /\ u # w => got'[u] \cap got'[w] = {}
          /\ u # w /\ Built(u)' /\ Built(w)' => msg'[u] # msg'[w]
    BY <1>1, <1>3, <1>5 DEF HolderInv, OneHolder
  <2> QED BY <2>1, <2>2, <1>1 DEF HolderInv, OneHolder
<1>7. HoldersLive'
  <2>1. live' \subseteq 1 .. count'
    BY <1>1, <1>2
  <2>2. ASSUME NEW m \in live'
        PROVE  \/ \E i \in Slot : tx_msg'[i] = m
               \/ \E u \in Senders : m \in got'[u]
               \/ \E u \in Senders : Built(u)' /\ msg'[u] = m
    <3>1. CASE m = count + 1
      BY <3>1, <1>3
    <3>2. CASE m # count + 1
      <4>1. \/ \E i \in Slot : tx_msg[i] = m
            \/ \E u \in Senders : m \in got[u]
            \/ \E u \in Senders : Built(u) /\ msg[u] = m
        BY <3>2, <1>1 DEF HolderInv, HoldersLive
      <4> QED BY <4>1, <1>1, <1>3
    <3> QED BY <3>1, <3>2
  <2> QED BY <2>1, <2>2, <1>1, <1>3 DEF HolderInv, HoldersLive
<1> QED BY <1>6, <1>7 DEF HolderInv

(* Without room in the ring the message is released.                       *)
LEMMA NoSpaceKeepsHolders ==
  ASSUME TypeOK, RingInv, HolderInv, NEW t \in Senders, SendNoSpace(t)
  PROVE  HolderInv'
<1>1. /\ live' = live \ {msg[t]} /\ msg' = [msg EXCEPT ![t] = None]
      /\ pc[t] = "send" /\ pc' = [pc EXCEPT ![t] = "idle"]
      /\ UNCHANGED <<tx_msg, got, count>>
  BY DEF SendNoSpace, ringVars
<1>2. /\ ~ Built(t)' /\ Built(t)
      /\ \A u \in Senders : u # t => (Built(u)' <=> Built(u)) /\ msg'[u] = msg[u]
  BY <1>1 DEF Built, TypeOK
<1>3. OneHolder'
  BY <1>1, <1>2 DEF HolderInv, OneHolder
<1>4. HoldersLive'
  <2>1. \A i \in Slot : tx_msg'[i] # None => tx_msg'[i] \in live'
    BY <1>1, <1>2 DEF HolderInv, OneHolder, HoldersLive
  <2>2. \A u \in Senders :
          got'[u] \subseteq live' /\ (Built(u)' => msg'[u] \in live')
    BY <1>1, <1>2 DEF HolderInv, OneHolder, HoldersLive
  <2>3. ASSUME NEW m \in live'
        PROVE  \/ \E i \in Slot : tx_msg'[i] = m
               \/ \E u \in Senders : m \in got'[u]
               \/ \E u \in Senders : Built(u)' /\ msg'[u] = m
    <3>1. /\ \/ \E i \in Slot : tx_msg[i] = m
             \/ \E u \in Senders : m \in got[u]
             \/ \E u \in Senders : Built(u) /\ msg[u] = m
          /\ m # msg[t]
      BY <1>1 DEF HolderInv, HoldersLive
    <3> QED BY <3>1, <1>1, <1>2
  <2> QED BY <2>1, <2>2, <2>3, <1>1 DEF HolderInv, HoldersLive
<1> QED BY <1>3, <1>4 DEF HolderInv

(* The message passes from the sender to the ring.                         *)
LEMMA DescKeepsHolders ==
  ASSUME TypeOK, RingInv, HolderInv, NEW t \in Senders, SendDesc(t)
  PROVE  HolderInv'
<1>1. /\ tx_msg' = [tx_msg EXCEPT ![next_to_use] = msg[t]]
      /\ pc[t] = "send" /\ pc' = [pc EXCEPT ![t] = "tail"]
      /\ UNCHANGED <<live, msg, got, count>>
  BY DEF SendDesc
<1>2. /\ ~ Built(t)' /\ Built(t)
      /\ \A u \in Senders : u # t => (Built(u)' <=> Built(u))
  BY <1>1 DEF Built, TypeOK
<1>3. next_to_use \in Slot /\ tx_msg[next_to_use] = None
  BY Places DEF RingInv, SlotState
<1>4. /\ tx_msg'[next_to_use] = msg[t]
      /\ \A i \in Slot : i # next_to_use => tx_msg'[i] = tx_msg[i]
  BY <1>1, <1>3 DEF TypeOK
<1>5. OneHolder'
  <2>1. \A i, j \in Slot : tx_msg'[i] # None /\ tx_msg'[i] = tx_msg'[j] => i = j
    BY <1>2, <1>4 DEF HolderInv, OneHolder
  <2>2. \A i \in Slot, u \in Senders :
          tx_msg'[i] \notin got'[u] /\ (Built(u)' => tx_msg'[i] # msg'[u])
    BY <1>1, <1>2, <1>4 DEF HolderInv, OneHolder
  <2> QED BY <2>1, <2>2, <1>1, <1>2 DEF HolderInv, OneHolder
<1>6. HoldersLive'
  <2>1. \A i \in Slot : tx_msg'[i] # None => tx_msg'[i] \in live'
    BY <1>1, <1>2, <1>4 DEF HolderInv, HoldersLive
  <2>2. ASSUME NEW m \in live'
        PROVE  \/ \E i \in Slot : tx_msg'[i] = m
               \/ \E u \in Senders : m \in got'[u]
               \/ \E u \in Senders : Built(u)' /\ msg'[u] = m
    <3> m \in live
      BY <1>1
    <3>1. CASE \E i \in Slot : tx_msg[i] = m
      BY <3>1, <1>3, <1>4, HeldAreMsgs
    <3>2. CASE \E u \in Senders : m \in got[u]
      BY <3>2, <1>1
    <3>3. CASE \E u \in Senders : Built(u) /\ msg[u] = m
      BY <3>3, <1>1, <1>2, <1>3, <1>4
    <3> QED BY <3>1, <3>2, <3>3 DEF HolderInv, HoldersLive
  <2> QED BY <2>1, <2>2, <1>1, <1>2 DEF HolderInv, HoldersLive
<1> QED BY <1>5, <1>6 DEF HolderInv

(* Every message in the ring is released when the ring is made anew.       *)
LEMMA ReinitKeepsHolders ==
  ASSUME TypeOK, RingInv, HolderInv, Reinit
  PROVE  HolderInv'
<1>1. PICK s \in SUBSET Slot :
        Cleans(s, TRUE) /\ live' = live \ {tx_msg[i] : i \in s}
  BY DEF Reinit
<1>2. /\ \A t \in Senders : pc[t] = "idle"
      /\ tx_msg' = [i \in Slot |-> None]
      /\ UNCHANGED <<pc, msg, got, count>>
  BY DEF Reinit, sendVars
<1>3. \A t \in Senders : got[t] = {} /\ ~ Built(t) /\ ~ Built(t)'
  BY <1>2 DEF RingInv, MsgHeld, Built
<1>4. PICK k \in 0 .. RingSize :
        s = Run(k) /\ (k < RingSize => tx_msg[FromClean(k)] = None)
  BY <1>1 DEF Cleans, Passes, Run
<1>5. \A i \in Slot : tx_msg[i] # None => i \in s
  <2> SUFFICES ASSUME NEW i \in Slot, tx_msg[i] # None
               PROVE  Off(i) < k
    BY <1>4, Places, RunIs
  <2>1. Off(i) < Off(next_to_use)
    BY DEF RingInv, SlotState
  <2>2. CASE k < RingSize
    <3>1. k \in Slot
      BY <2>2, SizeFits DEF Slot
    <3>2. FromClean(k) \in Slot /\ Off(FromClean(k)) = k
      BY <3>1, Places, OffFromClean
    <3>3. ~ k < Off(next_to_use)
      BY <3>2, <2>2, <1>4 DEF RingInv, SlotState
    <3> QED BY <2>1, <3>3, Places, SizeFits
  <2>3. CASE ~ k < RingSize
    BY <2>3, Places, SizeFits
  <2> QED BY <2>2, <2>3
<1>6. live' = {}
  <2>1. \A m \in live : \E i \in Slot : tx_msg[i] = m
    BY <1>3 DEF HolderInv, HoldersLive
  <2>2. \A m \in live : m # None
    BY HeldAreMsgs
  <2> QED BY <2>1, <2>2, <1>1, <1>5
<1> QED BY <1>2, <1>3, <1>6 DEF HolderInv, OneHolder, HoldersLive

(* What moves no message keeps the invariant.                              *)
LEMMA RestKeepsHolders ==
  ASSUME HolderInv, UNCHANGED <<tx_msg, got, live, count>>,
         \A t \in Senders : Built(t)' <=> Built(t),
         \A t \in Senders : Built(t) => msg'[t] = msg[t]
  PROVE  HolderInv'
<1>1. OneHolder'
  BY DEF HolderInv, OneHolder
<1>2. HoldersLive'
  BY DEF HolderInv, HoldersLive
<1> QED BY <1>1, <1>2 DEF HolderInv

(* HolderInv is inductive relative to RingInv.                              *)
LEMMA HolderInductive ==
  TypeOK /\ RingInv /\ HolderInv /\ [Next]_vars => HolderInv'
<1> SUFFICES ASSUME TypeOK, RingInv, HolderInv, [Next]_vars
             PROVE  HolderInv'
  OBVIOUS
<1>1. ASSUME NEW t \in Senders, SendStart(t) \/ SendNoMem(t) \/ SendTail(t)
      PROVE  HolderInv'
  <2>1. /\ UNCHANGED <<tx_msg, got, live, count>>
        /\ pc[t] # "send"
        /\ \/ pc' = [pc EXCEPT ![t] = "idle"]
           \/ pc' = [pc EXCEPT ![t] = "clean"]
        /\ \/ msg' = msg
           \/ msg' = [msg EXCEPT ![t] = None]
    BY <1>1 DEF SendStart, SendNoMem, SendTail, ringVars
  <2>2. /\ \A u \in Senders : Built(u)' <=> Built(u)
        /\ \A u \in Senders : Built(u) => msg'[u] = msg[u]
    BY <2>1 DEF Built, TypeOK
  <2> QED BY <2>1, <2>2, RestKeepsHolders
<1>2. ASSUME HwFetch \/ HwWriteBack \/ HwReset \/ UNCHANGED vars
      PROVE  HolderInv'
  <2>1. UNCHANGED <<tx_msg, got, live, count, pc, msg>>
    BY <1>2 DEF HwFetch, HwWriteBack, HwReset, vars, ringVars, sendVars
  <2> QED BY <2>1, RestKeepsHolders DEF Built
<1> QED BY <1>1, <1>2, CleanKeepsHolders, FreeKeepsHolders, AllocKeepsHolders,
           NoSpaceKeepsHolders, DescKeepsHolders, ReinitKeepsHolders
        DEF Next, Send

(* HolderInv always holds.                                                  *)
LEMMA HolderInvariant == Spec => []HolderInv
<1>1. Init => HolderInv
  BY HolderInit
<1>2. TypeOK /\ RingInv /\ HolderInv /\ [Next]_vars => HolderInv'
  BY HolderInductive
<1> QED BY <1>1, <1>2, RingInvariant, PTL DEF Spec

-----------------------------------------------------------------------------
(* The properties *)

(* What RingInv says of the slots is RingExact.                             *)
LEMMA RingExactHolds ==
  ASSUME TypeOK, RingInv
  PROVE  RingExact
<1>1. \A i \in Slot : (tx_msg[i] # None) <=> i \in InFlight
  BY Places, InFlightIs DEF RingInv, SlotState
<1>2. ASSUME NEW i \in Slot \ InFlight
      PROVE  desc[i] = "zero"
  <2>1. Off(next_to_use) <= Off(i)
    BY <1>2, Places, InFlightIs
  <2> QED BY <2>1 DEF RingInv, SlotState
<1>3. Unused = RingSize - 1 - Cardinality(InFlight)
  BY Places, InFlightIs, UnusedIs
<1> QED BY <1>1, <1>2, <1>3 DEF RingExact

(* What HolderInv says of the messages is MsgsOwnedOnce.                    *)
LEMMA OwnedOnceHolds ==
  ASSUME TypeOK, RingInv, HolderInv
  PROVE  MessagesOwnedOnce
<1> SUFFICES ASSUME NEW m \in Msg
             PROVE  LET holders == {<<"ring", i>> : i \in {j \in Slot : tx_msg[j] = m}}
                          \cup {<<"built", t>> : t \in {u \in Senders :
                                                  pc[u] = "send" /\ msg[u] = m}}
                          \cup {<<"got", t>> : t \in {u \in Senders : m \in got[u]}}
                    IN Cardinality(holders) = IF m \in live THEN 1 ELSE 0
  BY DEF MessagesOwnedOnce
<1> DEFINE ring == {j \in Slot : tx_msg[j] = m}
           built == {u \in Senders : pc[u] = "send" /\ msg[u] = m}
           taken == {u \in Senders : m \in got[u]}
           holders == {<<"ring", i>> : i \in ring}
                        \cup {<<"built", t>> : t \in built}
                        \cup {<<"got", t>> : t \in taken}
<1>1. m # None
  BY BoundAssumption, NoneAssumption DEF Msg
<1>2. CASE m \notin live
  <2>1. ring = {} /\ built = {} /\ taken = {}
    BY <1>1, <1>2 DEF HolderInv, HoldersLive, Built
  <2>2. holders = {}
    BY <2>1
  <2> QED BY <2>2, <1>2, FS_EmptySet
<1>3. CASE m \in live
  <2>1. CASE \E i \in Slot : tx_msg[i] = m
    <3>1. PICK i \in Slot : tx_msg[i] = m
      BY <2>1
    <3>2. ring = {i} /\ built = {} /\ taken = {}
      BY <3>1, <1>1 DEF HolderInv, OneHolder, Built
    <3>3. holders = {<<"ring", i>>}
      BY <3>2
    <3> QED BY <3>3, <1>3, FS_Singleton
  <2>2. CASE \E t \in Senders : m \in got[t]
    <3>1. PICK t \in Senders : m \in got[t]
      BY <2>2
    <3>2. ring = {} /\ built = {} /\ taken = {t}
      BY <3>1 DEF HolderInv, OneHolder, Built
    <3>3. holders = {<<"got", t>>}
      BY <3>2
    <3> QED BY <3>3, <1>3, FS_Singleton
  <2>3. CASE \E t \in Senders : Built(t) /\ msg[t] = m
    <3>1. PICK t \in Senders : Built(t) /\ msg[t] = m
      BY <2>3
    <3>2. ring = {} /\ built = {t} /\ taken = {}
      BY <3>1 DEF HolderInv, OneHolder, Built
    <3>3. holders = {<<"built", t>>}
      BY <3>2
    <3> QED BY <3>3, <1>3, FS_Singleton
  <2> QED BY <2>1, <2>2, <2>3, <1>3 DEF HolderInv, HoldersLive
<1> QED BY <1>2, <1>3

(* The indices of the send ring say exactly which slots the device has,    *)
(* IDPF_CTLQ_DESC_UNUSED is the room that is left, and each message that   *)
(* idpf_send_mb_msg allocated is with one sender, or in one slot, or freed *)
(* - for every number of senders and every ring size, over wraps, a full   *)
(* ring, failed allocations and resets.                                    *)
THEOREM SendRingSafe == Spec => []RingSound
<1>1. TypeOK /\ RingInv /\ HolderInv => RingSound
  BY RingExactHolds, OwnedOnceHolds DEF RingSound
<1> QED BY <1>1, RingInvariant, HolderInvariant, PTL

(* The device executes the messages that idpf_ctlq_send queued, each once  *)
(* and in the order of the tail writes.                                    *)
THEOREM OrderSafe == Spec => []ExecutedInOrder
<1>1. TypeOK /\ RingInv => ExecutedInOrder
  <2> SUFFICES ASSUME TypeOK, RingInv
               PROVE  ExecutedInOrder
    OBVIOUS
  <2> DEFINE Elt == Nat \cup {None}
             n == Len(executed)
  <2>1. executed \in Seq(Elt) /\ sent \in Seq(Elt)
    BY SeqMonotonic DEF TypeOK
  <2>2. n \in Nat /\ Len(sent) \in Nat /\ n <= Len(sent)
    <3>1. n \in Nat /\ Len(sent) \in Nat
      BY <2>1, LenProperties
    <3>2. n = Cleaned + Off(fetched) /\ Len(sent) = Cleaned + Off(tail)
            /\ Cleaned \in Nat
      BY DEF RingInv, HistoryFits
    <3> QED BY <3>1, <3>2, Places
  <2>3. \A i \in 1 .. n : executed[i] = sent[i]
    BY DEF RingInv, HistoryFits
  <2>4. \A i \in 1 .. n : executed[i] \in Elt /\ sent[i] \in Elt
    BY <2>1, <2>2, <2>3, ElementOfSeq
  <2> HIDE DEF n, Elt
  <2>5. /\ SubSeq(executed, 1, n) \in Seq(Elt) /\ SubSeq(sent, 1, n) \in Seq(Elt)
        /\ Len(SubSeq(executed, 1, n)) = Len(SubSeq(sent, 1, n))
        /\ Len(SubSeq(executed, 1, n)) = IF 1 <= n THEN n - 1 + 1 ELSE 0
        /\ \A i \in 1 .. n - 1 + 1 :
             SubSeq(executed, 1, n)[i] = executed[1 + i - 1]
               /\ SubSeq(sent, 1, n)[i] = sent[1 + i - 1]
    BY <2>2, <2>4, SubSeqProperties
  <2>6. \A i \in 1 .. Len(SubSeq(executed, 1, n)) :
          SubSeq(executed, 1, n)[i] = SubSeq(sent, 1, n)[i]
    BY <2>2, <2>3, <2>5
  <2>7. SubSeq(executed, 1, n) = SubSeq(sent, 1, n)
    BY <2>5, <2>6, SeqEqual
  <2> QED BY <2>2, <2>7 DEF ExecutedInOrder, IsPrefix, n
<1> QED BY <1>1, RingInvariant, PTL

(* Neither idpf_mb_clean of any sender nor an error path releases a        *)
(* message, and with it the DMA buffer, that was queued and that the       *)
(* device has not written back.                                            *)
THEOREM BufferSafe == Spec => []BufferLiveUntilDone
<1>1. TypeOK /\ RingInv /\ HolderInv => BufferLiveUntilDone
  <2> SUFFICES ASSUME TypeOK, RingInv, HolderInv,
                      NEW n \in finished + 1 .. Len(sent)
               PROVE  sent[n] \in live
    BY DEF BufferLiveUntilDone
  <2>1. /\ finished \in Nat /\ finished = Cleaned + Off(done) /\ Cleaned \in Nat
        /\ Len(sent) = Cleaned + Off(tail)
    <3>1. Off(done) \in Nat /\ finished \in Nat
      BY Places DEF TypeOK
    <3>2. finished = Cleaned + Off(done)
      BY <3>1 DEF Cleaned
    <3> QED BY <3>1, <3>2 DEF RingInv, HistoryFits
  <2>2. PICK k \in Slot : n = Cleaned + k + 1 /\ k < Off(tail)
    <3>1. /\ Off(done) \in Nat /\ Off(tail) \in Nat /\ RingSize \in Nat
          /\ Off(tail) <= RingSize - 1
      BY Places
    <3>2. n \in Nat /\ Cleaned + 1 <= n /\ n <= Cleaned + Off(tail)
      BY <3>1, <2>1
    <3>3. PICK k \in Nat : n = Cleaned + k + 1
      BY <3>2, <2>1
    <3>4. k < Off(tail)
      BY <3>2, <3>3, <2>1, <3>1
    <3> QED BY <3>1, <3>3, <3>4 DEF Slot
  <2>3. PICK i \in Slot : Off(i) = k
    BY Places, OffFromClean
  <2>4. tx_msg[i] = sent[n] /\ tx_msg[i] # None
    <3>1. tx_msg[i] = sent[n]
      BY <2>2, <2>3 DEF RingInv, HistoryFits
    <3>2. Off(i) < Off(next_to_use)
      BY <2>2, <2>3, Places
    <3> QED BY <3>1, <3>2 DEF RingInv, SlotState
  <2> QED BY <2>4 DEF HolderInv, HoldersLive
<1> QED BY <1>1, RingInvariant, HolderInvariant, PTL

-----------------------------------------------------------------------------
(***************************************************************************)
(* The receive queue                                                       *)
(***************************************************************************)

Posting == mbx \in {"fill", "out"}

(* How many slots after next_to_clean hold a message or a posted buffer,   *)
(* those included that idpf_ctlq_post_rx_buffs has filled and not yet      *)
(* handed over                                                             *)
Posted ==
  IF Posting /\ Off(tail) > 0
    THEN IF ntp = next_to_clean THEN RingSize ELSE Off(ntp)
    ELSE Off(tail)

(* The device stays between the driver's two indices.                      *)
Indices ==
  /\ tail = next_to_post
  /\ Off(head) <= Off(tail)
  /\ Posting => \/ ntp = next_to_clean
                \/ 0 < Off(tail) /\ Off(tail) <= Off(ntp)
  /\ mbx \in {"handle", "post"} => Off(tail) <= RingSize - 2

(* The slots by their places: messages, posted buffers, the rest           *)
RecvSlots ==
  \A i \in Slot :
    /\ flags[i] \in Kind <=> Off(i) < Off(head)
    /\ Off(i) < Posted => rx_buff[i] # None
    /\ Off(head) <= Off(i) /\ Off(i) < Posted =>
         flags[i] = "avail" /\ addr[i] = rx_buff[i]

(* The messages in the ring are the last ones that arrived, in order.      *)
Numbered ==
  /\ arrived = received + Off(head)
  /\ mbx = "handle" => mid = received
  /\ \A i \in Slot : Off(i) < Off(head) =>
       /\ id[i] = received + Off(i) + 1
       /\ flags[i] = "indirect" => data[rx_buff[i]] = id[i]
  /\ mbx = "handle" /\ mbuf # None => data[mbuf] = mid

(* A buffer has one place.                                                 *)
OnePlace ==
  /\ \A i, j \in Slot : rx_buff[i] # None /\ rx_buff[i] = rx_buff[j] => i = j
  /\ \A i \in Slot : rx_buff[i] \notin lost /\ (mbuf # None => rx_buff[i] # mbuf)
  /\ mbuf \notin lost
  /\ \A b \in Buf : b = mbuf \/ b \in lost \/ \E i \in Slot : rx_buff[i] = b
  /\ mbx \in {"idle", "recv"} => mbuf = None

RecvInv == Indices /\ RecvSlots /\ Numbered /\ OnePlace

Empty == {i \in Slot : rx_buff[i] = None}

(* One slot more than buffers, and as many buffers dropped, at most, as    *)
(* messages had the ERR flag                                               *)
RoomInv ==
  /\ Cardinality(Empty) = 1 + Cardinality(lost) + IF mbuf = None THEN 0 ELSE 1
  /\ nerr < RingSize - 3 =>
       /\ Cardinality(lost) <= nerr
       /\ mbx \in {"idle", "recv"} => Off(tail) >= RingSize - 2 - nerr
       /\ mbx \in {"handle", "post", "fill"} => Off(tail) >= RingSize - 3 - nerr
       /\ mbx = "out" => mbuf = None /\ Posted >= RingSize - 1 - nerr
-----------------------------------------------------------------------------
(* Facts about the ring and the flags *)

(* What the assumption on the size of the ring says to the arithmetic       *)
LEMMA RecvSize == RingSize \in Nat /\ RingSize >= 3
BY RingSizeAssumption, RecvSizeAssumption

(* The kinds of message are three different values.                         *)
LEMMA KindIs ==
  /\ Kind \subseteq Flags /\ "zero" \in Flags /\ "avail" \in Flags
  /\ "zero" \notin Kind /\ "avail" \notin Kind /\ "indirect" \in Kind
BY DEF Kind, Flags

(* Buffers are numbers and None is none of them.                            *)
LEMMA BufIs == None \notin Buf /\ Buf \subseteq Nat
BY RecvSize, NoneAssumption DEF Buf

(* Distances and the two steps of the ring                                 *)
LEMMA RecvDist ==
  ASSUME NEW a \in Slot, NEW b \in Slot
  PROVE  /\ Dist(a, b) \in Nat /\ Dist(a, b) <= RingSize - 1
         /\ Dist(a, a) = 0
         /\ \A c \in Slot : Dist(a, b) = Dist(a, c) => b = c
         /\ Inc(b) \in Slot
         /\ Dist(a, b) < RingSize - 1 => Dist(a, Inc(b)) = Dist(a, b) + 1
         /\ Dist(a, b) = RingSize - 1 => Inc(b) = a
         /\ Dec(b) \in Slot
         /\ Dist(a, Dec(b)) = IF b = a THEN RingSize - 1 ELSE Dist(a, b) - 1
<1>1. Inc(b) \in Slot /\ Dec(b) \in Slot
  BY RecvSize DEF Inc, Dec, Slot
<1>2. Dist(a, a) = 0
  BY RecvSize DEF Dist, Slot
<1>3. /\ Dist(a, b) < RingSize - 1 => Dist(a, Inc(b)) = Dist(a, b) + 1
      /\ Dist(a, b) = RingSize - 1 => Inc(b) = a
  BY <1>1, RecvSize DEF Dist, Inc, Slot
<1>4. Dist(a, Dec(b)) = IF b = a THEN RingSize - 1 ELSE Dist(a, b) - 1
  BY <1>1, RecvSize DEF Dist, Dec, Slot
<1>5. ASSUME NEW c \in Slot
      PROVE  Dist(a, b) = Dist(a, c) => b = c
  BY RecvSize DEF Dist, Slot
<1>6. Dist(a, b) \in Nat /\ Dist(a, b) <= RingSize - 1
  BY RecvSize DEF Dist, Slot
<1> QED BY <1>1, <1>2, <1>3, <1>4, <1>5, <1>6

(* Distances from another slot                                             *)
LEMMA DistFrom ==
  ASSUME NEW a \in Slot, NEW b \in Slot, NEW c \in Slot
  PROVE  Dist(b, c) = IF Dist(a, b) <= Dist(a, c) THEN Dist(a, c) - Dist(a, b)
                      ELSE Dist(a, c) - Dist(a, b) + RingSize
BY RecvSize DEF Dist, Slot

(* Every place is the place of a slot.                                     *)
LEMMA SlotAt ==
  ASSUME next_to_clean \in Slot, NEW k \in Slot
  PROVE  \E i \in Slot : Off(i) = k
<1>1. CASE next_to_clean + k < RingSize
  <2>1. next_to_clean + k \in Slot
    BY <1>1, RecvSize DEF Slot
  <2>2. Dist(next_to_clean, next_to_clean + k) = k
    BY <2>1, RecvSize DEF Dist, Slot
  <2> QED BY <2>1, <2>2 DEF Off
<1>2. CASE ~ next_to_clean + k < RingSize
  <2>1. next_to_clean + k - RingSize \in Slot
    BY <1>2, RecvSize DEF Slot
  <2>2. Dist(next_to_clean, next_to_clean + k - RingSize) = k
    BY <2>1, RecvSize DEF Dist, Slot
  <2> QED BY <2>1, <2>2 DEF Off
<1> QED BY <1>1, <1>2

(* A set of numbers has a least one.                                       *)
LEMMA LeastOf ==
  ASSUME NEW T, T \subseteq Nat, T # {}
  PROVE  \E x \in T : \A y \in T : x <= y
<1>1. PICK x \in T : \A y \in T : ~ (<<y, x>> \in OpToRel(<, Nat))
  BY NatLessThanWellFounded, WFMin
<1>2. \A y \in T : ~ (y < x)
  BY <1>1 DEF OpToRel
<1> QED BY <1>2

(* Where the indices of the ring, the device and the loop are              *)
LEMMA RecvPlaces ==
  ASSUME RingTypeOK, RecvInv
  PROVE  /\ next_to_clean \in Slot /\ next_to_post \in Slot /\ tail \in Slot
         /\ head \in Slot /\ ntp \in Slot /\ tail = next_to_post
         /\ \A i \in Slot : Off(i) \in Nat /\ Off(i) <= RingSize - 1
         /\ \A i, j \in Slot : Off(i) = Off(j) => i = j
         /\ Off(next_to_clean) = 0
         /\ Off(head) <= Off(tail)
         /\ Posted \in Nat /\ Off(tail) <= Posted /\ Posted <= RingSize
         /\ ~ Posting => Posted = Off(tail)
         /\ Posting /\ ntp # next_to_clean =>
              /\ 0 < Off(tail) /\ Off(tail) <= Off(ntp) /\ Posted = Off(ntp)
         /\ Posting /\ ntp = next_to_clean =>
              Posted = IF Off(tail) > 0 THEN RingSize ELSE 0
         /\ RingSize \in Nat /\ RingSize >= 3
<1>1. /\ next_to_clean \in Slot /\ next_to_post \in Slot /\ tail \in Slot
      /\ head \in Slot /\ ntp \in Slot
  BY DEF RingTypeOK
<1>2. \A i \in Slot : Off(i) \in Nat /\ Off(i) <= RingSize - 1
  BY <1>1, RecvDist DEF Off
<1>3. \A i, j \in Slot : Off(i) = Off(j) => i = j
  BY <1>1, RecvDist DEF Off
<1>4. Off(next_to_clean) = 0
  BY <1>1, RecvDist DEF Off
<1>5. tail = next_to_post /\ Off(head) <= Off(tail)
        /\ (Posting => \/ ntp = next_to_clean
                       \/ 0 < Off(tail) /\ Off(tail) <= Off(ntp))
  BY DEF RecvInv, Indices
<1>6. Posted = IF Posting /\ Off(tail) > 0
                 THEN IF ntp = next_to_clean THEN RingSize ELSE Off(ntp)
                 ELSE Off(tail)
  BY DEF Posted
<1>7. /\ Posted \in Nat /\ Off(tail) <= Posted /\ Posted <= RingSize
      /\ ~ Posting => Posted = Off(tail)
      /\ Posting /\ ntp # next_to_clean =>
           /\ 0 < Off(tail) /\ Off(tail) <= Off(ntp) /\ Posted = Off(ntp)
      /\ Posting /\ ntp = next_to_clean =>
           Posted = IF Off(tail) > 0 THEN RingSize ELSE 0
  BY <1>1, <1>2, <1>4, <1>5, <1>6, RecvSize
<1> QED BY <1>1, <1>2, <1>3, <1>4, <1>5, <1>7, RecvSize

-----------------------------------------------------------------------------
(* The invariant of the ring is inductive. *)

(* idpf_ctlq_add starts with a ring full of posted buffers.                 *)
LEMMA RecvStarts == ArqInit => RingTypeOK /\ RecvInv
<1> SUFFICES ASSUME ArqInit
             PROVE  RingTypeOK /\ RecvInv
  OBVIOUS
<1>1. 0 \in Slot /\ RingSize - 1 \in Slot /\ Buf \subseteq Slot
        /\ \A i \in Slot : i \in Buf <=> i < RingSize - 1
  BY RecvSize DEF Slot, Buf
<1>2. \A i \in Slot : Off(i) = i /\ i \in Nat
  BY RecvSize DEF ArqInit, Off, Dist, Slot
<1>3. RingTypeOK
  <2>1. err \in [Slot -> BOOLEAN] /\ failed \in BOOLEAN
    BY Zenon DEF ArqInit
  <2>2. flags \in [Slot -> Flags]
    BY KindIs DEF ArqInit
  <2> QED BY <1>1, <2>1, <2>2 DEF ArqInit, RingTypeOK
<1>4. Posted = RingSize - 1
  BY <1>1, <1>2 DEF ArqInit, Posted, Posting
<1>5. Indices
  BY <1>1, <1>2, RecvSize DEF ArqInit, Indices, Posting
<1>6. RecvSlots
  <2>1. head = 0 /\ Off(head) = 0
    BY <1>1, <1>2 DEF ArqInit
  <2>2. \A i \in Slot : flags[i] \notin Kind
    BY KindIs DEF ArqInit
  <2>3. \A i \in Slot : Off(i) < Posted =>
          rx_buff[i] = i /\ i # None /\ flags[i] = "avail" /\ addr[i] = i
    BY <1>1, <1>2, <1>4, NoneAssumption DEF ArqInit
  <2> QED BY <2>1, <2>2, <2>3, <1>2 DEF RecvSlots
<1>7. Numbered
  BY <1>1, <1>2 DEF ArqInit, Numbered
<1>8. OnePlace
  BY <1>1, BufIs DEF ArqInit, OnePlace
<1> QED BY <1>3, <1>5, <1>6, <1>7, <1>8 DEF RecvInv

(* The device writes a message where a buffer is posted.                   *)
LEMMA WriteKeepsRing ==
  ASSUME RingTypeOK, RecvInv, NEW k \in Kind, NEW e \in BOOLEAN, HwWrite(k, e)
  PROVE  RingTypeOK' /\ RecvInv'
<1>1. /\ head # tail
      /\ arrived' = arrived + 1
      /\ flags' = [flags EXCEPT ![head] = k]
      /\ id' = [id EXCEPT ![head] = arrived + 1]
      /\ data' = IF k = "indirect" /\ addr[head] # None
                   THEN [data EXCEPT ![addr[head]] = arrived + 1] ELSE data
      /\ head' = Inc(head)
      /\ UNCHANGED <<addr, rx_buff, next_to_clean, next_to_post, tail, mbx,
                     mid, mbuf, failed, ntp, received, lost, nerr>>
  BY DEF HwWrite, taskVars
<1>2. Off(head) < Off(tail)
  <2>1. Off(head) # Off(tail)
    BY <1>1, RecvPlaces
  <2> QED BY <2>1, RecvPlaces
<1>3. head' \in Slot /\ Off(head)' = Off(head) + 1
  <2>1. head \in Slot /\ next_to_clean \in Slot /\ Off(head) < RingSize - 1
    BY <1>2, RecvPlaces
  <2> QED BY <2>1, <1>1, RecvDist DEF Off
<1>4. /\ \A i \in Slot : Off(i)' = Off(i)
      /\ Off(tail)' = Off(tail) /\ Off(ntp)' = Off(ntp)
      /\ Posting' <=> Posting
  BY <1>1 DEF Off, Posting
<1>5. Posted' = Posted
  BY <1>1, <1>4 DEF Posted
<1>6. /\ flags'[head] = k /\ id'[head] = arrived + 1
      /\ \A i \in Slot : i # head => flags'[i] = flags[i] /\ id'[i] = id[i]
  BY <1>1, RecvPlaces DEF RingTypeOK
<1>7. /\ flags[head] = "avail" /\ addr[head] = rx_buff[head]
      /\ rx_buff[head] # None /\ rx_buff[head] \in Buf
  <2>1. rx_buff[head] # None /\ flags[head] = "avail"
          /\ addr[head] = rx_buff[head]
    BY <1>2, RecvPlaces DEF RecvInv, RecvSlots
  <2> QED BY <2>1, RecvPlaces DEF RingTypeOK
<1>8. /\ k = "indirect" => data'[rx_buff[head]] = arrived + 1
      /\ \A b \in Buf : b # rx_buff[head] => data'[b] = data[b]
      /\ data' \in [Buf -> Nat]
  BY <1>1, <1>7 DEF RingTypeOK
<1>9. RingTypeOK'
  <2>1. err' \in [Slot -> BOOLEAN]
    <3>1. err' = [err EXCEPT ![head] = e] /\ err \in [Slot -> BOOLEAN]
      BY Zenon DEF HwWrite, RingTypeOK
    <3> QED BY <3>1, Zenon
  <2>2. flags' \in [Slot -> Flags] /\ id' \in [Slot -> Nat] /\ arrived' \in Nat
    BY <1>1, KindIs DEF RingTypeOK
  <2>3. failed' \in BOOLEAN
    BY <1>1, Zenon DEF RingTypeOK
  <2> QED BY <1>1, <1>3, <1>8, <2>1, <2>2, <2>3 DEF RingTypeOK
<1>10. Indices'
  BY <1>1, <1>2, <1>3, <1>4, RecvPlaces DEF RecvInv, Indices
<1>11. RecvSlots'
  <2> SUFFICES ASSUME NEW i \in Slot
               PROVE  /\ flags'[i] \in Kind <=> Off(i)' < Off(head)'
                      /\ Off(i)' < Posted' => rx_buff'[i] # None
                      /\ Off(head)' <= Off(i)' /\ Off(i)' < Posted' =>
                           flags'[i] = "avail" /\ addr'[i] = rx_buff'[i]
    BY DEF RecvSlots
  <2>1. /\ flags[i] \in Kind <=> Off(i) < Off(head)
        /\ Off(i) < Posted => rx_buff[i] # None
        /\ Off(head) <= Off(i) /\ Off(i) < Posted =>
             flags[i] = "avail" /\ addr[i] = rx_buff[i]
    BY DEF RecvInv, RecvSlots
  <2>2. CASE i = head
    BY <2>1, <2>2, <1>1, <1>3, <1>4, <1>5, <1>6, <1>7, RecvPlaces
  <2>3. CASE i # head
    <3>1. Off(i) # Off(head)
      BY <2>3, RecvPlaces
    <3> QED BY <2>1, <2>3, <3>1, <1>1, <1>3, <1>4, <1>5, <1>6, RecvPlaces
  <2> QED BY <2>2, <2>3
<1>12. Numbered'
  <2>1. arrived = received + Off(head) /\ received \in Nat /\ arrived \in Nat
    BY DEF RecvInv, Numbered, RingTypeOK
  <2>2. ASSUME NEW i \in Slot, Off(i)' < Off(head)'
        PROVE  /\ id'[i] = received' + Off(i)' + 1
               /\ flags'[i] = "indirect" => data'[rx_buff'[i]] = id'[i]
    <3>1. CASE i = head
      BY <3>1, <2>1, <1>1, <1>4, <1>6, <1>8
    <3>2. CASE i # head
      <4>1. Off(i) < Off(head)
        <5>1. Off(i) # Off(head)
          BY <3>2, RecvPlaces
        <5> QED BY <5>1, <2>2, <1>3, <1>4, RecvPlaces
      <4>2. rx_buff[i] # rx_buff[head] /\ rx_buff[i] \in Buf
        <5>1. rx_buff[i] # None
          BY <4>1, RecvPlaces DEF RecvInv, RecvSlots
        <5> QED BY <5>1, <3>2, <1>7, RecvPlaces DEF RecvInv, OnePlace, RingTypeOK
      <4>3. /\ id[i] = received + Off(i) + 1
            /\ flags[i] = "indirect" => data[rx_buff[i]] = id[i]
        BY <4>1 DEF RecvInv, Numbered
      <4> QED BY <4>2, <4>3, <3>2, <1>1, <1>4, <1>6, <1>8
    <3> QED BY <3>1, <3>2
  <2>3. ASSUME mbx' = "handle", mbuf' # None
        PROVE  data'[mbuf'] = mid'
    <3>1. mbuf \in Buf /\ mbuf # rx_buff[head] /\ data[mbuf] = mid
      BY <2>3, <1>1, RecvPlaces DEF RecvInv, OnePlace, Numbered, RingTypeOK
    <3> QED BY <3>1, <1>1, <1>8
  <2>4. arrived' = received' + Off(head)' /\ (mbx' = "handle" => mid' = received')
    BY <2>1, <1>1, <1>3, RecvPlaces DEF RecvInv, Numbered
  <2> QED BY <2>2, <2>3, <2>4 DEF Numbered
<1>13. OnePlace'
  BY <1>1 DEF RecvInv, OnePlace
<1> QED BY <1>9, <1>10, <1>11, <1>12, <1>13 DEF RecvInv

(* Taking a message moves every place by one; the slot it was in comes     *)
(* last, without a buffer if the message took it along.                    *)
LEMMA TakeMoves ==
  ASSUME RingTypeOK, RecvInv, mbx = "recv", Take,
         UNCHANGED <<next_to_post, tail, head>>
  PROVE  /\ Off(next_to_clean) < Off(head) /\ 0 < Off(head)
         /\ next_to_clean' \in Slot
         /\ \A i \in Slot : Off(i)' = IF i = next_to_clean THEN RingSize - 1
                                      ELSE Off(i) - 1
         /\ Off(head)' = Off(head) - 1 /\ Off(tail)' = Off(tail) - 1
         /\ ~ Posting /\ Posted = Off(tail) /\ mbuf = None
         /\ rx_buff[next_to_clean] \in Buf
         /\ id[next_to_clean] = received + 1
         /\ mid' = received + 1 /\ received' = received + 1
<1>1. flags[next_to_clean] \in Kind /\ next_to_clean' = Inc(next_to_clean)
        /\ mid' = id[next_to_clean] /\ received' = received + 1
  BY DEF Take
<1>2. Off(next_to_clean) < Off(head) /\ 0 < Off(head)
  <2>1. Off(next_to_clean) < Off(head)
    BY <1>1, RecvPlaces DEF RecvInv, RecvSlots
  <2> QED BY <2>1, RecvPlaces
<1>3. next_to_clean' \in Slot /\ Dist(next_to_clean, next_to_clean') = 1
  <2>1. Dist(next_to_clean, next_to_clean) = 0 /\ next_to_clean \in Slot
          /\ RingSize \in Nat /\ RingSize >= 3
    BY RecvPlaces DEF Off
  <2>2. /\ Inc(next_to_clean) \in Slot
        /\ Dist(next_to_clean, next_to_clean) < RingSize - 1 =>
             Dist(next_to_clean, Inc(next_to_clean))
               = Dist(next_to_clean, next_to_clean) + 1
    BY <2>1, RecvDist
  <2> QED BY <2>1, <2>2, <1>1
<1>4. \A i \in Slot : Off(i)' = IF i = next_to_clean THEN RingSize - 1
                               ELSE Off(i) - 1
  <2> SUFFICES ASSUME NEW i \in Slot
               PROVE  Off(i)' = IF i = next_to_clean THEN RingSize - 1
                                ELSE Off(i) - 1
    OBVIOUS
  <2>1. Off(i)' = IF 1 <= Off(i) THEN Off(i) - 1 ELSE Off(i) - 1 + RingSize
    <3>1. next_to_clean \in Slot
      BY RecvPlaces
    <3>2. Dist(next_to_clean', i) =
            IF Dist(next_to_clean, next_to_clean') <= Dist(next_to_clean, i)
            THEN Dist(next_to_clean, i) - Dist(next_to_clean, next_to_clean')
            ELSE Dist(next_to_clean, i) - Dist(next_to_clean, next_to_clean')
                   + RingSize
      BY <3>1, <1>3, DistFrom
    <3> QED BY <3>2, <1>3 DEF Off
  <2>2. i = next_to_clean <=> Off(i) = 0
    BY RecvPlaces
  <2> QED BY <2>1, <2>2, RecvPlaces
<1>5. Off(head)' = Off(head) - 1 /\ Off(tail)' = Off(tail) - 1
  <2>1. head # next_to_clean /\ tail # next_to_clean
    BY <1>2, RecvPlaces
  <2>2. Dist(next_to_clean', head) = Off(head) - 1
          /\ Dist(next_to_clean', tail) = Off(tail) - 1
    BY <2>1, <1>4, RecvPlaces DEF Off
  <2> QED BY <2>2 DEF Off
<1>6. ~ Posting /\ Posted = Off(tail) /\ mbuf = None
  BY RecvPlaces DEF Posting, RecvInv, OnePlace
<1>7. rx_buff[next_to_clean] \in Buf
  <2>1. rx_buff[next_to_clean] # None
    BY <1>2, <1>6, RecvPlaces DEF RecvInv, RecvSlots
  <2> QED BY <2>1, RecvPlaces DEF RingTypeOK
<1>8. id[next_to_clean] = received + 1
  <2>1. id[next_to_clean] = received + Off(next_to_clean) + 1
    BY <1>2, RecvPlaces DEF RecvInv, Numbered
  <2> QED BY <2>1, RecvPlaces DEF RingTypeOK
<1> QED BY <1>1, <1>2, <1>3, <1>4, <1>5, <1>6, <1>7, <1>8

(* What Take does to the slots and the buffers                             *)
LEMMA TakeKeepsSlots ==
  ASSUME RingTypeOK, RecvInv, mbx = "recv", Take,
         UNCHANGED <<next_to_post, tail, head, arrived, data>>,
         mbx' \in {"handle", "idle"}
  PROVE  /\ ~ Posting' /\ Posted' = Off(tail) - 1
         /\ flags' \in [Slot -> Flags] /\ err' \in [Slot -> BOOLEAN]
         /\ id' \in [Slot -> Nat] /\ addr' \in [Slot -> Buf \cup {None}]
         /\ rx_buff' \in [Slot -> Buf \cup {None}]
         /\ \A i \in Slot : i # next_to_clean => rx_buff'[i] = rx_buff[i]
         /\ rx_buff'[next_to_clean]
              = IF flags[next_to_clean] = "indirect" THEN None
                ELSE rx_buff[next_to_clean]
         /\ Indices' /\ RecvSlots'
         /\ arrived' = received' + Off(head)'
         /\ \A i \in Slot : Off(i)' < Off(head)' =>
              /\ id'[i] = received' + Off(i)' + 1
              /\ flags'[i] = "indirect" => data'[rx_buff'[i]] = id'[i]
<1> DEFINE c == next_to_clean
<1>1. /\ flags[c] \in Kind
      /\ rx_buff' = [rx_buff EXCEPT ![c] =
                      IF flags[c] = "indirect" THEN None ELSE rx_buff[c]]
      /\ flags' = [flags EXCEPT ![c] = "zero"]
      /\ id' = [id EXCEPT ![c] = 0]
      /\ addr' = [addr EXCEPT ![c] = None]
  BY DEF Take
<1>2. err' \in [Slot -> BOOLEAN]
  <2>1. err' = [err EXCEPT ![c] = FALSE] /\ err \in [Slot -> BOOLEAN]
    BY Zenon DEF Take, RingTypeOK
  <2> QED BY <2>1, Zenon
<1>3. /\ flags' \in [Slot -> Flags] /\ id' \in [Slot -> Nat]
      /\ addr' \in [Slot -> Buf \cup {None}]
      /\ rx_buff' \in [Slot -> Buf \cup {None}]
  BY <1>1, KindIs DEF RingTypeOK
<1>4. /\ \A i \in Slot : i # c => /\ rx_buff'[i] = rx_buff[i]
                                 /\ flags'[i] = flags[i]
                                 /\ id'[i] = id[i] /\ addr'[i] = addr[i]
      /\ rx_buff'[c] = IF flags[c] = "indirect" THEN None ELSE rx_buff[c]
      /\ flags'[c] = "zero"
  BY <1>1, RecvPlaces DEF RingTypeOK
<1>5. /\ ~ Posting' /\ Posted' = Off(tail) - 1
  <2>1. ~ Posting'
    BY DEF Posting
  <2>2. Posted' = Off(tail)'
    BY <2>1 DEF Posted
  <2> QED BY <2>1, <2>2, TakeMoves
<1> HIDE DEF c
<1>6. /\ c = next_to_clean /\ c \in Slot
      /\ \A i \in Slot : Off(i)' = IF i = c THEN RingSize - 1 ELSE Off(i) - 1
      /\ Off(head)' = Off(head) - 1 /\ Off(tail)' = Off(tail) - 1
      /\ 0 < Off(head)
  BY TakeMoves, RecvPlaces DEF c
<1>7. Indices'
  BY <1>5, <1>6, RecvPlaces DEF Indices
<1>8. RecvSlots'
  <2> SUFFICES ASSUME NEW i \in Slot
               PROVE  /\ flags'[i] \in Kind <=> Off(i)' < Off(head)'
                      /\ Off(i)' < Posted' => rx_buff'[i] # None
                      /\ Off(head)' <= Off(i)' /\ Off(i)' < Posted' =>
                           flags'[i] = "avail" /\ addr'[i] = rx_buff'[i]
    BY DEF RecvSlots
  <2>1. CASE i = c
    BY <2>1, <1>4, <1>5, <1>6, KindIs, RecvPlaces
  <2>2. CASE i # c
    <3>1. /\ flags[i] \in Kind <=> Off(i) < Off(head)
          /\ Off(i) < Posted => rx_buff[i] # None
          /\ Off(head) <= Off(i) /\ Off(i) < Posted =>
               flags[i] = "avail" /\ addr[i] = rx_buff[i]
      BY DEF RecvInv, RecvSlots
    <3>2. Posted = Off(tail)
      BY TakeMoves
    <3> QED BY <2>2, <3>1, <3>2, <1>4, <1>5, <1>6, RecvPlaces
  <2> QED BY <2>1, <2>2
<1>9. arrived' = received' + Off(head)'
  BY <1>6, TakeMoves, RecvPlaces DEF RecvInv, Numbered, RingTypeOK
<1>10. ASSUME NEW i \in Slot, Off(i)' < Off(head)'
       PROVE  /\ id'[i] = received' + Off(i)' + 1
              /\ flags'[i] = "indirect" => data'[rx_buff'[i]] = id'[i]
  <2>1. i # c /\ Off(i) < Off(head) /\ Off(i)' = Off(i) - 1
    BY <1>10, <1>6, RecvPlaces
  <2>2. /\ id[i] = received + Off(i) + 1
        /\ flags[i] = "indirect" => data[rx_buff[i]] = id[i]
    BY <2>1 DEF RecvInv, Numbered
  <2>3. received \in Nat /\ received' = received + 1 /\ Off(i) \in Nat
    BY TakeMoves, RecvPlaces DEF RingTypeOK
  <2> QED BY <2>1, <2>2, <2>3, <1>4
<1> QED BY <1>2, <1>3, <1>4, <1>5, <1>7, <1>8, <1>9, <1>10 DEF c

(* idpf_ctlq_recv takes a message, with or without its buffer.             *)
LEMMA MsgKeepsRing ==
  ASSUME RingTypeOK, RecvInv, RecvMsg
  PROVE  RingTypeOK' /\ RecvInv'
<1> DEFINE c == next_to_clean
<1>1. /\ mbx = "recv" /\ Take /\ mbx' = "handle"
      /\ mbuf' = IF flags[c] = "indirect" THEN rx_buff[c] ELSE None
      /\ UNCHANGED <<next_to_post, tail, head, arrived, data, failed, ntp, lost,
                     nerr>>
  BY DEF RecvMsg, TakeBuffer
<1>2. /\ next_to_clean' \in Slot /\ mbuf = None /\ rx_buff[c] \in Buf
      /\ mid' = received + 1 /\ received' = received + 1
      /\ id[c] = received + 1 /\ Off(c) < Off(head) /\ c \in Slot
  BY <1>1, TakeMoves, RecvPlaces
<1>3. /\ flags' \in [Slot -> Flags] /\ err' \in [Slot -> BOOLEAN]
      /\ id' \in [Slot -> Nat] /\ addr' \in [Slot -> Buf \cup {None}]
      /\ rx_buff' \in [Slot -> Buf \cup {None}]
      /\ \A i \in Slot : i # c => rx_buff'[i] = rx_buff[i]
      /\ rx_buff'[c] = IF flags[c] = "indirect" THEN None ELSE rx_buff[c]
      /\ Indices' /\ RecvSlots'
      /\ arrived' = received' + Off(head)'
      /\ \A i \in Slot : Off(i)' < Off(head)' =>
           /\ id'[i] = received' + Off(i)' + 1
           /\ flags'[i] = "indirect" => data'[rx_buff'[i]] = id'[i]
  BY <1>1, TakeKeepsSlots
<1> HIDE DEF c
<1>4. RingTypeOK'
  <2>1. failed' \in BOOLEAN
    BY <1>1, Zenon DEF RingTypeOK
  <2> QED BY <1>1, <1>2, <1>3, <2>1 DEF RingTypeOK
<1>5. Numbered'
  <2>1. ASSUME mbuf' # None
        PROVE  data'[mbuf'] = mid'
    <3>1. flags[c] = "indirect" /\ mbuf' = rx_buff[c]
      BY <2>1, <1>1
    <3>2. data[rx_buff[c]] = id[c]
      BY <3>1, <1>2 DEF RecvInv, Numbered
    <3> QED BY <3>1, <3>2, <1>1, <1>2
  <2> QED BY <2>1, <1>1, <1>2, <1>3 DEF Numbered
<1>6. OnePlace'
  <2>1. \A i, j \in Slot : rx_buff'[i] # None /\ rx_buff'[i] = rx_buff'[j] => i = j
    BY <1>2, <1>3 DEF RecvInv, OnePlace
  <2>2. \A i \in Slot : rx_buff'[i] \notin lost'
                        /\ (mbuf' # None => rx_buff'[i] # mbuf')
    BY <1>1, <1>2, <1>3, BufIs DEF RecvInv, OnePlace, RingTypeOK
  <2>3. mbuf' \notin lost'
    BY <1>1, <1>2 DEF RecvInv, OnePlace
  <2>4. \A b \in Buf : b = mbuf' \/ b \in lost' \/ \E i \in Slot : rx_buff'[i] = b
    BY <1>1, <1>2, <1>3, BufIs DEF RecvInv, OnePlace
  <2> QED BY <2>1, <2>2, <2>3, <2>4, <1>1 DEF OnePlace
<1> QED BY <1>3, <1>4, <1>5, <1>6 DEF RecvInv

(* A message with the ERR flag ends the loop, and its buffer is dropped.   *)
LEMMA ErrKeepsRing ==
  ASSUME RingTypeOK, RecvInv, RecvErr
  PROVE  RingTypeOK' /\ RecvInv'
<1> DEFINE c == next_to_clean
           b == IF flags[c] = "indirect" THEN rx_buff[c] ELSE None
<1>1. /\ mbx = "recv" /\ Take /\ mbx' = "idle"
      /\ lost' = lost \cup ({b} \ {None}) /\ nerr' = nerr + 1
      /\ failed' = TRUE
      /\ UNCHANGED <<next_to_post, tail, head, arrived, data, mbuf, ntp>>
  BY DEF RecvErr, TakeBuffer
<1>2. /\ next_to_clean' \in Slot /\ mbuf = None /\ rx_buff[c] \in Buf
      /\ mid' = received + 1 /\ received' = received + 1 /\ c \in Slot
  BY <1>1, TakeMoves, RecvPlaces
<1>3. /\ flags' \in [Slot -> Flags] /\ err' \in [Slot -> BOOLEAN]
      /\ id' \in [Slot -> Nat] /\ addr' \in [Slot -> Buf \cup {None}]
      /\ rx_buff' \in [Slot -> Buf \cup {None}]
      /\ \A i \in Slot : i # c => rx_buff'[i] = rx_buff[i]
      /\ rx_buff'[c] = IF flags[c] = "indirect" THEN None ELSE rx_buff[c]
      /\ Indices' /\ RecvSlots'
      /\ arrived' = received' + Off(head)'
      /\ \A i \in Slot : Off(i)' < Off(head)' =>
           /\ id'[i] = received' + Off(i)' + 1
           /\ flags'[i] = "indirect" => data'[rx_buff'[i]] = id'[i]
  BY <1>1, TakeKeepsSlots
<1>4. b \in Buf \cup {None} /\ (b # None => b = rx_buff[c] /\ rx_buff'[c] = None)
        /\ (b = None => rx_buff' = rx_buff)
  <2>1. b = None => flags[c] # "indirect"
    BY <1>2, BufIs
  <2>2. \A i \in Slot : b = None => rx_buff'[i] = rx_buff[i]
    BY <2>1, <1>3
  <2>3. b = None => rx_buff' = rx_buff
    BY <2>2, <1>3 DEF RingTypeOK
  <2> QED BY <2>3, <1>2, <1>3
<1> HIDE DEF b, c
<1>5. RingTypeOK'
  <2>1. failed' \in BOOLEAN
    BY <1>1, Zenon
  <2> QED BY <1>1, <1>2, <1>3, <1>4, <2>1 DEF RingTypeOK
<1>6. Numbered'
  BY <1>1, <1>3 DEF Numbered
<1>7. OnePlace'
  <2>1. \A i, j \in Slot : rx_buff'[i] # None /\ rx_buff'[i] = rx_buff'[j] => i = j
    BY <1>2, <1>3, <1>4 DEF RecvInv, OnePlace
  <2>2. \A i \in Slot : rx_buff'[i] \notin lost'
    BY <1>1, <1>2, <1>3, <1>4, BufIs DEF RecvInv, OnePlace, RingTypeOK
  <2>3. mbuf' = None /\ None \notin lost'
    BY <1>1, <1>2, BufIs DEF RingTypeOK
  <2>4. \A x \in Buf : x \in lost' \/ \E i \in Slot : rx_buff'[i] = x
    BY <1>1, <1>2, <1>3, <1>4, BufIs DEF RecvInv, OnePlace
  <2> QED BY <2>1, <2>2, <2>3, <2>4 DEF OnePlace
<1> QED BY <1>3, <1>5, <1>6, <1>7 DEF RecvInv

(* The loop starts, at the slot the tail points to.                        *)
LEMMA StartKeepsRing ==
  ASSUME RingTypeOK, RecvInv, PostStart
  PROVE  /\ RingTypeOK' /\ RecvInv'
         /\ mbx' = "fill" /\ Posted' = Posted
<1>1. /\ mbx = "post" /\ ntp' = next_to_post
      /\ mbx' = IF Inc(next_to_post) = next_to_clean THEN "out" ELSE "fill"
      /\ UNCHANGED <<flags, err, id, addr, rx_buff, next_to_clean, next_to_post,
                     tail, head, arrived, data, mid, mbuf, failed, received,
                     lost, nerr>>
  BY DEF PostStart, descVars, taskVars
<1>2. Off(tail) <= RingSize - 2
  BY <1>1 DEF RecvInv, Indices
<1>3. mbx' = "fill"
  <2>1. Off(Inc(tail)) = Off(tail) + 1
    <3>1. tail \in Slot /\ next_to_clean \in Slot /\ Off(tail) < RingSize - 1
      BY <1>2, RecvPlaces
    <3> QED BY <3>1, RecvDist DEF Off
  <2>2. Inc(next_to_post) # next_to_clean
    BY <2>1, RecvPlaces
  <2> QED BY <2>2, <1>1
<1>4. /\ \A i \in Slot : Off(i)' = Off(i)
      /\ Off(head)' = Off(head) /\ Off(tail)' = Off(tail)
      /\ Off(ntp)' = Off(tail)
  BY <1>1, RecvPlaces DEF Off
<1>5. Posting' /\ ~ Posting
  BY <1>1, <1>3 DEF Posting
<1>6. (ntp' = next_to_clean' <=> Off(tail) = 0)
  BY <1>1, RecvPlaces
<1>7. Posted' = Posted
  <2>1. Posted = Off(tail)
    BY <1>5 DEF Posted
  <2> QED BY <2>1, <1>4, <1>5, <1>6, RecvPlaces DEF Posted
<1>8. RingTypeOK'
  <2>1. failed' \in BOOLEAN
    BY <1>1, Zenon DEF RingTypeOK
  <2> QED BY <1>1, <1>3, <2>1 DEF RingTypeOK
<1>9. Indices'
  BY <1>1, <1>3, <1>4, <1>6, RecvPlaces DEF Indices
<1>10. RecvSlots' /\ Numbered' /\ OnePlace'
  BY <1>1, <1>3, <1>4, <1>7 DEF RecvInv, RecvSlots, Numbered, OnePlace
<1> QED BY <1>3, <1>7, <1>8, <1>9, <1>10 DEF RecvInv

(* One descriptor more is filled, with buffer b.                           *)
LEMMA FillKeepsSlots ==
  ASSUME RingTypeOK, RecvInv, mbx = "fill", ntp # next_to_clean,
         NEW b \in Buf, FillDesc(b), rx_buff'[ntp] = b,
         \A i \in Slot : Off(i) < Posted => rx_buff'[i] = rx_buff[i],
         UNCHANGED <<next_to_clean, next_to_post, tail, head, arrived, data, mbx,
                     mid, received>>
  PROVE  /\ flags' \in [Slot -> Flags] /\ err' \in [Slot -> BOOLEAN]
         /\ id' \in [Slot -> Nat] /\ addr' \in [Slot -> Buf \cup {None}]
         /\ ntp' \in Slot
         /\ Posted' = Posted + 1
         /\ Indices' /\ RecvSlots'
         /\ arrived' = received' + Off(head)'
         /\ \A i \in Slot : Off(i)' < Off(head)' =>
              /\ id'[i] = received' + Off(i)' + 1
              /\ flags'[i] = "indirect" => data'[rx_buff'[i]] = id'[i]
<1>1. /\ flags' = [flags EXCEPT ![ntp] = "avail"]
      /\ addr' = [addr EXCEPT ![ntp] = b]
      /\ ntp' = Inc(ntp)
      /\ UNCHANGED <<err, id>>
  BY DEF FillDesc
<1>2. /\ Posting /\ 0 < Off(tail) /\ Off(tail) <= Off(ntp)
      /\ Posted = Off(ntp)
      /\ Posting'
  <2>1. Posting /\ Posting'
    BY DEF Posting
  <2> QED BY <2>1, RecvPlaces
<1>3. /\ \A i \in Slot : Off(i)' = Off(i)
      /\ Off(head)' = Off(head) /\ Off(tail)' = Off(tail)
  BY DEF Off
<1>4. /\ ntp' \in Slot
      /\ \/ ntp' = next_to_clean /\ Off(ntp) + 1 = RingSize
         \/ ntp' # next_to_clean /\ Off(ntp)' = Off(ntp) + 1
  <2>1. ntp \in Slot /\ next_to_clean \in Slot
    BY RecvPlaces
  <2>2. CASE Off(ntp) < RingSize - 1
    <3>1. ntp' \in Slot /\ Off(ntp)' = Off(ntp) + 1
      BY <2>1, <2>2, <1>1, RecvDist DEF Off
    <3>2. Off(next_to_clean)' = 0
      BY RecvPlaces DEF Off
    <3>3. ntp' # next_to_clean
      <4>1. Off(ntp') = Off(ntp) + 1
        BY <3>1 DEF Off
      <4> QED BY <4>1, RecvPlaces
    <3> QED BY <3>1, <3>3
  <2>3. CASE ~ Off(ntp) < RingSize - 1
    <3>1. Off(ntp) = RingSize - 1
      BY <2>3, RecvPlaces
    <3>2. ntp' = next_to_clean
      BY <2>1, <3>1, <1>1, RecvDist DEF Off
    <3> QED BY <2>1, <3>1, <3>2, RecvSize
  <2> QED BY <2>2, <2>3
<1>5. Posted' = Posted + 1
  <2>1. Posted' = IF ntp' = next_to_clean THEN RingSize ELSE Off(ntp)'
    BY <1>2, <1>3 DEF Posted
  <2> QED BY <2>1, <1>2, <1>4, RecvPlaces
<1>6. /\ flags'[ntp] = "avail" /\ addr'[ntp] = b
      /\ \A i \in Slot : i # ntp => flags'[i] = flags[i] /\ addr'[i] = addr[i]
  BY <1>1, RecvPlaces DEF RingTypeOK
<1>7. /\ flags' \in [Slot -> Flags] /\ id' \in [Slot -> Nat]
      /\ addr' \in [Slot -> Buf \cup {None}]
  BY <1>1, KindIs DEF RingTypeOK
<1>8. err' \in [Slot -> BOOLEAN]
  BY <1>1, Zenon DEF RingTypeOK
<1>9. Indices'
  BY <1>2, <1>3, <1>4, RecvPlaces DEF Indices, Posting
<1>10. RecvSlots'
  <2> SUFFICES ASSUME NEW i \in Slot
               PROVE  /\ flags'[i] \in Kind <=> Off(i)' < Off(head)'
                      /\ Off(i)' < Posted' => rx_buff'[i] # None
                      /\ Off(head)' <= Off(i)' /\ Off(i)' < Posted' =>
                           flags'[i] = "avail" /\ addr'[i] = rx_buff'[i]
    BY DEF RecvSlots
  <2>1. CASE i = ntp
    BY <2>1, <1>2, <1>3, <1>5, <1>6, KindIs, BufIs, RecvPlaces
  <2>2. CASE i # ntp
    <3>1. /\ flags[i] \in Kind <=> Off(i) < Off(head)
          /\ Off(i) < Posted => rx_buff[i] # None
          /\ Off(head) <= Off(i) /\ Off(i) < Posted =>
               flags[i] = "avail" /\ addr[i] = rx_buff[i]
      BY DEF RecvInv, RecvSlots
    <3>2. Off(i) # Off(ntp)
      BY <2>2, RecvPlaces
    <3>3. Off(i)' < Posted' => Off(i) < Posted
      BY <3>2, <1>2, <1>3, <1>5, RecvPlaces
    <3> QED BY <2>2, <3>1, <3>3, <1>3, <1>6
  <2> QED BY <2>1, <2>2
<1>11. arrived' = received' + Off(head)'
  BY <1>3 DEF RecvInv, Numbered
<1>12. ASSUME NEW i \in Slot, Off(i)' < Off(head)'
       PROVE  /\ id'[i] = received' + Off(i)' + 1
              /\ flags'[i] = "indirect" => data'[rx_buff'[i]] = id'[i]
  <2>1. Off(i) < Off(head) /\ i # ntp /\ Off(i) < Posted
    BY <1>12, <1>2, <1>3, RecvPlaces
  <2> QED BY <2>1, <1>1, <1>3, <1>6 DEF RecvInv, Numbered
<1> QED BY <1>4, <1>5, <1>7, <1>8, <1>9, <1>10, <1>11, <1>12

(* A buffer that FirstBuffer finds lies behind the slot to be filled.      *)
LEMMA FoundIsBehind ==
  ASSUME RingTypeOK, RecvInv, mbx = "fill", ntp # next_to_clean,
         NEW t \in Slot, FirstBuffer(t)
  PROVE  Off(ntp) < Off(t) /\ t # ntp
<1>1. /\ Dist(ntp, t) \in Nat /\ Dist(ntp, next_to_clean) \in Nat
      /\ 1 <= Dist(ntp, t) /\ Dist(ntp, t) < Dist(ntp, next_to_clean)
  <2>1. Dist(ntp, t) \in Nat /\ Dist(ntp, next_to_clean) \in Nat
    BY RecvPlaces, RecvDist
  <2> QED BY <2>1 DEF FirstBuffer
<1>2. Dist(ntp, t) = IF Off(ntp) <= Off(t) THEN Off(t) - Off(ntp)
                     ELSE Off(t) - Off(ntp) + RingSize
  BY RecvPlaces, DistFrom DEF Off
<1>3. Dist(ntp, next_to_clean)
        = IF Off(ntp) <= Off(next_to_clean)
          THEN Off(next_to_clean) - Off(ntp)
          ELSE Off(next_to_clean) - Off(ntp) + RingSize
  BY RecvPlaces, DistFrom DEF Off
<1>4. /\ Off(next_to_clean) = 0 /\ Off(ntp) \in Nat /\ Off(t) \in Nat
      /\ RingSize \in Nat /\ 0 < Off(ntp)
  BY RecvPlaces DEF Posting
<1> QED BY <1>1, <1>2, <1>3, <1>4

(* The loop fills a descriptor.                                            *)
LEMMA FillKeepsRing ==
  ASSUME RingTypeOK, RecvInv, PostFill
  PROVE  RingTypeOK' /\ RecvInv' /\ Posted' = Posted + 1
<1>1. /\ mbx = "fill" /\ ntp # next_to_clean
      /\ UNCHANGED <<next_to_clean, next_to_post, tail, head, arrived, data, mbx,
                     mid, failed, received, lost, nerr>>
  BY DEF PostFill
<1>2. ntp \in Slot /\ Posted = Off(ntp)
  BY <1>1, RecvPlaces DEF Posting
<1>3. \A i \in Slot : Off(i) < Posted => i # ntp
  BY <1>2, RecvPlaces
<1>4. failed' \in BOOLEAN
  BY <1>1, Zenon DEF RingTypeOK
<1>5. CASE FillOwn
  <2>1. /\ rx_buff[ntp] \in Buf /\ FillDesc(rx_buff[ntp])
        /\ UNCHANGED <<rx_buff, mbuf>>
    BY <1>2, <1>5 DEF FillOwn, RingTypeOK
  <2>2. /\ flags' \in [Slot -> Flags] /\ err' \in [Slot -> BOOLEAN]
        /\ id' \in [Slot -> Nat] /\ addr' \in [Slot -> Buf \cup {None}]
        /\ ntp' \in Slot /\ Posted' = Posted + 1 /\ Indices' /\ RecvSlots'
        /\ arrived' = received' + Off(head)'
        /\ \A i \in Slot : Off(i)' < Off(head)' =>
             /\ id'[i] = received' + Off(i)' + 1
             /\ flags'[i] = "indirect" => data'[rx_buff'[i]] = id'[i]
    BY <1>1, <2>1, FillKeepsSlots
  <2>3. RingTypeOK'
    BY <1>1, <1>4, <2>1, <2>2 DEF RingTypeOK
  <2>4. Numbered' /\ OnePlace'
    BY <1>1, <2>1, <2>2 DEF Numbered, RecvInv, OnePlace
  <2> QED BY <2>2, <2>3, <2>4 DEF RecvInv
<1>6. CASE FillGiven
  <2>1. /\ rx_buff[ntp] = None /\ mbuf \in Buf /\ FillDesc(mbuf)
        /\ rx_buff' = [rx_buff EXCEPT ![ntp] = mbuf] /\ mbuf' = None
    BY <1>6 DEF FillGiven, RingTypeOK
  <2>2. rx_buff'[ntp] = mbuf /\ \A i \in Slot : i # ntp => rx_buff'[i] = rx_buff[i]
    BY <1>2, <2>1 DEF RingTypeOK
  <2>3. /\ flags' \in [Slot -> Flags] /\ err' \in [Slot -> BOOLEAN]
        /\ id' \in [Slot -> Nat] /\ addr' \in [Slot -> Buf \cup {None}]
        /\ ntp' \in Slot /\ Posted' = Posted + 1 /\ Indices' /\ RecvSlots'
        /\ arrived' = received' + Off(head)'
        /\ \A i \in Slot : Off(i)' < Off(head)' =>
             /\ id'[i] = received' + Off(i)' + 1
             /\ flags'[i] = "indirect" => data'[rx_buff'[i]] = id'[i]
    BY <1>1, <1>3, <2>1, <2>2, FillKeepsSlots
  <2>4. RingTypeOK'
    BY <1>1, <1>2, <1>4, <2>1, <2>3 DEF RingTypeOK
  <2>5. Numbered'
    BY <1>1, <2>1, <2>3 DEF Numbered
  <2>6. OnePlace'
    BY <1>1, <1>2, <2>1, <2>2, BufIs DEF RecvInv, OnePlace, RingTypeOK
  <2> QED BY <2>3, <2>4, <2>5, <2>6 DEF RecvInv
<1>7. CASE FillMoved
  <2>1. PICK t \in Slot :
          /\ FirstBuffer(t)
          /\ rx_buff' = [rx_buff EXCEPT ![ntp] = rx_buff[t], ![t] = None]
          /\ FillDesc(rx_buff[t])
    BY <1>7 DEF FillMoved
  <2>2. rx_buff[ntp] = None /\ mbuf = None /\ mbuf' = None
          /\ rx_buff[t] \in Buf /\ t # ntp /\ Off(ntp) < Off(t)
    BY <1>1, <1>7, <2>1, FoundIsBehind DEF FillMoved, FirstBuffer, RingTypeOK
  <2>3. /\ rx_buff'[ntp] = rx_buff[t] /\ rx_buff'[t] = None
        /\ \A i \in Slot : i # ntp /\ i # t => rx_buff'[i] = rx_buff[i]
    BY <1>2, <2>1, <2>2 DEF RingTypeOK
  <2>4. \A i \in Slot : Off(i) < Posted => rx_buff'[i] = rx_buff[i]
    <3>1. \A i \in Slot : Off(i) < Posted => i # ntp /\ i # t
      BY <1>2, <2>2, RecvPlaces
    <3> QED BY <3>1, <2>3
  <2>5. /\ flags' \in [Slot -> Flags] /\ err' \in [Slot -> BOOLEAN]
        /\ id' \in [Slot -> Nat] /\ addr' \in [Slot -> Buf \cup {None}]
        /\ ntp' \in Slot /\ Posted' = Posted + 1 /\ Indices' /\ RecvSlots'
        /\ arrived' = received' + Off(head)'
        /\ \A i \in Slot : Off(i)' < Off(head)' =>
             /\ id'[i] = received' + Off(i)' + 1
             /\ flags'[i] = "indirect" => data'[rx_buff'[i]] = id'[i]
    BY <1>1, <2>1, <2>2, <2>3, <2>4, FillKeepsSlots
  <2>6. RingTypeOK'
    BY <1>1, <1>2, <1>4, <2>1, <2>2, <2>5 DEF RingTypeOK
  <2>7. Numbered'
    BY <1>1, <2>2, <2>5 DEF Numbered
  <2>8. OnePlace'
    BY <1>1, <1>2, <2>2, <2>3, BufIs DEF RecvInv, OnePlace, RingTypeOK
  <2> QED BY <2>5, <2>6, <2>7, <2>8 DEF RecvInv
<1> QED BY <1>5, <1>6, <1>7 DEF PostFill

(* The loop has ended: the tail becomes the last slot that was filled.     *)
LEMMA OutKeepsRing ==
  ASSUME RingTypeOK, RecvInv, PostOut
  PROVE  /\ RingTypeOK' /\ RecvInv'
         /\ Off(tail)' = IF ntp = next_to_post THEN Posted ELSE Posted - 1
<1>1. /\ mbx = "out" /\ Posting
      /\ \/ next_to_post # ntp /\ next_to_post' = Dec(ntp) /\ tail' = Dec(ntp)
         \/ next_to_post = ntp /\ UNCHANGED <<next_to_post, tail>>
      /\ lost' = lost \cup ({mbuf} \ {None})
      /\ mbuf' = None
      /\ mbx' = IF failed THEN "idle" ELSE "recv"
      /\ UNCHANGED <<flags, err, id, addr, rx_buff, next_to_clean, head, arrived,
                     data, mid, failed, ntp, received, nerr>>
  BY DEF PostOut, descVars, Posting
<1>2. (mbx' = "idle" \/ mbx' = "recv") /\ ~ Posting'
  <2>1. mbx' = "idle" \/ mbx' = "recv"
    BY <1>1, Zenon
  <2> QED BY <2>1 DEF Posting
<1>3. /\ \A i \in Slot : Off(i)' = Off(i)
      /\ Off(head)' = Off(head)
  BY <1>1 DEF Off
<1>4. next_to_post' \in Slot /\ tail' = next_to_post'
        /\ Off(tail)' = IF ntp = next_to_post THEN Posted ELSE Posted - 1
  <2>1. CASE next_to_post = ntp
    <3>1. Posted = Off(tail)
      BY <2>1, <1>1, RecvPlaces
    <3>2. Off(tail)' = Off(tail)
      BY <2>1, <1>1 DEF Off
    <3> QED BY <2>1, <3>1, <3>2, <1>1, RecvPlaces
  <2>2. CASE next_to_post # ntp
    <3>1. Off(tail) > 0
      BY <2>2, <1>1, RecvPlaces
    <3>2. Dec(ntp) \in Slot
            /\ Off(Dec(ntp)) = IF ntp = next_to_clean THEN RingSize - 1
                               ELSE Off(ntp) - 1
      BY RecvPlaces, RecvDist DEF Off
    <3>3. Off(tail)' = Off(Dec(ntp))
      BY <2>2, <1>1 DEF Off
    <3> QED BY <2>2, <3>1, <3>2, <3>3, <1>1, RecvPlaces
  <2> QED BY <2>1, <2>2
<1>5. Off(head) <= Off(tail)' /\ Off(tail)' <= Posted /\ Off(tail)' \in Nat
  <2>1. CASE ntp = next_to_post
    BY <2>1, <1>4, RecvPlaces
  <2>2. CASE ntp # next_to_post
    <3>1. Posted > Off(tail)
      <4>1. Off(ntp) # Off(tail)
        BY <2>2, RecvPlaces
      <4>2. ntp = next_to_clean => Off(tail) # 0
        BY <2>2, RecvPlaces
      <4> QED BY <4>1, <4>2, <1>1, RecvPlaces
    <3> QED BY <2>2, <3>1, <1>4, RecvPlaces
  <2> QED BY <2>1, <2>2
<1>6. Posted' = Off(tail)'
  BY <1>2 DEF Posted
<1>7. RingTypeOK'
  <2>1. failed' \in BOOLEAN
    BY <1>1, Zenon DEF RingTypeOK
  <2> QED BY <1>1, <1>2, <1>4, <2>1 DEF RingTypeOK
<1>8. Indices'
  BY <1>2, <1>3, <1>4, <1>5 DEF Indices
<1>9. RecvSlots'
  <2> SUFFICES ASSUME NEW i \in Slot
               PROVE  /\ flags'[i] \in Kind <=> Off(i)' < Off(head)'
                      /\ Off(i)' < Posted' => rx_buff'[i] # None
                      /\ Off(head)' <= Off(i)' /\ Off(i)' < Posted' =>
                           flags'[i] = "avail" /\ addr'[i] = rx_buff'[i]
    BY DEF RecvSlots
  <2>1. /\ flags[i] \in Kind <=> Off(i) < Off(head)
        /\ Off(i) < Posted => rx_buff[i] # None
        /\ Off(head) <= Off(i) /\ Off(i) < Posted =>
             flags[i] = "avail" /\ addr[i] = rx_buff[i]
    BY DEF RecvInv, RecvSlots
  <2>2. Off(i)' < Posted' => Off(i) < Posted
    BY <1>3, <1>5, <1>6, RecvPlaces
  <2> QED BY <2>1, <2>2, <1>1, <1>3
<1>10. Numbered'
  BY <1>1, <1>2, <1>3 DEF RecvInv, Numbered
<1>11. OnePlace'
  <2>1. \A i \in Slot : rx_buff'[i] \notin lost'
    BY <1>1 DEF RecvInv, OnePlace
  <2>2. None \notin lost'
    BY <1>1, BufIs DEF RingTypeOK
  <2>3. \A b \in Buf : b \in lost' \/ \E i \in Slot : rx_buff'[i] = b
    BY <1>1, BufIs DEF RecvInv, OnePlace
  <2> QED BY <2>1, <2>2, <2>3, <1>1 DEF RecvInv, OnePlace
<1> QED BY <1>4, <1>7, <1>8, <1>9, <1>10, <1>11 DEF RecvInv

(* What only moves the task on                                             *)
LEMMA OthersKeepRing ==
  ASSUME RingTypeOK, RecvInv,
         UNCHANGED <<descVars, rx_buff, next_to_clean, next_to_post, tail, head,
                     arrived, data, mid, mbuf, ntp, received, lost, nerr>>,
         failed' \in BOOLEAN,
         \/ mbx = "idle" /\ mbx' = "recv"
         \/ mbx = "recv" /\ mbx' = "idle"
         \/ mbx = "handle" /\ mbx' = "post"
         \/ mbx = "fill" /\ mbx' = "out"
         \/ mbx' = mbx
  PROVE  RingTypeOK' /\ RecvInv' /\ Posted' = Posted /\ Off(tail)' = Off(tail)
<1>1. UNCHANGED <<flags, err, id, addr>>
  BY DEF descVars
<1>2. (Posting' <=> Posting) /\ Posted' = Posted
        /\ Off(tail)' = Off(tail) /\ Off(head)' = Off(head)
        /\ Off(ntp)' = Off(ntp) /\ \A i \in Slot : Off(i)' = Off(i)
  BY DEF Posting, Posted, Off
<1>3. RingTypeOK'
  BY <1>1 DEF RingTypeOK
<1>4. Indices'
  BY <1>2 DEF RecvInv, Indices
<1>5. RecvSlots'
  BY <1>1, <1>2 DEF RecvInv, RecvSlots
<1>6. Numbered'
  BY <1>1, <1>2 DEF RecvInv, Numbered
<1>7. OnePlace'
  BY DEF RecvInv, OnePlace
<1> QED BY <1>2, <1>3, <1>4, <1>5, <1>6, <1>7 DEF RecvInv

(* The steps OthersKeepRing is about                                        *)
Rest == \/ MbxTask \/ IntrReq \/ IntrRel \/ RecvNone \/ PostStop
        \/ UNCHANGED arqVars
        \/ \E ok \in BOOLEAN : Handle(ok)

(* The steps that OthersKeepRing covers, taken apart                         *)
LEMMA RestIs ==
  ASSUME RingTypeOK, Rest
  PROVE  /\ UNCHANGED <<descVars, rx_buff, next_to_clean, next_to_post, tail,
                        head, arrived, data, mid, mbuf, ntp, received, lost,
                        nerr>>
         /\ failed' \in BOOLEAN
         /\ \/ mbx = "idle" /\ mbx' = "recv"
            \/ mbx = "recv" /\ mbx' = "idle"
            \/ mbx = "handle" /\ mbx' = "post"
            \/ mbx = "fill" /\ mbx' = "out"
            \/ mbx' = mbx
<1>1. CASE RecvNone \/ PostStop \/ UNCHANGED arqVars
  <2>1. failed' = failed
    BY <1>1, Zenon DEF RecvNone, PostStop, arqVars, taskVars
  <2>2. failed' \in BOOLEAN
    BY <2>1, Zenon DEF RingTypeOK
  <2> QED BY <1>1, <2>2
          DEF RecvNone, PostStop, arqVars, taskVars, descVars
<1>3. CASE MbxTask \/ IntrReq \/ IntrRel
  <2>1. failed' \in {failed, FALSE} /\ UNCHANGED arqRing
    BY <1>3, Zenon DEF MbxTask, IntrReq, IntrRel
  <2>2. failed' \in BOOLEAN
    BY <2>1, Zenon DEF RingTypeOK
  <2>3. (mbx = "idle" /\ mbx' = "recv") \/ mbx' = mbx
    BY <1>3, Zenon DEF MbxTask, IntrReq, IntrRel
  <2> QED BY <2>1, <2>2, <2>3 DEF arqRing, descVars
<1>2. ASSUME NEW ok \in BOOLEAN, Handle(ok)
      PROVE  /\ UNCHANGED <<descVars, rx_buff, next_to_clean, next_to_post, tail,
                            head, arrived, data, mid, mbuf, ntp, received, lost,
                            nerr>>
             /\ failed' \in BOOLEAN
             /\ mbx = "handle" /\ mbx' = "post"
  <2>1. failed' \in BOOLEAN
    BY <1>2, Zenon DEF Handle
  <2> QED BY <1>2, <2>1 DEF Handle
<1> QED BY <1>1, <1>2, <1>3 DEF Rest

(* RecvInv is inductive together with the types.                            *)
LEMMA RecvInductive ==
  RingTypeOK /\ RecvInv /\ [ArqNext]_arqVars => RingTypeOK' /\ RecvInv'
<1> SUFFICES ASSUME RingTypeOK, RecvInv, [ArqNext]_arqVars
             PROVE  RingTypeOK' /\ RecvInv'
  OBVIOUS
<1>1. ASSUME Rest
      PROVE  RingTypeOK' /\ RecvInv'
  BY <1>1, RestIs, OthersKeepRing
<1> QED BY <1>1, WriteKeepsRing, MsgKeepsRing, ErrKeepsRing, StartKeepsRing,
           FillKeepsRing, OutKeepsRing DEF ArqNext, Task, Rest

(* RecvInv always holds.                                                    *)
LEMMA RecvInvariant == ArqSpec => [](RingTypeOK /\ RecvInv)
<1>1. ArqInit => RingTypeOK /\ RecvInv
  BY RecvStarts
<1>2. RingTypeOK /\ RecvInv /\ [ArqNext]_arqVars => (RingTypeOK /\ RecvInv)'
  BY RecvInductive
<1> QED BY <1>1, <1>2, PTL DEF ArqSpec

-----------------------------------------------------------------------------
(* The count of the buffers is inductive. *)

(* How many slots lie p places or more after next_to_clean                 *)
LEMMA RestCount ==
  ASSUME RingTypeOK, RecvInv, NEW p \in Nat, p <= RingSize
  PROVE  Cardinality({i \in Slot : Off(i) >= p}) = RingSize - p
<1> DEFINE S == {i \in Slot : Off(i) >= p}
           T == p .. RingSize - 1
           f == [i \in S |-> Off(i)]
<1>1. IsFiniteSet(S)
  <2>1. IsFiniteSet(Slot)
    BY RecvSize, FS_Interval DEF Slot
  <2> QED BY <2>1, FS_Subset
<1>2. f \in [S -> T]
  BY RecvPlaces
<1>3. \A i, j \in S : f[i] = f[j] => i = j
  BY RecvPlaces
<1>4. \A k \in T : \E i \in S : f[i] = k
  <2> SUFFICES ASSUME NEW k \in T
               PROVE  \E i \in S : f[i] = k
    OBVIOUS
  <2>1. k \in Slot /\ next_to_clean \in Slot
    BY RecvPlaces, RecvSize DEF Slot
  <2>2. PICK i \in Slot : Off(i) = k
    BY <2>1, SlotAt
  <2> QED BY <2>2
<1> HIDE DEF f
<1>5. f \in Bijection(S, T)
  BY <1>2, <1>3, <1>4, Fun_IsBij, Zenon
<1>6. ExistsBijection(S, T)
  BY <1>5, Fun_ExistsBij, Zenon
<1>7. Cardinality(T) = RingSize - p
  BY RecvSize, FS_Interval
<1> QED BY <1>1, <1>6, <1>7, FS_Bijection, Zenon

(* The sets that are counted are finite.                                   *)
LEMMA Counts ==
  ASSUME RingTypeOK
  PROVE  /\ IsFiniteSet(Empty) /\ Cardinality(Empty) \in Nat
         /\ IsFiniteSet(lost) /\ Cardinality(lost) \in Nat
<1>1. IsFiniteSet(Slot) /\ IsFiniteSet(Buf)
  BY RecvSize, FS_Interval DEF Slot, Buf
<1>2. IsFiniteSet(Empty) /\ IsFiniteSet(lost)
  BY <1>1, FS_Subset DEF Empty, RingTypeOK
<1> QED BY <1>2, FS_CardinalityType

(* At first no slot is without a buffer but one.                            *)
LEMMA RoomInit == ArqInit => RoomInv
<1> SUFFICES ASSUME ArqInit
             PROVE  RoomInv
  OBVIOUS
<1>1. RingTypeOK /\ RecvInv
  BY RecvStarts
<1>2. Off(tail) = RingSize - 1
  BY RecvSize DEF ArqInit, Off, Dist
<1>3. Empty = {RingSize - 1}
  BY RecvSize, BufIs DEF ArqInit, Empty, Slot, Buf
<1>4. Cardinality(Empty) = 1 /\ Cardinality(lost) = 0
  BY <1>3, FS_Singleton, FS_EmptySet DEF ArqInit
<1> QED BY <1>2, <1>4, RecvSize DEF ArqInit, RoomInv

(* An indirect message takes its buffer out of the ring.                   *)
LEMMA MsgKeepsRoom ==
  ASSUME RingTypeOK, RecvInv, RoomInv, RecvMsg
  PROVE  RoomInv'
<1> DEFINE c == next_to_clean
<1>1. /\ mbx = "recv" /\ Take /\ mbx' = "handle"
      /\ mbuf' = IF flags[c] = "indirect" THEN rx_buff[c] ELSE None
      /\ UNCHANGED <<next_to_post, tail, head, arrived, data, lost, nerr>>
  BY DEF RecvMsg, TakeBuffer
<1>2. /\ c \in Slot /\ mbuf = None /\ rx_buff[c] \in Buf
      /\ Off(tail)' = Off(tail) - 1 /\ Off(tail) \in Nat
  BY <1>1, TakeMoves, RecvPlaces
<1>3. /\ \A i \in Slot : i # c => rx_buff'[i] = rx_buff[i]
      /\ rx_buff'[c] = IF flags[c] = "indirect" THEN None ELSE rx_buff[c]
  BY <1>1, TakeKeepsSlots
<1>4. Cardinality(Empty)' = 1 + Cardinality(lost)' + IF mbuf' = None THEN 0 ELSE 1
  <2>1. CASE flags[c] = "indirect"
    <3>1. Empty' = Empty \cup {c} /\ c \notin Empty
      BY <2>1, <1>2, <1>3, BufIs DEF Empty
    <3>2. Cardinality(Empty') = Cardinality(Empty) + 1
      BY <3>1, Counts, FS_AddElement
    <3>3. mbuf' # None
      BY <2>1, <1>1, <1>2, BufIs
    <3>4. Cardinality(Empty) = 1 + Cardinality(lost)
      BY <1>2, Counts DEF RoomInv
    <3> QED BY <3>2, <3>3, <3>4, <1>1, Counts
  <2>2. CASE flags[c] # "indirect"
    <3>1. Empty' = Empty
      BY <2>2, <1>2, <1>3 DEF Empty
    <3>2. mbuf' = None /\ lost' = lost
      BY <2>2, <1>1
    <3> QED BY <3>1, <3>2, <1>2 DEF RoomInv
  <2> QED BY <2>1, <2>2
<1>5. nerr < RingSize - 3 =>
        Cardinality(lost) <= nerr /\ Off(tail) >= RingSize - 2 - nerr
  BY <1>1 DEF RoomInv
<1>6. nerr' < RingSize - 3 =>
        Cardinality(lost)' <= nerr' /\ Off(tail)' >= RingSize - 3 - nerr'
  <2>1. nerr \in Nat /\ RingSize \in Nat
    BY RecvSize DEF RingTypeOK
  <2> QED BY <2>1, <1>1, <1>2, <1>5
<1> QED BY <1>1, <1>4, <1>6 DEF RoomInv

(* With the ERR flag the buffer is counted as dropped.                     *)
LEMMA ErrKeepsRoom ==
  ASSUME RingTypeOK, RecvInv, RoomInv, RecvErr
  PROVE  RoomInv'
<1> DEFINE c == next_to_clean
           b == IF flags[c] = "indirect" THEN rx_buff[c] ELSE None
<1>1. /\ mbx = "recv" /\ Take /\ mbx' = "idle"
      /\ lost' = lost \cup ({b} \ {None}) /\ nerr' = nerr + 1
      /\ UNCHANGED <<next_to_post, tail, head, arrived, data, mbuf>>
  BY DEF RecvErr, TakeBuffer
<1>2. /\ c \in Slot /\ mbuf = None /\ rx_buff[c] \in Buf
      /\ Off(tail)' = Off(tail) - 1 /\ Off(tail) \in Nat
  BY <1>1, TakeMoves, RecvPlaces
<1>3. /\ \A i \in Slot : i # c => rx_buff'[i] = rx_buff[i]
      /\ rx_buff'[c] = IF flags[c] = "indirect" THEN None ELSE rx_buff[c]
  BY <1>1, TakeKeepsSlots
<1>4. /\ Cardinality(Empty)' = 1 + Cardinality(lost)'
      /\ Cardinality(lost)' <= Cardinality(lost) + 1
      /\ Cardinality(lost)' \in Nat
  <2>1. CASE flags[c] = "indirect"
    <3>1. Empty' = Empty \cup {c} /\ c \notin Empty
      BY <2>1, <1>2, <1>3, BufIs DEF Empty
    <3>2. Cardinality(Empty') = Cardinality(Empty) + 1
      BY <3>1, Counts, FS_AddElement
    <3>3. lost' = lost \cup {rx_buff[c]} /\ rx_buff[c] \notin lost
      BY <2>1, <1>1, <1>2, BufIs DEF RecvInv, OnePlace
    <3>4. Cardinality(lost') = Cardinality(lost) + 1
      BY <3>3, Counts, FS_AddElement
    <3>5. Cardinality(Empty) = 1 + Cardinality(lost)
      BY <1>2, Counts DEF RoomInv
    <3> QED BY <3>2, <3>4, <3>5, Counts
  <2>2. CASE flags[c] # "indirect"
    <3>1. Empty' = Empty
      BY <2>2, <1>2, <1>3 DEF Empty
    <3>2. lost' = lost
      BY <2>2, <1>1
    <3>3. Cardinality(Empty) = 1 + Cardinality(lost)
      BY <1>2, Counts DEF RoomInv
    <3> QED BY <3>1, <3>2, <3>3, Counts
  <2> QED BY <2>1, <2>2
<1>5. nerr < RingSize - 3 =>
        Cardinality(lost) <= nerr /\ Off(tail) >= RingSize - 2 - nerr
  BY <1>1 DEF RoomInv
<1>6. nerr' < RingSize - 3 =>
        Cardinality(lost)' <= nerr' /\ Off(tail)' >= RingSize - 2 - nerr'
  <2>1. nerr \in Nat /\ RingSize \in Nat
    BY RecvSize DEF RingTypeOK
  <2>2. Cardinality(lost) \in Nat
    BY Counts
  <2>3. nerr' = nerr + 1
    BY <1>1
  <2>4. Off(tail)' = Off(tail) - 1 /\ Off(tail) \in Nat
    BY <1>2
  <2>5. nerr' < RingSize - 3 => nerr < RingSize - 3
    BY <2>1, <2>3
  <2>6. nerr' < RingSize - 3 => Off(tail)' >= RingSize - 2 - nerr'
    BY <2>1, <2>3, <2>4, <2>5, <1>5
  <2>7. nerr' < RingSize - 3 => Cardinality(lost)' <= nerr'
    BY <2>1, <2>2, <2>3, <2>5, <1>4, <1>5
  <2> QED BY <2>6, <2>7
<1>7. mbuf' = None /\ mbx' = "idle"
  BY <1>1, <1>2
<1>8. Cardinality(Empty)' = 1 + Cardinality(lost)' + IF mbuf' = None THEN 0 ELSE 1
  BY <1>4, <1>7
<1> QED BY <1>6, <1>7, <1>8 DEF RoomInv

(* Filling a slot gives it the buffer of the caller or of another slot.    *)
LEMMA FillKeepsRoom ==
  ASSUME RingTypeOK, RecvInv, RoomInv, PostFill
  PROVE  RoomInv'
<1>1. /\ mbx = "fill" /\ ntp # next_to_clean /\ ntp \in Slot
      /\ UNCHANGED <<next_to_clean, tail, mbx, lost, nerr>>
  BY RecvPlaces DEF PostFill
<1>2. Off(tail)' = Off(tail)
  BY <1>1 DEF Off
<1>3. Cardinality(Empty)' = 1 + Cardinality(lost)' + IF mbuf' = None THEN 0 ELSE 1
  <2>1. CASE FillOwn
    <3>1. Empty' = Empty /\ mbuf' = mbuf
      BY <2>1 DEF FillOwn, Empty
    <3> QED BY <3>1, <1>1 DEF RoomInv
  <2>2. CASE FillGiven
    <3>1. /\ rx_buff[ntp] = None /\ mbuf # None /\ mbuf' = None
          /\ rx_buff' = [rx_buff EXCEPT ![ntp] = mbuf]
      BY <2>2 DEF FillGiven
    <3>2. Empty' = Empty \ {ntp} /\ ntp \in Empty
      BY <3>1, <1>1 DEF Empty, RingTypeOK
    <3>3. Cardinality(Empty') = Cardinality(Empty) - 1
      BY <3>2, Counts, FS_RemoveElement
    <3>4. Cardinality(Empty) = 1 + Cardinality(lost) + 1
      BY <3>1 DEF RoomInv
    <3> QED BY <3>1, <3>3, <3>4, <1>1, Counts
  <2>3. CASE FillMoved
    <3>1. PICK t \in Slot :
            /\ FirstBuffer(t)
            /\ rx_buff' = [rx_buff EXCEPT ![ntp] = rx_buff[t], ![t] = None]
      BY <2>3 DEF FillMoved
    <3>2. /\ rx_buff[ntp] = None /\ mbuf = None /\ mbuf' = None
          /\ rx_buff[t] # None /\ t # ntp
      BY <2>3, <3>1, <1>1, FoundIsBehind DEF FillMoved, FirstBuffer
    <3>3. Empty' = (Empty \ {ntp}) \cup {t} /\ ntp \in Empty /\ t \notin Empty
      BY <3>1, <3>2, <1>1 DEF Empty, RingTypeOK
    <3>4. IsFiniteSet(Empty \ {ntp})
            /\ Cardinality(Empty \ {ntp}) = Cardinality(Empty) - 1
      BY <3>3, Counts, FS_RemoveElement
    <3>5. Cardinality(Empty') = Cardinality(Empty) - 1 + 1
      BY <3>3, <3>4, FS_AddElement
    <3>6. Cardinality(Empty') = Cardinality(Empty)
      BY <3>5, Counts
    <3> QED BY <3>2, <3>6, <1>1 DEF RoomInv
  <2> QED BY <2>1, <2>2, <2>3 DEF PostFill
<1> QED BY <1>1, <1>2, <1>3 DEF RoomInv

(* When no buffer is left to be posted, every slot behind the ones that    *)
(* are posted is empty.                                                    *)
LEMMA SearchedAll ==
  ASSUME RingTypeOK, RecvInv, mbx = "fill", ntp # next_to_clean,
         rx_buff[ntp] = None, ~ \E t \in Slot : FirstBuffer(t)
  PROVE  Empty = {i \in Slot : Off(i) >= Posted}
<1>1. Posted = Off(ntp) /\ 0 < Off(ntp) /\ ntp \in Slot
  BY RecvPlaces DEF Posting
<1>2. ASSUME NEW t \in Slot, Off(t) > Off(ntp), rx_buff[t] # None
      PROVE  FALSE
  <2> DEFINE S == {u \in Slot : Off(u) > Off(ntp) /\ rx_buff[u] # None}
             T == {Off(u) : u \in S}
  <2>1. PICK x \in T : \A y \in T : x <= y
    <3>1. T \subseteq Nat /\ T # {}
      BY <1>2, RecvPlaces
    <3> HIDE DEF T
    <3> QED BY <3>1, LeastOf
  <2>2. PICK u \in S : x = Off(u)
    BY <2>1
  <2>3. u \in Slot /\ Off(u) > Off(ntp) /\ rx_buff[u] # None
          /\ \A w \in S : Off(u) <= Off(w)
    BY <2>1, <2>2
  <2>4. \A w \in Slot : Dist(ntp, w) = IF Off(ntp) <= Off(w)
                                      THEN Off(w) - Off(ntp)
                                      ELSE Off(w) - Off(ntp) + RingSize
    BY RecvPlaces, DistFrom DEF Off
  <2>5. Dist(ntp, next_to_clean) = RingSize - Off(ntp)
    BY <2>4, <1>1, RecvPlaces
  <2>6. Dist(ntp, u) = Off(u) - Off(ntp)
    BY <2>3, <2>4, RecvPlaces
  <2>7. Dist(ntp, u) \in 1 .. Dist(ntp, next_to_clean) - 1
    <3>1. /\ Off(u) \in Nat /\ Off(ntp) \in Nat /\ RingSize \in Nat
          /\ Off(u) <= RingSize - 1
      BY <2>3, <1>1, RecvPlaces
    <3> QED BY <3>1, <2>3, <2>5, <2>6
  <2>8. ASSUME NEW w \in Slot, Dist(ntp, w) \in 1 .. Dist(ntp, u) - 1
        PROVE  rx_buff[w] = None
    <3>1. /\ Off(u) \in Nat /\ Off(ntp) \in Nat /\ RingSize \in Nat
          /\ Off(w) \in Nat /\ Off(u) <= RingSize - 1
      BY <2>3, <1>1, RecvPlaces
    <3>2. Dist(ntp, w) \in Nat /\ 1 <= Dist(ntp, w)
            /\ Dist(ntp, w) < Off(u) - Off(ntp)
      BY <2>6, <2>8, <3>1, <1>1, RecvDist
    <3>3. Off(ntp) < Off(w) /\ Off(w) < Off(u)
      BY <3>1, <3>2, <2>4
    <3>4. ~ Off(u) <= Off(w)
      BY <3>1, <3>3
    <3> QED BY <3>3, <3>4, <2>3
  <2> QED BY <2>3, <2>7, <2>8 DEF FirstBuffer
<1>3. ASSUME NEW i \in Slot
      PROVE  rx_buff[i] = None <=> Off(i) >= Posted
  <2>1. Off(i) \in Nat /\ Off(ntp) \in Nat /\ (Off(i) = Off(ntp) => i = ntp)
    BY <1>1, RecvPlaces
  <2>2. Off(i) < Posted => rx_buff[i] # None
    BY DEF RecvInv, RecvSlots
  <2>3. Off(i) > Off(ntp) => rx_buff[i] = None
    BY <1>2
  <2> QED BY <2>1, <2>2, <2>3, <1>1
<1> QED BY <1>3 DEF Empty

(* When the loop ends, few buffers are missing.                            *)
LEMMA StopKeepsRoom ==
  ASSUME RingTypeOK, RecvInv, RoomInv, PostStop
  PROVE  RoomInv'
<1>1. /\ mbx = "fill" /\ mbx' = "out"
      /\ \/ ntp = next_to_clean
         \/ rx_buff[ntp] = None /\ mbuf = None
               /\ ~ \E t \in Slot : FirstBuffer(t)
      /\ UNCHANGED <<rx_buff, next_to_clean, tail, ntp, mbuf, lost, nerr>>
  BY DEF PostStop, taskVars
<1>2. Posted' = Posted /\ Empty' = Empty
  BY <1>1 DEF Posted, Posting, Off, Empty
<1>3. nerr \in Nat /\ RingSize \in Nat /\ Off(tail) \in Nat /\ Posted \in Nat
        /\ Posted <= RingSize
  BY RecvPlaces DEF RingTypeOK
<1>4. ASSUME nerr < RingSize - 3
      PROVE  Cardinality(lost) <= nerr /\ mbuf = None
               /\ Posted >= RingSize - 1 - nerr
  <2>1. Cardinality(lost) <= nerr /\ Off(tail) >= RingSize - 3 - nerr
    BY <1>1, <1>4 DEF RoomInv
  <2>2. Off(tail) > 0
    BY <2>1, <1>3, <1>4
  <2>3. ntp # next_to_clean
    <3>1. SUFFICES ASSUME ntp = next_to_clean
                   PROVE  FALSE
      OBVIOUS
    <3>2. Posted = RingSize
      BY <3>1, <2>2, <1>1, RecvPlaces DEF Posting
    <3>3. Empty = {}
      BY <3>2, RecvPlaces DEF Empty, RecvInv, RecvSlots
    <3>4. Cardinality(Empty) = 0
      BY <3>3, FS_EmptySet
    <3> QED BY <3>4, Counts DEF RoomInv
  <2>4. mbuf = None /\ Empty = {i \in Slot : Off(i) >= Posted}
    BY <2>3, <1>1, SearchedAll
  <2>5. Cardinality(Empty) = RingSize - Posted
    BY <2>4, <1>3, RestCount
  <2>6. Cardinality(Empty) = 1 + Cardinality(lost)
    BY <2>4, Counts DEF RoomInv
  <2> QED BY <2>1, <2>4, <2>5, <2>6, <1>3, Counts
<1> QED BY <1>1, <1>2, <1>4 DEF RoomInv

(* The end of idpf_ctlq_post_rx_buffs                                      *)
LEMMA OutKeepsRoom ==
  ASSUME RingTypeOK, RecvInv, RoomInv, PostOut
  PROVE  RoomInv'
<1>1. /\ mbx = "out" /\ mbuf' = None /\ rx_buff' = rx_buff /\ nerr' = nerr
      /\ lost' = lost \cup ({mbuf} \ {None})
  BY DEF PostOut
<1>2. mbx' = "idle" \/ mbx' = "recv"
  <2>1. mbx' = IF failed THEN "idle" ELSE "recv"
    BY Zenon DEF PostOut
  <2> QED BY <2>1, Zenon
<1>3. Off(tail)' = IF ntp = next_to_post THEN Posted ELSE Posted - 1
  BY OutKeepsRing
<1>4. nerr \in Nat /\ RingSize \in Nat /\ Posted \in Nat
  BY RecvPlaces DEF RingTypeOK
<1>5. Empty' = Empty
  BY <1>1 DEF Empty
<1>6. /\ Cardinality(Empty) = 1 + Cardinality(lost')
      /\ Cardinality(lost') \in Nat
      /\ mbuf = None => lost' = lost
  <2>1. CASE mbuf = None
    <3>1. lost' = lost
      BY <2>1, <1>1
    <3>2. Cardinality(Empty) = 1 + Cardinality(lost)
      BY <2>1, Counts DEF RoomInv
    <3> QED BY <3>1, <3>2, Counts
  <2>2. CASE mbuf # None
    <3>1. lost' = lost \cup {mbuf} /\ mbuf \notin lost
      BY <2>2, <1>1 DEF RecvInv, OnePlace
    <3>2. Cardinality(lost') = Cardinality(lost) + 1
      BY <3>1, Counts, FS_AddElement
    <3>3. Cardinality(Empty) = 1 + Cardinality(lost) + 1
      BY <2>2 DEF RoomInv
    <3> QED BY <3>2, <3>3, <2>2, Counts
  <2> QED BY <2>1, <2>2
<1>7. ASSUME nerr' < RingSize - 3
      PROVE  Cardinality(lost') <= nerr' /\ Off(tail)' >= RingSize - 2 - nerr'
  <2>1. Cardinality(lost) <= nerr /\ mbuf = None /\ Posted >= RingSize - 1 - nerr
    BY <1>1, <1>7 DEF RoomInv
  <2>2. Cardinality(lost') <= nerr'
    BY <2>1, <1>1, <1>6
  <2>3. Off(tail)' >= RingSize - 2 - nerr'
    BY <2>1, <1>1, <1>3, <1>4
  <2> QED BY <2>2, <2>3
<1>8. Cardinality(Empty)' = 1 + Cardinality(lost)' + IF mbuf' = None THEN 0 ELSE 1
  BY <1>1, <1>5, <1>6
<1> QED BY <1>2, <1>7, <1>8 DEF RoomInv

(* The steps that leave the buffers where they are                         *)
LEMMA SameKeepsRoom ==
  ASSUME RoomInv,
         UNCHANGED <<rx_buff, mbuf, lost, nerr>>, Off(tail)' = Off(tail),
         Posted' = Posted,
         \/ mbx = "idle" /\ mbx' = "recv"
         \/ mbx = "recv" /\ mbx' = "idle"
         \/ mbx = "handle" /\ mbx' = "post"
         \/ mbx = "post" /\ mbx' = "fill"
         \/ mbx' = mbx
  PROVE  RoomInv'
<1>1. Empty' = Empty
  BY DEF Empty
<1> QED BY <1>1 DEF RoomInv

(* RoomInv is inductive relative to RecvInv.                                *)
LEMMA RoomInductive ==
  RingTypeOK /\ RecvInv /\ RoomInv /\ [ArqNext]_arqVars => RoomInv'
<1> SUFFICES ASSUME RingTypeOK, RecvInv, RoomInv, [ArqNext]_arqVars
             PROVE  RoomInv'
  OBVIOUS
<1>1. ASSUME NEW k \in Kind, NEW e \in BOOLEAN, HwWrite(k, e)
      PROVE  RoomInv'
  <2>1. UNCHANGED <<rx_buff, mbuf, lost, nerr, tail, next_to_clean, ntp, mbx>>
    BY <1>1 DEF HwWrite, taskVars
  <2>2. Off(tail)' = Off(tail) /\ Posted' = Posted
    BY <2>1 DEF Off, Posted, Posting
  <2> QED BY <2>1, <2>2, SameKeepsRoom
<1>2. ASSUME \/ MbxTask \/ IntrReq \/ IntrRel \/ RecvNone
             \/ (\E ok \in BOOLEAN : Handle(ok)) \/ UNCHANGED arqVars
      PROVE  RoomInv'
  <2>1. /\ UNCHANGED <<descVars, rx_buff, next_to_clean, next_to_post, tail,
                       head, arrived, data, mid, mbuf, ntp, received, lost,
                       nerr>>
        /\ failed' \in BOOLEAN
        /\ \/ mbx = "idle" /\ mbx' = "recv"
           \/ mbx = "recv" /\ mbx' = "idle"
           \/ mbx = "handle" /\ mbx' = "post"
           \/ mbx' = mbx
    <3>1. failed' \in BOOLEAN
      BY <1>2, RestIs DEF Rest
    <3>2. CASE MbxTask \/ IntrReq \/ IntrRel
      BY <3>1, <3>2 DEF MbxTask, IntrReq, IntrRel, arqRing, descVars
    <3>3. CASE RecvNone \/ (\E ok \in BOOLEAN : Handle(ok)) \/ UNCHANGED arqVars
      BY <3>1, <3>3 DEF RecvNone, Handle, arqVars, descVars, taskVars
    <3> QED BY <1>2, <3>2, <3>3
  <2>2. Off(tail)' = Off(tail) /\ Posted' = Posted
    BY <2>1, OthersKeepRing
  <2> QED BY <2>1, <2>2, SameKeepsRoom
<1>3. ASSUME PostStart
      PROVE  RoomInv'
  <2>1. UNCHANGED <<rx_buff, mbuf, lost, nerr, tail, next_to_clean>>
          /\ mbx = "post"
    BY <1>3 DEF PostStart, taskVars
  <2>2. Off(tail)' = Off(tail)
    BY <2>1 DEF Off
  <2> QED BY <2>1, <2>2, <1>3, StartKeepsRing, SameKeepsRoom
<1> QED BY <1>1, <1>2, <1>3, MsgKeepsRoom, ErrKeepsRoom, FillKeepsRoom,
           StopKeepsRoom, OutKeepsRoom DEF ArqNext, Task

(* What says who queues the mailbox task next has its types.                *)
ModeTypeOK ==
  /\ mode \in {"polled", "intr", "released"}
  /\ irq \in BOOLEAN /\ pend \in BOOLEAN

(* The modes change only as idpf_intr_req and idpf_mb_intr_rel_irq do, and  *)
(* the rest of the mailbox task leaves them alone.                          *)
LEMMA ModeInvariant == ArqSpec => []ModeTypeOK
<1>1. ArqInit => ModeTypeOK
  BY Zenon DEF ArqInit, ModeTypeOK
<1>2. ModeTypeOK /\ [ArqNext]_arqVars => ModeTypeOK'
  <2> SUFFICES ASSUME ModeTypeOK, [ArqNext]_arqVars
               PROVE  ModeTypeOK'
    OBVIOUS
  <2>1. CASE UNCHANGED modeVars
    BY <2>1, Zenon DEF ModeTypeOK, modeVars
  <2>2. CASE IntrReq
    BY <2>2, Zenon DEF ModeTypeOK, IntrReq
  <2>3. CASE IntrRel
    BY <2>3, Zenon DEF ModeTypeOK, IntrRel
  <2>4. CASE MbxTask
    <3>1. mode' = mode /\ pend' = (mode # "intr") /\ irq' = (mode = "intr")
      BY <2>4, Zenon DEF MbxTask
    <3>2. pend' \in BOOLEAN /\ irq' \in BOOLEAN
      BY <3>1, Zenon
    <3> QED BY <3>1, <3>2, Zenon DEF ModeTypeOK
  <2>5. CASE \E k \in Kind, e \in BOOLEAN : HwWrite(k, e)
    <3>1. mode' = mode /\ irq' = FALSE /\ pend' = (pend \/ irq)
      BY <2>5, Zenon DEF HwWrite
    <3>2. pend' \in BOOLEAN
      BY <3>1, Zenon
    <3> QED BY <3>1, <3>2, Zenon DEF ModeTypeOK
  <2>6. CASE \/ RecvNone \/ RecvMsg \/ RecvErr
             \/ (\E ok \in BOOLEAN : Handle(ok))
             \/ PostStart \/ PostFill \/ PostStop \/ PostOut
    BY <2>1, <2>6, Zenon
       DEF RecvNone, RecvMsg, RecvErr, Handle, PostStart, PostFill, PostStop,
           PostOut
  <2> QED BY <2>1, <2>2, <2>3, <2>4, <2>5, <2>6, Zenon
          DEF ArqNext, Task, arqVars
<1> QED BY <1>1, <1>2, PTL DEF ArqSpec

(* RoomInv always holds.                                                    *)
LEMMA RoomInvariant == ArqSpec => []RoomInv
<1>1. ArqInit => RoomInv
  BY RoomInit
<1>2. RingTypeOK /\ RecvInv /\ RoomInv /\ [ArqNext]_arqVars => RoomInv'
  BY RoomInductive
<1> QED BY <1>1, <1>2, RecvInvariant, PTL DEF ArqSpec

-----------------------------------------------------------------------------
(* The properties *)

(* What RecvInv says of the buffers is BufsOwnedOnce.                       *)
LEMMA BuffersOwnedHolds ==
  ASSUME RingTypeOK, RecvInv
  PROVE  BuffersOwnedOnce
<1> SUFFICES ASSUME NEW b \in Buf
             PROVE  Cardinality({i \in Slot : rx_buff[i] = b})
                      + (IF mbuf = b THEN 1 ELSE 0)
                      + (IF b \in lost THEN 1 ELSE 0) = 1
  BY DEF BuffersOwnedOnce
<1> DEFINE S == {i \in Slot : rx_buff[i] = b}
<1>1. b # None
  BY BufIs
<1>2. CASE \E i \in Slot : rx_buff[i] = b
  <2>1. PICK i \in Slot : rx_buff[i] = b
    BY <1>2
  <2>2. S = {i} /\ mbuf # b /\ b \notin lost
    BY <2>1, <1>1 DEF RecvInv, OnePlace
  <2>3. Cardinality(S) = 1
    BY <2>2, FS_Singleton
  <2> QED BY <2>2, <2>3
<1>3. CASE ~ \E i \in Slot : rx_buff[i] = b
  <2>1. S = {}
    BY <1>3
  <2>2. Cardinality(S) = 0
    BY <2>1, FS_EmptySet
  <2>3. \/ mbuf = b /\ b \notin lost
        \/ mbuf # b /\ b \in lost
    BY <1>3 DEF RecvInv, OnePlace
  <2> QED BY <2>2, <2>3
<1> QED BY <1>2, <1>3

(* The device owns only slots with a posted buffer, whatever               *)
(* idpf_ctlq_post_rx_buffs is rewriting; each buffer is in one slot, with  *)
(* the mailbox task, or dropped by the error path of idpf_recv_mb_msg; and *)
(* posting keeps up with the messages as long as the dropped buffers leave *)
(* room - for every ring size.                                             *)
THEOREM RecvRingSafe == ArqSpec => []BuffersSound
<1>1. RingTypeOK /\ RecvInv => HwOwnsPosted
  <2> SUFFICES ASSUME RingTypeOK, RecvInv, NEW i \in Slot,
                      Dist(head, i) < Dist(head, tail)
               PROVE  flags[i] = "avail" /\ addr[i] # None
                        /\ addr[i] = rx_buff[i]
    BY DEF HwOwnsPosted
  <2>1. /\ Dist(head, i) = IF Off(head) <= Off(i) THEN Off(i) - Off(head)
                           ELSE Off(i) - Off(head) + RingSize
        /\ Dist(head, tail) = IF Off(head) <= Off(tail)
                              THEN Off(tail) - Off(head)
                              ELSE Off(tail) - Off(head) + RingSize
    BY RecvPlaces, DistFrom DEF Off
  <2>2. Off(head) <= Off(i) /\ Off(i) < Posted
    BY <2>1, RecvPlaces
  <2> QED BY <2>2 DEF RecvInv, RecvSlots
<1>2. RingTypeOK /\ RoomInv => NeverStarves
  <2> SUFFICES ASSUME RingTypeOK, RoomInv
               PROVE  NeverStarves
    OBVIOUS
  <2> QED BY DEF NeverStarves, RoomInv, Off
<1>3. RingTypeOK /\ ModeTypeOK => ArqTypeOK
  BY Zenon DEF ArqTypeOK, ModeTypeOK
<1>4. RingTypeOK /\ ModeTypeOK /\ RecvInv /\ RoomInv => BuffersSound
  BY <1>1, <1>2, <1>3, BuffersOwnedHolds DEF BuffersSound
<1> QED BY <1>4, RecvInvariant, RoomInvariant, ModeInvariant, PTL

(* idpf_recv_mb_msg hands the messages over in the order of their arrival, *)
(* none twice, and the payload a handler reads is the one the device wrote *)
(* with that message.                                                      *)
THEOREM DeliverySafe == ArqSpec => []DeliveredExact
<1>1. RingTypeOK /\ RecvInv => DeliveredExact
  <2> SUFFICES ASSUME RingTypeOK, RecvInv
               PROVE  DeliveredExact
    OBVIOUS
  <2>1. received <= arrived
    <3>1. arrived = received + Off(head) /\ received \in Nat /\ Off(head) \in Nat
      BY RecvPlaces DEF RecvInv, Numbered, RingTypeOK
    <3> QED BY <3>1
  <2> QED BY <2>1 DEF DeliveredExact, ReceivedInOrder, PayloadIntact, RecvInv,
                      Numbered
<1> QED BY <1>1, RecvInvariant, PTL
=============================================================================
