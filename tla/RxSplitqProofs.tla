---------------------------- MODULE RxSplitqProofs ----------------------------
(***************************************************************************)
(* Proofs about the buffers and packets of RxSplitq, for any number of     *)
(* buffer queues, any size of ring and any kinds of descriptors.           *)
(***************************************************************************)
EXTENDS RxSplitq, FiniteSetTheorems, TLAPS

-----------------------------------------------------------------------------
(* Places of a ring of n: the distance from i to s, and the places from i  *)
(* up to j                                                                 *)
Off(n, i, s) == IF i <= s THEN s - i ELSE (s - i) + n
Arc(n, i, j) == {s \in 0 .. n - 1 : Off(n, i, s) < Off(n, i, j)}
Inc(n, i) == IF i + 1 = n THEN 0 ELSE i + 1

Posted(b) == Arc(DescCount, head[b], nta[b])
Wr        == Arc(RxqDescs, ntc, hw_ntw)
Rf(b)     == Arc(DescCount, rfl_ntc[b], rfl_ntu[b])

(* Where buffer i of queue b is: posted, in a descriptor, to be refilled,  *)
(* lost                                                                    *)
AtBq(b, i)   == {s \in Posted(b) : bufd[b][s].id = i}
AtRx(b, i)   == {s \in Wr : rxd[s].bufq = b /\ rxd[s].id = i}
AtRf(b, i)   == {s \in Rf(b) : ring[b][s].id = i}
AtLost(b, i) == lost \cap {<<b, i>>}
OnePlace(b, i) ==
  \/ /\ \E s \in Posted(b) : AtBq(b, i) = {s}
     /\ AtRx(b, i) = {} /\ AtRf(b, i) = {} /\ AtLost(b, i) = {}
  \/ /\ \E s \in Wr : AtRx(b, i) = {s}
     /\ AtBq(b, i) = {} /\ AtRf(b, i) = {} /\ AtLost(b, i) = {}
  \/ /\ \E s \in Rf(b) : AtRf(b, i) = {s}
     /\ AtBq(b, i) = {} /\ AtRx(b, i) = {} /\ AtLost(b, i) = {}
  \/ /\ AtLost(b, i) = {<<b, i>>}
     /\ AtBq(b, i) = {} /\ AtRx(b, i) = {} /\ AtRf(b, i) = {}
OwnInv == \A b \in Queues, i \in BufId : OnePlace(b, i)
IdsInv ==
  /\ \A b \in Queues : \A s \in Posted(b) : bufd[b][s].id \in BufId
  /\ \A s \in Wr : rxd[s].bufq \in Queues /\ rxd[s].id \in BufId
  /\ \A b \in Queues : \A s \in Rf(b) : ring[b][s].id \in BufId

DescRec == [gen : {0, 1}, bufq : Queues \cup {0}, id : Slot, sop : BOOLEAN,
            hdr : BOOLEAN, pkt : BOOLEAN, eop : BOOLEAN, bad : BOOLEAN]
BufRec == [cur : Place, page : [1 .. 2 -> {"ok", "null", "freed"}],
           held : [1 .. 2 -> Nat]]
TypeInv ==
  /\ TypeOK
  /\ rxd \in [RxSlot -> DescRec]
  /\ rfl_gen \in [Queues -> {0, 1}] /\ rfl_gen_chk \in [Queues -> {0, 1}]
  /\ bufs \in [Queues -> [BufId -> BufRec]]
  /\ nfault \in Nat /\ {mid, mixed, pend, ok} \subseteq BOOLEAN
  /\ skb \in Skbs \cup {None}

(* The generation bits: one value before the place of the writer, the      *)
(* other behind it; the reader's is the writer's unless a wrap is between. *)
GenInv ==
  /\ \A s \in RxSlot : rxd[s].gen = IF s < hw_ntw THEN hw_gen ELSE 1 - hw_gen
  /\ hw_gen = IF ntc <= hw_ntw THEN gen_chk ELSE 1 - gen_chk
  /\ \A b \in Queues :
       /\ \A s \in Slot : ring[b][s].gen =
                            IF s < rfl_ntu[b] THEN rfl_gen[b] ELSE 1 - rfl_gen[b]
       /\ rfl_gen[b] = IF rfl_ntc[b] <= rfl_ntu[b] THEN rfl_gen_chk[b]
                                                   ELSE 1 - rfl_gen_chk[b]

(* The tail is next_to_alloc rounded down, by another stride until the     *)
(* first refill, and the device is not beyond it.                          *)
TailOk(a, u) == \/ u = AlignDown(a, PostStride)
                \/ a = DescCount - 1 /\ u = FirstTail
TailInv ==
  \A b \in Queues :
    /\ TailOk(nta[b], ntu[b])
    /\ Off(DescCount, head[b], ntu[b]) <= Off(DescCount, head[b], nta[b])

(* Nobody holds the place of a buffer that is to be used next; a buffer    *)
(* whose page is missing waits to be refilled.                             *)
PageNow(b, i) == bufs[b][i].page[PageOf(b, bufs[b][i].cur)]
FreeInv ==
  /\ \A b \in Queues, i \in BufId :
       /\ bufs[b][i].held[bufs[b][i].cur + 1] = 0
       /\ ~ Big(b) /\ PageNow(b, i) = "null" =>
            bufs[b][i].held[1] = 0 /\ bufs[b][i].held[2] = 0
       /\ "nomap" \notin Faults => \A n \in 1 .. 2 : bufs[b][i].page[n] # "freed"
  /\ \A b \in Queues : \A s \in Posted(b) :
       /\ bufd[b][s].cur = bufs[b][bufd[b][s].id].cur
       /\ PageNow(b, bufd[b][s].id) # "null"
  /\ \A s \in Wr : PageNow(rxd[s].bufq, rxd[s].id) # "null"

(* A descriptor begins a packet if the one before it ended one.            *)
Prev(n, i) == IF i = 0 THEN n - 1 ELSE i - 1
PacketInv ==
  /\ \A s \in Wr : (rxd[s].hdr => rxd[s].sop) /\ (conf.xdp => rxd[s].eop)
  /\ conf.xdp => skb = None /\ ~ mid
  /\ lost = {} =>
       /\ \A s \in Wr :
            rxd[s].sop <=> IF s = ntc THEN skb = None
                                      ELSE rxd[Prev(RxqDescs, s)].eop
       /\ mid <=> IF ntc = hw_ntw THEN skb # None
                                  ELSE ~ rxd[Prev(RxqDescs, hw_ntw)].eop
       /\ skb # None => skb.whole
       /\ ~ mixed

(* Without failures the poll leaves no descriptor and no refill behind.    *)
DoneInv ==
  nfault = 0 =>
    /\ lost = {} /\ \A s \in Wr : ~ rxd[s].bad
    /\ ~ pend /\ (pc = "idle" \/ (pc = "refill" /\ ok)) => Wr = {}
    /\ \A b \in Queues : pc = "idle" \/ b \in refilled => Rf(b) = {}
    /\ pc # "refill" => refilled = {}

IInv == TypeInv /\ IdsInv /\ OwnInv /\ GenInv /\ TailInv /\ FreeInv /\ PacketInv /\ DoneInv
-----------------------------------------------------------------------------
(* Arithmetic of rings                                                     *)

LEMMA ModUp ==
  ASSUME NEW n \in Nat \ {0}, NEW i \in 0 .. n - 1, NEW k \in 0 .. n
  PROVE  (i + k) % n = IF i + k < n THEN i + k ELSE i + k - n
OBVIOUS

LEMMA ModInc ==
  ASSUME NEW n \in Nat \ {0}, NEW i \in 0 .. n - 1
  PROVE  (i + 1) % n = Inc(n, i) /\ Inc(n, i) \in 0 .. n - 1
BY DEF Inc

LEMMA ModOff ==
  ASSUME NEW n \in Nat \ {0}, NEW i \in 0 .. n - 1, NEW s \in 0 .. n - 1
  PROVE  (s - i) % n = Off(n, i, s) /\ Off(n, i, s) \in 0 .. n - 1
BY DEF Off

(* The places of an arc, counted from its beginning                        *)
LEMMA ArcIs ==
  ASSUME NEW n \in Nat \ {0}, NEW i \in 0 .. n - 1, NEW j \in 0 .. n - 1
  PROVE  {(i + k) % n : k \in 0 .. Off(n, i, j) - 1} = Arc(n, i, j)
<1> DEFINE w == Off(n, i, j)
<1>1. w \in 0 .. n - 1
  BY DEF Off
<1>2. ASSUME NEW k \in 0 .. w - 1
      PROVE  (i + k) % n \in Arc(n, i, j)
  <2>1. k \in 0 .. n
    BY <1>1
  <2>2. (i + k) % n = IF i + k < n THEN i + k ELSE i + k - n
    BY <2>1, ModUp
  <2>3. (i + k) % n \in 0 .. n - 1 /\ Off(n, i, (i + k) % n) = k
    BY <1>1, <2>1, <2>2 DEF Off
  <2> QED
    BY <1>1, <2>3 DEF Arc
<1>3. ASSUME NEW s \in Arc(n, i, j)
      PROVE  \E k \in 0 .. w - 1 : s = (i + k) % n
  <2>1. s \in 0 .. n - 1 /\ Off(n, i, s) < w
    BY DEF Arc
  <2>2. Off(n, i, s) \in 0 .. w - 1 /\ Off(n, i, s) \in 0 .. n
    BY <1>1, <2>1 DEF Off
  <2>3. (i + Off(n, i, s)) % n = IF i + Off(n, i, s) < n THEN i + Off(n, i, s)
                                 ELSE i + Off(n, i, s) - n
    BY <2>2, ModUp
  <2>4. (i + Off(n, i, s)) % n = s
    BY <2>1, <2>2, <2>3 DEF Off
  <2> QED
    BY <2>2, <2>4
<1> QED
  BY <1>2, <1>3

(* The number of places                                                    *)
LEMMA ArcCard ==
  ASSUME NEW n \in Nat \ {0}, NEW i \in 0 .. n - 1, NEW j \in 0 .. n - 1
  PROVE  IsFiniteSet(Arc(n, i, j)) /\ Cardinality(Arc(n, i, j)) = Off(n, i, j)
<1> DEFINE w == Off(n, i, j)
           f == [s \in Arc(n, i, j) |-> Off(n, i, s)]
<1>1. w \in 0 .. n - 1
  BY DEF Off
<1>2. f \in [Arc(n, i, j) -> 0 .. w - 1]
  BY <1>1 DEF Arc, Off
<1>3. \A s, t \in Arc(n, i, j) : f[s] = f[t] => s = t
  BY DEF Arc, Off
<1>4. ASSUME NEW k \in 0 .. w - 1 PROVE \E s \in Arc(n, i, j) : f[s] = k
  <2> DEFINE s == IF i + k < n THEN i + k ELSE i + k - n
  <2>1. s \in 0 .. n - 1 /\ Off(n, i, s) = k
    BY <1>1 DEF Off
  <2> QED
    BY <1>1, <2>1 DEF Arc
<1>5. f \in Bijection(Arc(n, i, j), 0 .. w - 1)
  BY <1>2, <1>3, <1>4 DEF Bijection, Injection, Surjection, IsInjective
<1>6. IsFiniteSet(0 .. w - 1) /\ Cardinality(0 .. w - 1) = w
  <2> HIDE DEF w
  <2>1. PICK m \in Int : m = w - 1 /\ m >= -1
    BY <1>1
  <2>2. /\ IsFiniteSet(0 .. m)
        /\ Cardinality(0 .. m) = IF 0 > m THEN 0 ELSE m - 0 + 1
    BY FS_Interval
  <2> QED
    BY <1>1, <2>1, <2>2
<1>7. Arc(n, i, j) \in SUBSET (0 .. n - 1)
  BY DEF Arc
<1>8. IsFiniteSet(Arc(n, i, j))
  <2>1. PICK m \in Int : m = n - 1
    OBVIOUS
  <2>2. IsFiniteSet(0 .. m)
    BY FS_Interval
  <2> QED
    BY <1>7, <2>1, <2>2, FS_Subset
<1> QED
  BY <1>5, <1>6, <1>8, FS_Bijection DEF ExistsBijection

(* One place more at the end, one less at the beginning                    *)
LEMMA ArcPush ==
  ASSUME NEW n \in Nat \ {0}, NEW i \in 0 .. n - 1, NEW j \in 0 .. n - 1,
         Off(n, i, j) < n - 1
  PROVE  /\ Arc(n, i, Inc(n, j)) = Arc(n, i, j) \cup {j} /\ j \notin Arc(n, i, j)
         /\ Off(n, i, Inc(n, j)) = Off(n, i, j) + 1
BY DEF Arc, Off, Inc

LEMMA ArcPop ==
  ASSUME NEW n \in Nat \ {0}, NEW i \in 0 .. n - 1, NEW j \in 0 .. n - 1, i # j
  PROVE  /\ Arc(n, Inc(n, i), j) = Arc(n, i, j) \ {i} /\ i \in Arc(n, i, j)
         /\ Off(n, Inc(n, i), j) = Off(n, i, j) - 1
BY DEF Arc, Off, Inc

(* Several places more, several less                                       *)
LEMMA ArcGrow ==
  ASSUME NEW n \in Nat \ {0}, NEW i \in 0 .. n - 1, NEW j \in 0 .. n - 1,
         NEW k \in Nat, Off(n, i, j) + k < n
  PROVE  LET l == (j + k) % n
         IN  /\ l \in 0 .. n - 1
             /\ Arc(n, i, l) = Arc(n, i, j) \cup {s \in 0 .. n - 1 : Off(n, j, s) < k}
             /\ \A s \in 0 .. n - 1 : Off(n, j, s) < k => s \notin Arc(n, i, j)
             /\ Off(n, i, l) = Off(n, i, j) + k
<1>1. k \in 0 .. n
  BY DEF Off
<1>2. (j + k) % n = IF j + k < n THEN j + k ELSE j + k - n
  BY <1>1, ModUp
<1>3. PICK l \in 0 .. n - 1 : l = (j + k) % n /\ l = IF j + k < n THEN j + k ELSE j + k - n
  BY <1>1, <1>2
<1>4. Off(n, i, l) = Off(n, i, j) + k
  BY <1>1, <1>3 DEF Off
<1>5. \A s \in 0 .. n - 1 : Off(n, j, s) < k => s \notin Arc(n, i, j)
  BY <1>1, <1>3 DEF Off, Arc
<1>6. \A s \in 0 .. n - 1 : Off(n, i, s) < Off(n, i, j) + k
                              <=> Off(n, i, s) < Off(n, i, j) \/ Off(n, j, s) < k
  BY <1>1, <1>3 DEF Off
<1>7. Arc(n, i, l) = Arc(n, i, j) \cup {s \in 0 .. n - 1 : Off(n, j, s) < k}
  BY <1>4, <1>6 DEF Arc
<1> QED
  BY <1>3, <1>4, <1>5, <1>7

LEMMA ArcShrink ==
  ASSUME NEW n \in Nat \ {0}, NEW i \in 0 .. n - 1, NEW j \in 0 .. n - 1,
         NEW k \in Nat, k <= Off(n, i, j)
  PROVE  LET l == (i + k) % n
         IN  /\ l \in 0 .. n - 1
             /\ Arc(n, l, j) = {s \in Arc(n, i, j) : ~ (Off(n, i, s) < k)}
             /\ \A s \in 0 .. n - 1 : Off(n, i, s) < k => s \in Arc(n, i, j)
             /\ Off(n, l, j) = Off(n, i, j) - k
<1>1. k \in 0 .. n
  BY DEF Off
<1>2. (i + k) % n = IF i + k < n THEN i + k ELSE i + k - n
  BY <1>1, ModUp
<1>3. PICK l \in 0 .. n - 1 : l = (i + k) % n /\ l = IF i + k < n THEN i + k ELSE i + k - n
  BY <1>1, <1>2
<1>4. Off(n, l, j) = Off(n, i, j) - k
  BY <1>1, <1>3 DEF Off
<1>5. \A s \in 0 .. n - 1 : Off(n, i, s) < k => s \in Arc(n, i, j)
  BY <1>1 DEF Arc, Off
<1>6. \A s \in 0 .. n - 1 : Off(n, l, s) < Off(n, i, j) - k
                              <=> Off(n, i, s) < Off(n, i, j) /\ ~ (Off(n, i, s) < k)
  BY <1>1, <1>3 DEF Off
<1>7. Arc(n, l, j) = {s \in Arc(n, i, j) : ~ (Off(n, i, s) < k)}
  BY <1>4, <1>6 DEF Arc
<1> QED
  BY <1>3, <1>4, <1>5, <1>7

(* The place a distance away                                               *)
LEMMA OffBack ==
  ASSUME NEW n \in Nat \ {0}, NEW i \in 0 .. n - 1, NEW k \in 0 .. n - 1
  PROVE  (i + k) % n \in 0 .. n - 1 /\ Off(n, i, (i + k) % n) = k
<1>0. k \in 0 .. n
  OBVIOUS
<1>1. (i + k) % n = IF i + k < n THEN i + k ELSE i + k - n
  BY <1>0, ModUp
<1> QED
  BY <1>1 DEF Off

LEMMA OffForth ==
  ASSUME NEW n \in Nat \ {0}, NEW i \in 0 .. n - 1, NEW s \in 0 .. n - 1
  PROVE  (i + Off(n, i, s)) % n = s /\ Off(n, i, s) \in 0 .. n - 1
<1>1. Off(n, i, s) \in 0 .. n - 1
  BY DEF Off
<1>3. Off(n, i, s) \in 0 .. n
  BY <1>1
<1>2. (i + Off(n, i, s)) % n = IF i + Off(n, i, s) < n THEN i + Off(n, i, s)
                                 ELSE i + Off(n, i, s) - n
  BY <1>3, ModUp
<1> QED
  BY <1>1, <1>2 DEF Off

(* The image of a finite set under a function that keeps its elements apart *)
LEMMA ImageCard ==
  ASSUME NEW S, IsFiniteSet(S), NEW f, \A x, y \in S : f[x] = f[y] => x = y
  PROVE  LET T == {f[x] : x \in S} IN IsFiniteSet(T) /\ Cardinality(T) = Cardinality(S)
<1> DEFINE T == {f[x] : x \in S}
           g == [x \in S |-> f[x]]
<1>1. g \in Bijection(S, T)
  BY DEF Bijection, Injection, Surjection, IsInjective
<1>2. Cardinality(S) = Cardinality(T) /\ IsFiniteSet(T)
  <2> HIDE DEF T
  <2> QED
    BY <1>1, FS_Bijection, FS_Surjection DEF ExistsBijection, Bijection
<1> QED
  BY <1>2

-----------------------------------------------------------------------------
(* What the configuration and the types say                                *)

LEMMA ConfIs ==
  ASSUME conf \in Configs
  PROVE  /\ DescCount \in Nat \ {0} /\ DescCount >= 2
         /\ PostStride \in Nat \ {0} /\ PostStride < DescCount /\ DescCount % PostStride = 0
         /\ Stride \in Nat \ {0} /\ Stride <= DescCount /\ DescCount % Stride = 0
         /\ PostStride <= Stride
         /\ IsFiniteSet(Queues) /\ Queues # {}
         /\ Cardinality(Queues) \in Nat \ {0}
         /\ RxqDescs = DescCount * Cardinality(Queues) /\ RxqDescs \in Nat \ {0}
<1>1. /\ DescCount \in Nat \ {0, 1}
      /\ Stride \in 1 .. DescCount /\ DescCount % Stride = 0
      /\ PostStride \in 1 .. Stride /\ DescCount % PostStride = 0
      /\ PostStride < DescCount
      /\ IsFiniteSet(Queues) /\ Queues # {}
  BY SizeAssumption DEF DescCount, Stride, PostStride, Queues
<1>2. Cardinality(Queues) \in Nat /\ Cardinality(Queues) # 0
  BY <1>1, FS_CardinalityType, FS_EmptySet
<1> DEFINE c == Cardinality(Queues)
           d == DescCount
<1>3. c \in Nat \ {0} /\ d \in Nat \ {0} /\ RxqDescs = d * c
  BY <1>1, <1>2 DEF RxqDescs
<1> HIDE DEF c, d
<1>4. d * c \in Nat \ {0}
  BY <1>3
<1> QED
  BY <1>1, <1>2, <1>3, <1>4 DEF c, d

LEMMA ConfKept ==
  ASSUME conf' = conf
  PROVE  /\ DescCount' = DescCount /\ PostStride' = PostStride /\ Queues' = Queues
         /\ FirstTail' = FirstTail
         /\ Slot' = Slot /\ BufId' = BufId /\ RxqDescs' = RxqDescs
         /\ RxSlot' = RxSlot /\ DescRec' = DescRec
         /\ \A b \in Queues : Big(b)' = Big(b)
<1>1. DescCount' = DescCount /\ PostStride' = PostStride /\ Queues' = Queues
  BY DEF DescCount, PostStride, Queues
<1>2. Slot' = Slot /\ BufId' = BufId /\ RxqDescs' = RxqDescs
  BY <1>1 DEF Slot, BufId, RxqDescs
<1>3. FirstTail' = FirstTail
  BY <1>1 DEF FirstTail, AlignDown, Stride
<1> QED
  BY <1>1, <1>2, <1>3 DEF RxSlot, DescRec, Big

(* The indices are places of their rings.                                  *)
LEMMA Indices ==
  ASSUME TypeInv
  PROVE  /\ conf \in Configs
         /\ ntc \in 0 .. RxqDescs - 1 /\ hw_ntw \in 0 .. RxqDescs - 1
         /\ \A b \in Queues :
              /\ head[b] \in 0 .. DescCount - 1 /\ ntu[b] \in 0 .. DescCount - 1
              /\ nta[b] \in 0 .. DescCount - 1
              /\ rfl_ntu[b] \in 0 .. DescCount - 1 /\ rfl_ntc[b] \in 0 .. DescCount - 1
BY DEF TypeInv, TypeOK, Slot, RxSlot

LEMMA BitsAre ==
  ASSUME TypeInv
  PROVE  /\ hw_gen \in {0, 1} /\ gen_chk \in {0, 1}
         /\ \A b \in Queues : rfl_gen[b] \in {0, 1} /\ rfl_gen_chk[b] \in {0, 1}
BY DEF TypeInv, TypeOK

(* A buffer is in no second place.                                         *)
LEMMA InBq ==
  ASSUME OwnInv, NEW b \in Queues, NEW s \in Posted(b), bufd[b][s].id \in BufId
  PROVE  LET i == bufd[b][s].id
         IN  AtBq(b, i) = {s} /\ AtRx(b, i) = {} /\ AtRf(b, i) = {} /\ AtLost(b, i) = {}
<1> DEFINE i == bufd[b][s].id
<1>1. s \in AtBq(b, i)
  BY DEF AtBq
<1>2. OnePlace(b, i)
  BY DEF OwnInv
<1> HIDE DEF i
<1> QED
  BY <1>1, <1>2 DEF OnePlace, i

LEMMA InRx ==
  ASSUME OwnInv, NEW s \in Wr, rxd[s].bufq \in Queues, rxd[s].id \in BufId
  PROVE  LET b == rxd[s].bufq
             i == rxd[s].id
         IN  AtRx(b, i) = {s} /\ AtBq(b, i) = {} /\ AtRf(b, i) = {} /\ AtLost(b, i) = {}
<1> DEFINE b == rxd[s].bufq
           i == rxd[s].id
<1>1. s \in AtRx(b, i)
  BY DEF AtRx
<1>2. OnePlace(b, i)
  BY DEF OwnInv
<1> HIDE DEF i, b
<1> QED
  BY <1>1, <1>2 DEF OnePlace, i, b

LEMMA InRf ==
  ASSUME OwnInv, NEW b \in Queues, NEW s \in Rf(b), ring[b][s].id \in BufId
  PROVE  LET i == ring[b][s].id
         IN  AtRf(b, i) = {s} /\ AtBq(b, i) = {} /\ AtRx(b, i) = {} /\ AtLost(b, i) = {}
<1> DEFINE i == ring[b][s].id
<1>1. s \in AtRf(b, i)
  BY DEF AtRf
<1>2. OnePlace(b, i)
  BY DEF OwnInv
<1> HIDE DEF i
<1> QED
  BY <1>1, <1>2 DEF OnePlace, i

(* The number of buffers of a queue                                        *)
LEMMA BufCount ==
  ASSUME conf \in Configs
  PROVE  IsFiniteSet(BufId) /\ Cardinality(BufId) = DescCount - 1
<1>1. PICK m \in Int : m = DescCount - 2 /\ m >= 0
  BY ConfIs
<1>2. IsFiniteSet(0 .. m) /\ Cardinality(0 .. m) = IF 0 > m THEN 0 ELSE m - 0 + 1
  BY FS_Interval
<1> QED
  BY <1>1, <1>2, ConfIs DEF BufId

(* The ids in an arc of a ring are as many as its places.                  *)
BqIds(b) == {bufd[b][s].id : s \in Posted(b)}
RfIds(b) == {ring[b][s].id : s \in Rf(b)}

LEMMA BqCount ==
  ASSUME TypeInv, IdsInv, OwnInv, NEW b \in Queues
  PROVE  /\ BqIds(b) \subseteq BufId /\ IsFiniteSet(BqIds(b))
         /\ Cardinality(BqIds(b)) = Off(DescCount, head[b], nta[b])
<1> DEFINE f == [s \in Posted(b) |-> bufd[b][s].id]
           n == DescCount
<1>1. n \in Nat \ {0} /\ head[b] \in 0 .. n - 1 /\ nta[b] \in 0 .. n - 1
  BY Indices, ConfIs
<1>2. /\ IsFiniteSet(Posted(b))
      /\ Cardinality(Posted(b)) = Off(n, head[b], nta[b])
  <2> HIDE DEF n
  <2> QED
    BY <1>1, ArcCard DEF Posted, n
<1>3. \A s \in Posted(b) : f[s] \in BufId
  BY DEF IdsInv
<1>4. ASSUME NEW s \in Posted(b), NEW t \in Posted(b), f[s] = f[t] PROVE s = t
  <2>1. AtBq(b, bufd[b][s].id) = {s} /\ AtBq(b, bufd[b][t].id) = {t}
    BY <1>3, InBq
  <2> QED
    BY <2>1, <1>4
<1>5. BqIds(b) = {f[s] : s \in Posted(b)}
  BY DEF BqIds
<1>6. BqIds(b) \subseteq BufId
  BY <1>3, <1>5
<1> HIDE DEF f
<1>7. IsFiniteSet(BqIds(b)) /\ Cardinality(BqIds(b)) = Cardinality(Posted(b))
  BY <1>2, <1>4, <1>5, ImageCard
<1> QED
  BY <1>2, <1>6, <1>7

LEMMA RfCount ==
  ASSUME TypeInv, IdsInv, OwnInv, NEW b \in Queues
  PROVE  /\ RfIds(b) \subseteq BufId /\ IsFiniteSet(RfIds(b))
         /\ Cardinality(RfIds(b)) = Off(DescCount, rfl_ntc[b], rfl_ntu[b])
<1> DEFINE f == [s \in Rf(b) |-> ring[b][s].id]
           n == DescCount
<1>1. n \in Nat \ {0} /\ rfl_ntc[b] \in 0 .. n - 1 /\ rfl_ntu[b] \in 0 .. n - 1
  BY Indices, ConfIs
<1>2. /\ IsFiniteSet(Rf(b))
      /\ Cardinality(Rf(b)) = Off(n, rfl_ntc[b], rfl_ntu[b])
  <2> HIDE DEF n
  <2> QED
    BY <1>1, ArcCard DEF Rf, n
<1>3. \A s \in Rf(b) : f[s] \in BufId
  BY DEF IdsInv
<1>4. ASSUME NEW s \in Rf(b), NEW t \in Rf(b), f[s] = f[t] PROVE s = t
  <2>1. AtRf(b, ring[b][s].id) = {s} /\ AtRf(b, ring[b][t].id) = {t}
    BY <1>3, InRf
  <2> QED
    BY <2>1, <1>4
<1>5. RfIds(b) = {f[s] : s \in Rf(b)}
  BY DEF RfIds
<1>6. RfIds(b) \subseteq BufId
  BY <1>3, <1>5
<1> HIDE DEF f
<1>7. IsFiniteSet(RfIds(b)) /\ Cardinality(RfIds(b)) = Cardinality(Rf(b))
  BY <1>2, <1>4, <1>5, ImageCard
<1> QED
  BY <1>2, <1>6, <1>7

(* Posted and waiting buffers of a queue are different.                    *)
LEMMA BqRfApart ==
  ASSUME TypeInv, IdsInv, OwnInv, NEW b \in Queues
  PROVE  BqIds(b) \cap RfIds(b) = {}
<1> SUFFICES ASSUME NEW s \in Posted(b), NEW t \in Rf(b), bufd[b][s].id = ring[b][t].id
             PROVE  FALSE
  BY DEF BqIds, RfIds
<1>1. AtBq(b, bufd[b][s].id) = {s}
  BY InBq DEF IdsInv
<1>2. AtBq(b, ring[b][t].id) = {}
  BY InRf DEF IdsInv
<1> QED
  BY <1>1, <1>2

(* There is room to post what waits to be refilled.                        *)
LEMMA RoomToPost ==
  ASSUME TypeInv, IdsInv, OwnInv, NEW b \in Queues
  PROVE  Off(DescCount, head[b], nta[b]) + Off(DescCount, rfl_ntc[b], rfl_ntu[b]) < DescCount
<1>1. /\ IsFiniteSet(BqIds(b) \cup RfIds(b))
      /\ Cardinality(BqIds(b) \cup RfIds(b)) =
           Cardinality(BqIds(b)) + Cardinality(RfIds(b)) - Cardinality(BqIds(b) \cap RfIds(b))
  BY BqCount, RfCount, FS_Union
<1>2. Cardinality(BqIds(b) \cap RfIds(b)) = 0
  BY BqRfApart, FS_EmptySet
<1>3. Cardinality(BqIds(b) \cup RfIds(b)) <= DescCount - 1
  BY BqCount, RfCount, BufCount, Indices, FS_Subset
<1>4. DescCount \in Nat \ {0} /\ head[b] \in 0 .. DescCount - 1 /\ nta[b] \in 0 .. DescCount - 1
      /\ rfl_ntu[b] \in 0 .. DescCount - 1 /\ rfl_ntc[b] \in 0 .. DescCount - 1
  BY Indices, ConfIs
<1>5. Off(DescCount, head[b], nta[b]) \in Int /\ Off(DescCount, rfl_ntc[b], rfl_ntu[b]) \in Int
  BY <1>4 DEF Off
<1> QED
  BY <1>1, <1>2, <1>3, <1>4, <1>5, BqCount, RfCount

(* The refill queue has room for the buffer of the descriptor.             *)
LEMMA RoomToRefill ==
  ASSUME TypeInv, IdsInv, OwnInv, NEW s \in Wr
  PROVE  LET b == rxd[s].bufq
         IN  Off(DescCount, rfl_ntc[b], rfl_ntu[b]) < DescCount - 1
<1> DEFINE b == rxd[s].bufq
           i == rxd[s].id
<1>1. b \in Queues /\ i \in BufId
  BY DEF IdsInv
<1>2. AtRf(b, i) = {}
  BY <1>1, InRx
<1>3. i \notin RfIds(b)
  BY <1>2 DEF RfIds, AtRf
<1> HIDE DEF b, i
<1>4. /\ Cardinality(RfIds(b) \cup {i}) = Cardinality(RfIds(b)) + 1
      /\ IsFiniteSet(RfIds(b) \cup {i})
  BY <1>1, <1>3, RfCount, FS_AddElement
<1>5. Cardinality(RfIds(b) \cup {i}) <= DescCount - 1
  BY <1>1, RfCount, BufCount, Indices, FS_Subset
<1>6. DescCount \in Nat \ {0} /\ rfl_ntu[b] \in 0 .. DescCount - 1
      /\ rfl_ntc[b] \in 0 .. DescCount - 1
  BY <1>1, Indices, ConfIs
<1>7. Off(DescCount, rfl_ntc[b], rfl_ntu[b]) \in Int
  BY <1>6 DEF Off
<1> QED
  BY <1>1, <1>4, <1>5, <1>6, <1>7, RfCount DEF b

(* The Rx queue has room for a descriptor as long as a buffer is posted.   *)
LEMMA RoomToWrite ==
  ASSUME TypeInv, IdsInv, OwnInv, NEW b \in Queues, NEW p \in Posted(b)
  PROVE  Off(RxqDescs, ntc, hw_ntw) < RxqDescs - 1
<1> DEFINE f == [s \in Wr |-> <<rxd[s].bufq, rxd[s].id>>]
           T == {f[s] : s \in Wr}
           i == bufd[b][p].id
           n == RxqDescs
           q == Cardinality(Queues)
           d == DescCount
<1>0. conf \in Configs
  BY Indices
<1>1. n \in Nat \ {0} /\ ntc \in 0 .. n - 1 /\ hw_ntw \in 0 .. n - 1
  BY Indices, ConfIs
<1>2. IsFiniteSet(Wr) /\ Cardinality(Wr) = Off(n, ntc, hw_ntw)
  <2> HIDE DEF n
  <2> QED
    BY <1>1, ArcCard DEF Wr, n
<1>3. \A s \in Wr : rxd[s].bufq \in Queues /\ rxd[s].id \in BufId
  BY DEF IdsInv
<1>4. ASSUME NEW s \in Wr, NEW t \in Wr, f[s] = f[t] PROVE s = t
  <2>1. rxd[s].bufq = rxd[t].bufq /\ rxd[s].id = rxd[t].id
    BY <1>4
  <2>2. AtRx(rxd[s].bufq, rxd[s].id) = {s} /\ AtRx(rxd[t].bufq, rxd[t].id) = {t}
    BY <1>3, InRx
  <2> QED
    BY <2>1, <2>2
<1>5. i \in BufId
  BY DEF IdsInv
<1>6. AtRx(b, i) = {}
  BY <1>5, InBq
<1>7. <<b, i>> \notin T
  BY <1>6 DEF AtRx
<1>8. T \cup {<<b, i>>} \in SUBSET (Queues \X BufId)
  BY <1>3, <1>5
<1> HIDE DEF f
<1>9. IsFiniteSet(T) /\ Cardinality(T) = Cardinality(Wr)
  BY <1>2, <1>4, ImageCard
<1> HIDE DEF T, i
<1>10. Cardinality(T \cup {<<b, i>>}) = Cardinality(T) + 1
  BY <1>7, <1>9, FS_AddElement
<1>11. /\ IsFiniteSet(Queues \X BufId)
       /\ Cardinality(Queues \X BufId) = q * Cardinality(BufId)
  BY <1>0, ConfIs, BufCount, FS_Product
<1>12. Cardinality(T \cup {<<b, i>>}) <= q * Cardinality(BufId)
  BY <1>8, <1>11, FS_Subset
<1>13. d \in Nat \ {0} /\ q \in Nat \ {0} /\ n = d * q /\ Cardinality(BufId) = d - 1
  BY <1>0, ConfIs, BufCount
<1>14. PICK w \in Int : w = Off(n, ntc, hw_ntw)
  <2> HIDE DEF n
  <2>1. Off(n, ntc, hw_ntw) \in Int
    BY <1>1 DEF Off
  <2> QED
    BY <2>1
<1>15. w + 1 <= q * (d - 1)
  <2>1. Cardinality(T \cup {<<b, i>>}) = w + 1
    BY <1>2, <1>9, <1>10, <1>14
  <2>2. q * Cardinality(BufId) = q * (d - 1)
    BY <1>13
  <2> QED
    BY <1>12, <2>1, <2>2
<1> HIDE DEF n, q, d
<1>16. q * (d - 1) = d * q - q
  BY <1>13
<1>17. PICK m \in Int : m = d * q
  BY <1>13
<1>18. w + 1 <= m - q
  BY <1>15, <1>16, <1>17
<1> QED
  BY <1>13, <1>14, <1>17, <1>18 DEF n

(* Rounding down to a multiple of s                                        *)
LEMMA DownIs ==
  ASSUME NEW x \in Nat, NEW s \in Nat \ {0}
  PROVE  AlignDown(x, s) \in Nat /\ AlignDown(x, s) <= x /\ x - AlignDown(x, s) < s
<1>2. x = s * (x \div s) + (x % s) /\ x \div s \in Int /\ x % s \in 0 .. s - 1
  OBVIOUS
<1>3. PICK y \in Int : y = s * (x \div s)
  BY <1>2
<1>4. AlignDown(x, s) = y
  BY <1>2, <1>3 DEF AlignDown
<1>5. x \div s >= 0
  OBVIOUS
<1>6. y >= 0
  BY <1>2, <1>3, <1>5
<1>7. PICK z \in 0 .. s - 1 : z = x % s
  BY <1>2
<1>8. x = y + z
  BY <1>2, <1>3, <1>7
<1> QED
  BY <1>4, <1>6, <1>7, <1>8

(* A stride that divides the ring fits above what is rounded down.         *)
LEMMA DownRoom ==
  ASSUME NEW d \in Nat \ {0}, NEW s \in Nat \ {0}, d % s = 0, NEW x \in 0 .. d - 1
  PROVE  AlignDown(x, s) + s <= d
<1>3. PICK p \in Int, q \in Int : p = x \div s /\ q = d \div s
  OBVIOUS
<1>4. AlignDown(x, s) = p * s
  BY <1>3 DEF AlignDown
<1>5. d = q * s
  <2>1. d = s * (d \div s) + (d % s)
    OBVIOUS
  <2>2. s * q = q * s
    BY <1>3
  <2>3. PICK z \in Int : z = s * q
    BY <1>3
  <2> QED
    BY <1>3, <2>1, <2>2, <2>3
<1>6. p * s <= x
  BY <1>4, DownIs
<1>7. p < q
  <2> SUFFICES ASSUME p >= q PROVE FALSE
    BY <1>3
  <2>1. PICK e \in Nat : p = q + e
    <3>1. p - q \in Nat /\ p = q + (p - q)
      BY <1>3
    <3> QED
      BY <3>1
  <2>2. p * s = q * s + e * s
    BY <1>3, <2>1
  <2>3. PICK z \in Int, v \in Nat : z = q * s /\ v = e * s
    BY <1>3, <2>1
  <2> QED
    BY <1>5, <1>6, <2>2, <2>3
<1>8. PICK e \in Nat : q = p + 1 + e
  <2>1. q - p - 1 \in Nat /\ q = p + 1 + (q - p - 1)
    BY <1>3, <1>7
  <2> QED
    BY <2>1
<1>9. q * s = p * s + s + e * s
  BY <1>3, <1>8
<1>10. PICK z \in Int, v \in Nat : z = p * s /\ v = e * s
  BY <1>3, <1>8
<1> QED
  BY <1>4, <1>5, <1>9, <1>10

(* The tail after a refill, and the first one                              *)
LEMMA AlignIs ==
  ASSUME conf \in Configs, NEW x \in 0 .. DescCount - 1
  PROVE  /\ AlignDown(x, PostStride) \in 0 .. DescCount - 1
         /\ AlignDown(x, PostStride) <= x /\ x - AlignDown(x, PostStride) < PostStride
         /\ AlignDown(x, PostStride) + PostStride <= DescCount
<1>1. PICK d \in Nat \ {0}, s \in Nat \ {0} :
        d = DescCount /\ s = PostStride /\ d % s = 0
  BY ConfIs
<1>2. x \in Nat /\ x \in 0 .. d - 1
  BY <1>1
<1>3. /\ AlignDown(x, s) \in Nat /\ AlignDown(x, s) <= x /\ x - AlignDown(x, s) < s
      /\ AlignDown(x, s) + s <= d
  BY <1>1, <1>2, DownIs, DownRoom
<1> QED
  BY <1>1, <1>2, <1>3

LEMMA FirstIs ==
  ASSUME conf \in Configs
  PROVE  FirstTail \in 0 .. DescCount - 1 /\ FirstTail + Stride = DescCount
<1>1. PICK d \in Nat \ {0}, s \in Nat \ {0} :
        d = DescCount /\ s = Stride /\ d % s = 0 /\ s <= d
  BY ConfIs
<1>2. PICK x \in 0 .. d - 1 : x = d - 1
  BY <1>1
<1>3. /\ AlignDown(x, s) \in Nat /\ AlignDown(x, s) <= x /\ x - AlignDown(x, s) < s
      /\ AlignDown(x, s) + s <= d
  BY <1>1, <1>2, DownIs, DownRoom
<1>4. FirstTail = AlignDown(x, s)
  BY <1>1, <1>2 DEF FirstTail
<1> QED
  BY <1>1, <1>2, <1>3, <1>4

-----------------------------------------------------------------------------
(* The initial states                                                      *)

LEMMA InitPlaces ==
  ASSUME Init
  PROVE  /\ conf \in Configs /\ Wr = {} /\ lost = {}
         /\ \A b \in Queues : Rf(b) = {} /\ Posted(b) = BufId
         /\ \A b \in Queues : \A s \in BufId : bufd[b][s] = [id |-> s, cur |-> 0]
<1>1. conf \in Configs /\ lost = {}
  BY DEF Init
<1>2. DescCount \in Nat \ {0} /\ RxqDescs \in Nat \ {0}
  BY <1>1, ConfIs
<1>3. Wr = {}
  BY <1>2 DEF Init, Wr, Arc, Off
<1>4. ASSUME NEW b \in Queues PROVE Rf(b) = {} /\ Posted(b) = BufId
  <2>1. head[b] = 0 /\ nta[b] = DescCount - 1 /\ rfl_ntc[b] = 0 /\ rfl_ntu[b] = 0
    BY DEF Init
  <2>2. Rf(b) = {}
    BY <1>2, <2>1 DEF Rf, Arc, Off
  <2>3. Posted(b) = BufId
    BY <1>2, <2>1 DEF Posted, Arc, Off, BufId
  <2> QED
    BY <2>2, <2>3
<1>5. ASSUME NEW b \in Queues, NEW s \in BufId PROVE bufd[b][s] = [id |-> s, cur |-> 0]
  <2>1. s \in Slot
    BY <1>2 DEF BufId, Slot
  <2> QED
    BY <2>1 DEF Init
<1> QED
  BY <1>1, <1>3, <1>4, <1>5

LEMMA InitTypes == Init => TypeInv
<1> SUFFICES ASSUME Init PROVE TypeInv
  OBVIOUS
<1> USE DEF Init
<1>1. /\ conf \in Configs /\ DescCount \in Nat \ {0} /\ DescCount >= 2
      /\ RxqDescs \in Nat \ {0} /\ Budget \in Nat
  BY ConfIs, SizeAssumption
<1>2. 0 \in Slot /\ 0 \in RxSlot /\ DescCount - 1 \in Slot
  BY <1>1 DEF Slot, RxSlot
<1>3. FirstTail \in Slot
  BY <1>1, FirstIs DEF Slot
<1>4. NoDesc \in DescRec
  BY <1>2 DEF NoDesc, DescRec
<1>5. rxd \in [RxSlot -> DescRec]
  BY <1>4
<1>6. /\ head \in [Queues -> Slot] /\ ntu \in [Queues -> Slot] /\ nta \in [Queues -> Slot]
      /\ rfl_ntu \in [Queues -> Slot] /\ rfl_ntc \in [Queues -> Slot]
      /\ rfl_gen \in [Queues -> {0, 1}] /\ rfl_gen_chk \in [Queues -> {0, 1}]
  BY <1>2, <1>3
<1>7. /\ bufd \in [Queues -> [Slot -> [id : Slot, cur : Place]]]
      /\ ring \in [Queues -> [Slot -> [id : Slot, gen : {0, 1}]]]
  BY <1>2 DEF Place
<1>8. bufs \in [Queues -> [BufId -> BufRec]]
  <2> DEFINE r == [cur |-> 0, page |-> <<"ok", "ok">>, held |-> <<0, 0>>]
  <2>1. <<"ok", "ok">> \in [1 .. 2 -> {"ok", "null", "freed"}] /\ <<0, 0>> \in [1 .. 2 -> Nat]
    OBVIOUS
  <2>2. r \in BufRec
    BY <2>1 DEF BufRec, Place
  <2> HIDE DEF r
  <2>3. bufs = [b \in Queues |-> [i \in BufId |-> r]]
    BY DEF r
  <2> QED
    BY <2>2, <2>3
<1>9. TypeOK
  BY <1>1, <1>2, <1>6, <1>7 DEF TypeOK
<1> QED
  BY <1>5, <1>6, <1>8, <1>9 DEF TypeInv

LEMMA InitRest == Init => IInv
<1> SUFFICES ASSUME Init PROVE IInv
  OBVIOUS
<1>1. TypeInv
  BY InitTypes
<1>2. /\ conf \in Configs /\ DescCount \in Nat \ {0} /\ DescCount >= 2
      /\ RxqDescs \in Nat \ {0}
  BY ConfIs DEF Init
<1>20. \A b \in Queues : \A s \in Posted(b) :
         s \in BufId /\ bufd[b][s].id = s /\ bufd[b][s].cur = 0
  <2> SUFFICES ASSUME NEW b \in Queues, NEW s \in Posted(b)
               PROVE  s \in BufId /\ bufd[b][s].id = s /\ bufd[b][s].cur = 0
    OBVIOUS
  <2>1. s \in BufId
    BY InitPlaces
  <2>2. bufd[b][s] = [id |-> s, cur |-> 0]
    BY <2>1, InitPlaces
  <2> QED
    BY <2>1, <2>2
<1>3. IdsInv
  BY <1>20, InitPlaces DEF IdsInv
<1>4. OwnInv
  <2> SUFFICES ASSUME NEW b \in Queues, NEW i \in BufId PROVE OnePlace(b, i)
    BY DEF OwnInv
  <2>1. AtBq(b, i) = {i} /\ i \in Posted(b)
    <3>1. i \in Posted(b)
      BY InitPlaces
    <3> QED
      BY <1>20, <3>1 DEF AtBq
  <2>2. AtRx(b, i) = {} /\ AtRf(b, i) = {} /\ AtLost(b, i) = {}
    BY InitPlaces DEF AtRx, AtRf, AtLost
  <2> QED
    BY <2>1, <2>2 DEF OnePlace
<1>5. GenInv
  <2>1. \A s \in RxSlot : rxd[s].gen = IF s < hw_ntw THEN hw_gen ELSE 1 - hw_gen
    BY <1>2 DEF Init, RxSlot, NoDesc
  <2>2. ASSUME NEW b \in Queues
        PROVE  /\ \A s \in Slot : ring[b][s].gen =
                            IF s < rfl_ntu[b] THEN rfl_gen[b] ELSE 1 - rfl_gen[b]
               /\ rfl_gen[b] = IF rfl_ntc[b] <= rfl_ntu[b] THEN rfl_gen_chk[b]
                                                   ELSE 1 - rfl_gen_chk[b]
    BY <1>2 DEF Init, Slot
  <2>3. hw_gen = IF ntc <= hw_ntw THEN gen_chk ELSE 1 - gen_chk
    BY DEF Init
  <2> QED
    BY <2>1, <2>2, <2>3 DEF GenInv
<1>6. TailInv
  <2> SUFFICES ASSUME NEW b \in Queues
               PROVE  /\ TailOk(nta[b], ntu[b])
                      /\ Off(DescCount, head[b], ntu[b]) <= Off(DescCount, head[b], nta[b])
    BY DEF TailInv
  <2>1. head[b] = 0 /\ nta[b] = DescCount - 1 /\ ntu[b] = FirstTail
    BY DEF Init
  <2>2. FirstTail \in 0 .. DescCount - 1
    BY <1>2, FirstIs
  <2> QED
    BY <1>2, <2>1, <2>2 DEF Off, TailOk
<1>7. FreeInv
  <2>1. ASSUME NEW b \in Queues, NEW i \in BufId
        PROVE  /\ bufs[b][i].cur = 0 /\ bufs[b][i].held[1] = 0
               /\ bufs[b][i].held[2] = 0 /\ PageNow(b, i) = "ok"
               /\ \A n \in 1 .. 2 : bufs[b][i].page[n] = "ok"
    <3>1. bufs[b][i] = [cur |-> 0, page |-> <<"ok", "ok">>, held |-> <<0, 0>>]
      BY DEF Init
    <3>2. PageOf(b, 0) = 1
      BY DEF PageOf
    <3> QED
      BY <3>1, <3>2 DEF PageNow
  <2> QED
    <3>1. Wr = {}
      BY InitPlaces
    <3>2. \A b \in Queues, i \in BufId : bufs[b][i].held[bufs[b][i].cur + 1] = 0
      BY <2>1
    <3> QED
      BY <1>20, <2>1, <3>1, <3>2 DEF FreeInv
<1>8. PacketInv
  BY InitPlaces DEF Init, PacketInv
<1>9. DoneInv
  BY InitPlaces DEF Init, DoneInv
<1> QED
  BY <1>1, <1>3, <1>4, <1>5, <1>6, <1>7, <1>8, <1>9 DEF IInv

-----------------------------------------------------------------------------
(* The device writes a descriptor: the buffer it takes moves there         *)

LEMMA HwIs ==
  ASSUME IInv, NEW b \in Queues, NEW k \in Kinds, HwWrite(b, k)
  PROVE  /\ conf' = conf /\ lost' = lost /\ bufs' = bufs /\ ring' = ring
         /\ head[b] \in Posted(b) /\ Posted(b)' = Posted(b) \ {head[b]}
         /\ Off(DescCount, head'[b], nta[b]) = Off(DescCount, head[b], nta[b]) - 1
         /\ Off(DescCount, head'[b], ntu[b]) = Off(DescCount, head[b], ntu[b]) - 1
         /\ head'[b] \in Slot
         /\ \A c \in Queues : c # b => head'[c] = head[c] /\ Posted(c)' = Posted(c)
         /\ hw_ntw \notin Wr /\ Wr' = Wr \cup {hw_ntw}
         /\ hw_ntw' = Inc(RxqDescs, hw_ntw) /\ hw_ntw' # ntc
         /\ \A c \in Queues : Rf(c)' = Rf(c)
<1>1. /\ conf' = conf /\ lost' = lost /\ bufs' = bufs /\ ring' = ring
      /\ nta' = nta /\ ntu' = ntu /\ ntc' = ntc /\ rfl_ntc' = rfl_ntc /\ rfl_ntu' = rfl_ntu
      /\ head[b] # ntu[b] /\ head' = [head EXCEPT ![b] = (@ + 1) % DescCount]
      /\ hw_ntw' = (hw_ntw + 1) % RxqDescs
  BY DEF HwWrite, rflVars
<1>2. TypeInv /\ IdsInv /\ OwnInv /\ TailInv
  BY DEF IInv
<1> DEFINE n == DescCount
           m == RxqDescs
<1>3. /\ n \in Nat \ {0} /\ m \in Nat \ {0} /\ head[b] \in 0 .. n - 1 /\ nta[b] \in 0 .. n - 1
      /\ ntu[b] \in 0 .. n - 1 /\ ntc \in 0 .. m - 1 /\ hw_ntw \in 0 .. m - 1
      /\ head \in [Queues -> Slot]
  BY <1>2, Indices, ConfIs DEF TypeInv, TypeOK
<1>4. /\ DescCount' = n /\ RxqDescs' = m /\ Queues' = Queues
  BY <1>1, ConfKept
<1>5. Off(n, head[b], ntu[b]) <= Off(n, head[b], nta[b])
  BY <1>2 DEF TailInv
<1>6. Slot = 0 .. n - 1
  BY DEF Slot
<1> HIDE DEF n, m
<1>7. head[b] # nta[b]
  BY <1>1, <1>3, <1>5 DEF Off
<1>8. head'[b] = Inc(n, head[b]) /\ head'[b] \in 0 .. n - 1
  BY <1>1, <1>3, ModInc DEF n
<1>9. /\ Arc(n, Inc(n, head[b]), nta[b]) = Arc(n, head[b], nta[b]) \ {head[b]}
      /\ head[b] \in Arc(n, head[b], nta[b])
      /\ Off(n, Inc(n, head[b]), nta[b]) = Off(n, head[b], nta[b]) - 1
  BY <1>3, <1>7, ArcPop
<1>10. Off(n, Inc(n, head[b]), ntu[b]) = Off(n, head[b], ntu[b]) - 1
  BY <1>1, <1>3, ArcPop
<1>11. head[b] \in Posted(b) /\ Posted(b)' = Posted(b) \ {head[b]}
  BY <1>1, <1>4, <1>8, <1>9 DEF Posted, n
<1>12. \A c \in Queues : c # b => head'[c] = head[c]
  BY <1>1, <1>3
<1>13. \A c \in Queues : c # b => Posted(c)' = Posted(c)
  BY <1>1, <1>4, <1>12 DEF Posted, n
<1>14. Off(m, ntc, hw_ntw) < m - 1
  BY <1>2, <1>11, RoomToWrite DEF m
<1>15. hw_ntw' = Inc(m, hw_ntw)
  BY <1>1, <1>3, ModInc DEF m
<1>16. /\ Arc(m, ntc, Inc(m, hw_ntw)) = Arc(m, ntc, hw_ntw) \cup {hw_ntw}
       /\ hw_ntw \notin Arc(m, ntc, hw_ntw)
  BY <1>3, <1>14, ArcPush
<1>17. Wr' = Wr \cup {hw_ntw} /\ hw_ntw \notin Wr
  BY <1>1, <1>4, <1>15, <1>16 DEF Wr, m
<1>18. Inc(m, hw_ntw) # ntc
  BY <1>3, <1>14 DEF Off, Inc
<1>19. \A c \in Queues : Rf(c)' = Rf(c)
  BY <1>1, <1>4 DEF Rf, n
<1> QED
  BY <1>1, <1>6, <1>8, <1>9, <1>10, <1>11, <1>12, <1>13, <1>15, <1>17, <1>18, <1>19 DEF n, m

(* The descriptor and the slot that is given back                          *)
LEMMA HwWrites ==
  ASSUME IInv, NEW b \in Queues, NEW k \in Kinds, HwWrite(b, k)
  PROVE  LET d == rxd'[hw_ntw]
         IN  /\ rxd' \in [RxSlot -> DescRec]
             /\ bufd' \in [Queues -> [Slot -> [id : Slot, cur : Place]]]
             /\ d.gen = hw_gen /\ d.bufq = b /\ d.id = bufd[b][head[b]].id
             /\ (d.sop <=> ~ mid) /\ (d.hdr <=> k.hdr) /\ (d.eop <=> k.eop)
             /\ (d.bad <=> k.bad)
             /\ \A s \in RxSlot : s # hw_ntw => rxd'[s] = rxd[s]
             /\ \A s \in Slot : s # head[b] => bufd'[b][s] = bufd[b][s]
             /\ \A c \in Queues : c # b => bufd'[c] = bufd[c]
<1>1. /\ rxd \in [RxSlot -> DescRec] /\ hw_ntw \in RxSlot /\ hw_gen \in {0, 1}
      /\ bufd \in [Queues -> [Slot -> [id : Slot, cur : Place]]]
      /\ head[b] \in Slot /\ mid \in BOOLEAN
  BY DEF IInv, TypeInv, TypeOK
<1>2. k \in [hdr : BOOLEAN, pkt : BOOLEAN, eop : BOOLEAN, bad : BOOLEAN]
  BY KindAssumption
<1> DEFINE r == [gen |-> hw_gen, bufq |-> b, id |-> bufd[b][head[b]].id,
                 sop |-> ~ mid, hdr |-> k.hdr, pkt |-> k.pkt, eop |-> k.eop,
                 bad |-> k.bad]
<1>3. r \in DescRec
  BY <1>1, <1>2 DEF DescRec
<1>4. rxd' = [rxd EXCEPT ![hw_ntw] = r]
  BY DEF HwWrite
<1>5. bufd' = [bufd EXCEPT ![b][head[b]] = NoBuf]
  BY DEF HwWrite
<1>6. r.gen = hw_gen /\ r.bufq = b /\ r.id = bufd[b][head[b]].id
      /\ (r.sop <=> ~ mid) /\ (r.hdr <=> k.hdr) /\ (r.eop <=> k.eop) /\ (r.bad <=> k.bad)
  OBVIOUS
<1> HIDE DEF r
<1>7. /\ rxd' \in [RxSlot -> DescRec] /\ rxd'[hw_ntw] = r
      /\ \A s \in RxSlot : s # hw_ntw => rxd'[s] = rxd[s]
  BY <1>1, <1>3, <1>4
<1>8. NoBuf \in [id : Slot, cur : Place]
  <2>1. 0 \in Slot
    <3>1. DescCount \in Nat \ {0}
      BY ConfIs, Indices DEF IInv
    <3> QED
      BY <3>1 DEF Slot
  <2> QED
    BY <2>1 DEF NoBuf, Place
<1> HIDE DEF NoBuf
<1>9. /\ bufd' \in [Queues -> [Slot -> [id : Slot, cur : Place]]]
      /\ \A s \in Slot : s # head[b] => bufd'[b][s] = bufd[b][s]
      /\ \A c \in Queues : c # b => bufd'[c] = bufd[c]
  BY <1>1, <1>5, <1>8
<1> QED
  BY <1>6, <1>7, <1>9

LEMMA HwTypes ==
  ASSUME IInv, NEW b \in Queues, NEW k \in Kinds, HwWrite(b, k)
  PROVE  TypeInv'
<1> USE HwIs, HwWrites
<1>1. TypeInv /\ conf' = conf
  BY DEF IInv
<1>2. /\ Slot' = Slot /\ RxSlot' = RxSlot /\ Queues' = Queues /\ BufId' = BufId
      /\ DescRec' = DescRec
  BY <1>1, ConfKept
<1>3. k \in [hdr : BOOLEAN, pkt : BOOLEAN, eop : BOOLEAN, bad : BOOLEAN]
  BY KindAssumption
<1>4. hw_ntw' \in RxSlot
  <2>1. RxqDescs \in Nat \ {0} /\ hw_ntw \in 0 .. RxqDescs - 1
    BY <1>1, Indices, ConfIs
  <2> QED
    BY <2>1, ModInc DEF RxSlot
<1>5. head' \in [Queues -> Slot]
  <2>1. head \in [Queues -> Slot] /\ head' = [head EXCEPT ![b] = (@ + 1) % DescCount]
    BY <1>1 DEF TypeInv, TypeOK, HwWrite
  <2>2. head'[b] \in Slot
    OBVIOUS
  <2> QED
    BY <2>1, <2>2
<1>6. hw_gen' \in {0, 1} /\ nfault' \in Nat /\ mid' \in BOOLEAN /\ pend' \in BOOLEAN
  BY <1>1, <1>3 DEF HwWrite, TypeInv, TypeOK
<1>7. TypeOK'
  BY <1>1, <1>2, <1>4, <1>5, <1>6 DEF TypeInv, TypeOK, HwWrite, rflVars
<1> QED
  BY <1>1, <1>2, <1>6, <1>7 DEF TypeInv, HwWrite, rflVars, BufRec

LEMMA HwOwn ==
  ASSUME IInv, NEW b \in Queues, NEW k \in Kinds, HwWrite(b, k)
  PROVE  IdsInv' /\ OwnInv'
<1> DEFINE h == head[b]
           i == bufd[b][h].id
<1>1. /\ TypeInv /\ IdsInv /\ OwnInv
  BY DEF IInv
<1>2. conf' = conf /\ Queues' = Queues /\ BufId' = BufId
  BY HwIs, ConfKept
<1>3. /\ h \in Posted(b) /\ Posted(b)' = Posted(b) \ {h}
      /\ \A c \in Queues : c # b => Posted(c)' = Posted(c)
      /\ hw_ntw \notin Wr /\ Wr' = Wr \cup {hw_ntw}
      /\ \A c \in Queues : Rf(c)' = Rf(c)
      /\ ring' = ring /\ lost' = lost
  BY HwIs
<1>4. \A c \in Queues : \A s \in Posted(c)' : s \in Posted(c) /\ bufd'[c][s] = bufd[c][s]
  <2>1. \A c \in Queues : Posted(c) \subseteq Slot
    BY DEF Posted, Arc, Slot
  <2> QED
    BY <1>3, <2>1, HwWrites
<1>5. /\ \A s \in Wr : rxd'[s] = rxd[s]
      /\ rxd'[hw_ntw].bufq = b /\ rxd'[hw_ntw].id = i
  <2>1. Wr \subseteq RxSlot
    BY DEF Wr, Arc, RxSlot
  <2> QED
    BY <1>3, <2>1, HwWrites
<1>6. i \in BufId
  BY <1>1, <1>3 DEF IdsInv
<1>7. AtBq(b, i) = {h} /\ AtRx(b, i) = {} /\ AtRf(b, i) = {} /\ AtLost(b, i) = {}
  BY <1>1, <1>3, <1>6, InBq
<1>8. ASSUME NEW c \in Queues, NEW j \in BufId
      PROVE  /\ AtBq(c, j)' = AtBq(c, j) \ (IF c = b THEN {h} ELSE {})
             /\ AtRx(c, j)' = AtRx(c, j) \cup (IF c = b /\ j = i THEN {hw_ntw} ELSE {})
             /\ AtRf(c, j)' = AtRf(c, j) /\ AtLost(c, j)' = AtLost(c, j)
  <2>1. AtBq(c, j)' = AtBq(c, j) \ (IF c = b THEN {h} ELSE {})
    BY <1>3, <1>4 DEF AtBq
  <2>2. AtRx(c, j)' = AtRx(c, j) \cup (IF c = b /\ j = i THEN {hw_ntw} ELSE {})
    BY <1>3, <1>5 DEF AtRx
  <2>3. AtRf(c, j)' = AtRf(c, j) /\ AtLost(c, j)' = AtLost(c, j)
    BY <1>3 DEF AtRf, AtLost
  <2> QED
    BY <2>1, <2>2, <2>3
<1>9. \A c \in Queues, j \in BufId : h \in AtBq(c, j) /\ c = b => j = i
  BY DEF AtBq
<1> HIDE DEF h, i
<1>10. OwnInv'
  <2> SUFFICES ASSUME NEW c \in Queues, NEW j \in BufId PROVE OnePlace(c, j)'
    BY <1>2 DEF OwnInv
  <2>1. CASE c = b /\ j = i
    <3>1. /\ AtRx(c, j)' = {hw_ntw} /\ hw_ntw \in Wr' /\ AtBq(c, j)' = {}
          /\ AtRf(c, j)' = {} /\ AtLost(c, j)' = {}
      BY <1>3, <1>7, <1>8, <2>1
    <3> QED
      BY <3>1 DEF OnePlace
  <2>2. CASE ~ (c = b /\ j = i)
    <3>1. /\ AtRx(c, j)' = AtRx(c, j) /\ AtBq(c, j)' = AtBq(c, j)
          /\ AtRf(c, j)' = AtRf(c, j) /\ AtLost(c, j)' = AtLost(c, j)
      <4>1. c = b => h \notin AtBq(c, j)
        BY <1>9, <2>2
      <4>2. AtBq(c, j)' = AtBq(c, j)
        BY <1>8, <4>1
      <4>3. AtRx(c, j)' = AtRx(c, j)
        BY <1>8, <2>2
      <4> QED
        BY <1>8, <4>2, <4>3
    <3>2. OnePlace(c, j)
      BY <1>1 DEF OwnInv
    <3>3. \A s : AtBq(c, j) = {s} => s \in Posted(c)'
      BY <3>1 DEF AtBq
    <3> QED
      BY <1>3, <3>1, <3>2, <3>3 DEF OnePlace
  <2> QED
    BY <2>1, <2>2
<1>11. IdsInv'
  BY <1>1, <1>2, <1>3, <1>4, <1>5, <1>6 DEF IdsInv
<1> QED
  BY <1>10, <1>11

LEMMA HwGen ==
  ASSUME IInv, NEW b \in Queues, NEW k \in Kinds, HwWrite(b, k)
  PROVE  GenInv' /\ TailInv'
<1> DEFINE m == RxqDescs
<1>1. TypeInv /\ GenInv /\ TailInv
  BY DEF IInv
<1>2. /\ m \in Nat \ {0} /\ hw_ntw \in 0 .. m - 1 /\ ntc \in 0 .. m - 1
      /\ hw_gen \in {0, 1} /\ gen_chk \in {0, 1}
  BY <1>1, Indices, BitsAre, ConfIs
<1>3. /\ Slot' = Slot /\ RxSlot' = RxSlot /\ Queues' = Queues /\ DescCount' = DescCount
      /\ PostStride' = PostStride /\ FirstTail' = FirstTail
  BY HwIs, ConfKept
<1>4. /\ hw_ntw' = Inc(m, hw_ntw) /\ Inc(m, hw_ntw) # ntc
      /\ hw_gen' = IF hw_ntw + 1 = m THEN 1 - hw_gen ELSE hw_gen
      /\ ntc' = ntc /\ gen_chk' = gen_chk
      /\ UNCHANGED <<ring, rfl_ntu, rfl_ntc, rfl_gen, rfl_gen_chk, ntu, nta>>
  BY HwIs DEF HwWrite, rflVars
<1>5. RxSlot = 0 .. m - 1
  BY DEF RxSlot
<1>6. /\ rxd'[hw_ntw].gen = hw_gen
      /\ \A s \in RxSlot : s # hw_ntw => rxd'[s] = rxd[s]
  BY HwWrites
<1>7. /\ \A s \in RxSlot : rxd[s].gen = IF s < hw_ntw THEN hw_gen ELSE 1 - hw_gen
      /\ hw_gen = IF ntc <= hw_ntw THEN gen_chk ELSE 1 - gen_chk
  BY <1>1 DEF GenInv
<1> HIDE DEF m
<1>8. ASSUME NEW s \in RxSlot
      PROVE  rxd'[s].gen = IF s < hw_ntw' THEN hw_gen' ELSE 1 - hw_gen'
  <2>1. CASE s = hw_ntw
    BY <1>2, <1>4, <1>5, <1>6, <2>1 DEF Inc
  <2>2. CASE s # hw_ntw
    <3>1. rxd'[s].gen = IF s < hw_ntw THEN hw_gen ELSE 1 - hw_gen
      BY <1>6, <1>7, <2>2
    <3> QED
      BY <1>2, <1>4, <1>5, <2>2, <3>1 DEF Inc
  <2> QED
    BY <2>1, <2>2
<1>9. hw_gen' = IF ntc' <= hw_ntw' THEN gen_chk' ELSE 1 - gen_chk'
  BY <1>2, <1>4, <1>7 DEF Inc
<1>10. GenInv'
  BY <1>1, <1>3, <1>4, <1>8, <1>9 DEF GenInv
<1>11. ASSUME NEW c \in Queues
       PROVE  /\ TailOk(nta[c], ntu[c])
              /\ Off(DescCount, head'[c], ntu[c]) <= Off(DescCount, head'[c], nta[c])
  <2>1. /\ TailOk(nta[c], ntu[c])
        /\ Off(DescCount, head[c], ntu[c]) <= Off(DescCount, head[c], nta[c])
    BY <1>1 DEF TailInv
  <2>2. CASE c = b
    <3>1. \A d \in {ntu[b], nta[b]} : Off(DescCount, head[b], d) \in Int
      BY <1>1, Indices, ConfIs DEF Off
    <3> QED
      BY <2>1, <2>2, <3>1, HwIs
  <2>3. CASE c # b
    BY <2>1, <2>3, HwIs
  <2> QED
    BY <2>2, <2>3
<1>12. TailInv'
  BY <1>3, <1>4, <1>11 DEF TailInv, TailOk, AlignDown
<1> QED
  BY <1>10, <1>12

LEMMA HwFree ==
  ASSUME IInv, NEW b \in Queues, NEW k \in Kinds, HwWrite(b, k)
  PROVE  FreeInv'
<1>1. TypeInv /\ FreeInv /\ IdsInv
  BY DEF IInv
<1>2. /\ Queues' = Queues /\ BufId' = BufId /\ conf' = conf
      /\ \A c \in Queues : Big(c)' = Big(c)
  BY HwIs, ConfKept
<1>3. /\ head[b] \in Posted(b) /\ Posted(b)' = Posted(b) \ {head[b]}
      /\ \A c \in Queues : c # b => Posted(c)' = Posted(c)
      /\ Wr' = Wr \cup {hw_ntw} /\ hw_ntw \notin Wr /\ bufs' = bufs
  BY HwIs
<1>4. \A c \in Queues : \A s \in Posted(c)' : s \in Posted(c) /\ bufd'[c][s] = bufd[c][s]
  <2>1. \A c \in Queues : Posted(c) \subseteq Slot
    BY DEF Posted, Arc, Slot
  <2> QED
    BY <1>3, <2>1, HwWrites
<1>5. /\ \A s \in Wr : rxd'[s] = rxd[s]
      /\ rxd'[hw_ntw].bufq = b /\ rxd'[hw_ntw].id = bufd[b][head[b]].id
  <2>1. Wr \subseteq RxSlot
    BY DEF Wr, Arc, RxSlot
  <2> QED
    BY <1>3, <2>1, HwWrites
<1>6. \A c, j : PageNow(c, j)' = PageNow(c, j)
  BY <1>2, <1>3 DEF PageNow, PageOf, Big
<1>7. \A c \in Queues, i \in BufId :
       /\ bufs[c][i].held[bufs[c][i].cur + 1] = 0
       /\ ~ Big(c) /\ PageNow(c, i) = "null" =>
            bufs[c][i].held[1] = 0 /\ bufs[c][i].held[2] = 0
       /\ "nomap" \notin Faults => \A n \in 1 .. 2 : bufs[c][i].page[n] # "freed"
  BY <1>1 DEF FreeInv
<1>8. \A c \in Queues : \A s \in Posted(c)' :
       /\ bufd'[c][s].cur = bufs[c][bufd'[c][s].id].cur
       /\ PageNow(c, bufd'[c][s].id) # "null"
  BY <1>1, <1>4 DEF FreeInv
<1>9. \A s \in Wr' : PageNow(rxd'[s].bufq, rxd'[s].id) # "null"
  BY <1>1, <1>3, <1>5 DEF FreeInv
<1> QED
  BY <1>2, <1>3, <1>6, <1>7, <1>8, <1>9 DEF FreeInv

LEMMA HwPacket ==
  ASSUME IInv, NEW b \in Queues, NEW k \in Kinds, HwWrite(b, k)
  PROVE  PacketInv' /\ DoneInv'
<1> DEFINE m == RxqDescs
<1>1. TypeInv /\ PacketInv /\ DoneInv
  BY DEF IInv
<1>2. /\ m \in Nat \ {0} /\ hw_ntw \in 0 .. m - 1 /\ ntc \in 0 .. m - 1
      /\ mid \in BOOLEAN /\ k.eop \in BOOLEAN /\ nfault \in Nat
  BY <1>1, Indices, ConfIs, KindAssumption DEF TypeInv
<1>3. conf' = conf /\ RxqDescs' = RxqDescs /\ Queues' = Queues
  BY HwIs, ConfKept
<1>4. /\ Wr' = Wr \cup {hw_ntw} /\ hw_ntw \notin Wr
      /\ hw_ntw' = Inc(m, hw_ntw) /\ Inc(m, hw_ntw) # ntc
      /\ \A c \in Queues : Rf(c)' = Rf(c)
  BY HwIs
<1>5. /\ k.hdr => ~ mid /\ ~ conf.xdp
      /\ ~ k.eop => ~ conf.xdp
      /\ (mid' <=> ~ k.eop) /\ pend' = TRUE
      /\ nfault' = IF k.bad THEN nfault + 1 ELSE nfault
      /\ UNCHANGED <<ntc, skb, mixed, lost, pc, refilled>>
  BY <1>2 DEF HwWrite
<1>6. /\ (rxd'[hw_ntw].sop <=> ~ mid) /\ (rxd'[hw_ntw].hdr <=> k.hdr)
      /\ (rxd'[hw_ntw].eop <=> k.eop) /\ (rxd'[hw_ntw].bad <=> k.bad)
  BY HwWrites
<1>7. \A s \in Wr : rxd'[s] = rxd[s] /\ s \in 0 .. m - 1
  <2>1. Wr \subseteq RxSlot /\ RxSlot = 0 .. m - 1
    BY DEF Wr, Arc, RxSlot
  <2> QED
    BY <1>4, <2>1, HwWrites
<1>8. \A s \in Wr : s # ntc => Prev(m, s) \in Wr
  <2> HIDE DEF m
  <2> QED
    BY <1>2 DEF Wr, Arc, Off, Prev, m
<1>9. hw_ntw # ntc => Prev(m, hw_ntw) \in Wr
  <2> HIDE DEF m
  <2> QED
    BY <1>2 DEF Wr, Arc, Off, Prev, m
<1>10. Prev(m, Inc(m, hw_ntw)) = hw_ntw
  BY <1>2 DEF Prev, Inc
<1> HIDE DEF m
<1>11. \A s \in Wr' : (rxd'[s].hdr => rxd'[s].sop) /\ (conf.xdp => rxd'[s].eop)
  BY <1>1, <1>4, <1>5, <1>6, <1>7 DEF PacketInv
<1>12. conf.xdp => skb = None /\ ~ mid'
  BY <1>1, <1>5 DEF PacketInv
<1>13. ASSUME lost = {}
       PROVE  /\ \A s \in Wr' :
                   rxd'[s].sop <=> IF s = ntc THEN skb = None ELSE rxd'[Prev(m, s)].eop
              /\ mid' <=> ~ rxd'[Prev(m, hw_ntw')].eop
              /\ skb # None => skb.whole
              /\ ~ mixed
  <2>1. /\ \A s \in Wr :
            rxd[s].sop <=> IF s = ntc THEN skb = None ELSE rxd[Prev(m, s)].eop
        /\ mid <=> IF ntc = hw_ntw THEN skb # None ELSE ~ rxd[Prev(m, hw_ntw)].eop
        /\ skb # None => skb.whole
        /\ ~ mixed
    BY <1>1, <1>13 DEF PacketInv, m
  <2>2. ASSUME NEW s \in Wr
        PROVE  rxd'[s].sop <=> IF s = ntc THEN skb = None ELSE rxd'[Prev(m, s)].eop
    <3>1. CASE s = ntc
      BY <1>7, <2>1, <3>1
    <3>2. CASE s # ntc
      <4>1. rxd'[s] = rxd[s] /\ rxd'[Prev(m, s)] = rxd[Prev(m, s)]
        BY <1>7, <1>8, <3>2
      <4> QED
        BY <2>1, <3>2, <4>1
    <3> QED
      BY <3>1, <3>2
  <2>3. rxd'[hw_ntw].sop <=> IF hw_ntw = ntc THEN skb = None ELSE rxd'[Prev(m, hw_ntw)].eop
    <3>1. CASE hw_ntw = ntc
      BY <1>6, <2>1, <3>1
    <3>2. CASE hw_ntw # ntc
      <4>1. rxd'[Prev(m, hw_ntw)] = rxd[Prev(m, hw_ntw)]
        BY <1>7, <1>9, <3>2
      <4> QED
        BY <1>6, <2>1, <3>2, <4>1
    <3> QED
      BY <3>1, <3>2
  <2>4. mid' <=> ~ rxd'[Prev(m, hw_ntw')].eop
    BY <1>4, <1>5, <1>6, <1>10
  <2> QED
    BY <1>4, <2>1, <2>2, <2>3, <2>4
<1>14. PacketInv'
  BY <1>3, <1>4, <1>5, <1>11, <1>12, <1>13 DEF PacketInv, m
<1>15. DoneInv'
  <2>1. nfault' = 0 => nfault = 0 /\ ~ k.bad
    BY <1>2, <1>5
  <2>2. nfault' = 0 => \A s \in Wr' : ~ rxd'[s].bad
    BY <1>1, <1>4, <1>6, <1>7, <2>1 DEF DoneInv
  <2> QED
    BY <1>1, <1>3, <1>4, <1>5, <2>1, <2>2 DEF DoneInv
<1> QED
  BY <1>14, <1>15

LEMMA HwKeeps ==
  ASSUME IInv, NEW b \in Queues, NEW k \in Kinds, HwWrite(b, k)
  PROVE  IInv'
BY HwTypes, HwOwn, HwGen, HwFree, HwPacket DEF IInv

-----------------------------------------------------------------------------
(* Steps that leave the rings alone                                        *)

ringVars == <<conf, rxd, hw_ntw, hw_gen, ntc, gen_chk, bufd, head, ntu, nta, ring,
              rfl_ntu, rfl_ntc, rfl_gen, rfl_gen_chk, lost>>

LEMMA SamePlaces ==
  ASSUME UNCHANGED ringVars
  PROVE  /\ Wr' = Wr /\ Queues' = Queues /\ BufId' = BufId
         /\ \A b \in Queues : Rf(b)' = Rf(b) /\ Posted(b)' = Posted(b)
<1>1. conf' = conf
  BY DEF ringVars
<1>2. DescCount' = DescCount /\ RxqDescs' = RxqDescs /\ Queues' = Queues /\ BufId' = BufId
  BY <1>1, ConfKept
<1> QED
  BY <1>2 DEF Wr, Rf, Posted, ringVars

LEMMA SameRings ==
  ASSUME UNCHANGED ringVars, IInv
  PROVE  IdsInv' /\ OwnInv' /\ GenInv' /\ TailInv'
<1>1. conf' = conf /\ IdsInv /\ OwnInv /\ GenInv /\ TailInv
  BY DEF ringVars, IInv
<1>2. /\ DescCount' = DescCount /\ PostStride' = PostStride /\ FirstTail' = FirstTail
      /\ Slot' = Slot /\ RxSlot' = RxSlot
      /\ RxqDescs' = RxqDescs
  BY <1>1, ConfKept
<1>3. /\ Wr' = Wr /\ Queues' = Queues /\ BufId' = BufId
      /\ \A b \in Queues : Rf(b)' = Rf(b) /\ Posted(b)' = Posted(b)
  BY SamePlaces
<1>4. IdsInv'
  BY <1>1, <1>3 DEF IdsInv, ringVars
<1>5. OwnInv'
  <2> SUFFICES ASSUME NEW b \in Queues, NEW i \in BufId PROVE OnePlace(b, i)'
    BY <1>3 DEF OwnInv
  <2>1. /\ AtBq(b, i)' = AtBq(b, i) /\ AtRx(b, i)' = AtRx(b, i)
        /\ AtRf(b, i)' = AtRf(b, i) /\ AtLost(b, i)' = AtLost(b, i)
    BY <1>3 DEF AtBq, AtRx, AtRf, AtLost, ringVars
  <2>2. OnePlace(b, i)
    BY <1>1 DEF OwnInv
  <2> QED
    BY <1>3, <2>1, <2>2 DEF OnePlace
<1>6. GenInv'
  BY <1>1, <1>2, <1>3 DEF GenInv, ringVars
<1>7. TailInv'
  BY <1>1, <1>2, <1>3 DEF TailInv, TailOk, AlignDown, ringVars
<1> QED
  BY <1>4, <1>5, <1>6, <1>7

(* The rings and the buffers are the same.                                 *)
LEMMA SameFree ==
  ASSUME UNCHANGED ringVars, bufs' = bufs, IInv
  PROVE  FreeInv'
<1>1. FreeInv /\ conf' = conf /\ bufs' = bufs
  BY DEF IInv, ringVars
<1>2. \A b, i : PageNow(b, i)' = PageNow(b, i)
  BY <1>1 DEF PageNow, PageOf, Big
<1>3. \A b : Big(b)' = Big(b)
  BY <1>1 DEF Big
<1>4. /\ Wr' = Wr /\ Queues' = Queues /\ BufId' = BufId
      /\ \A b \in Queues : Posted(b)' = Posted(b)
  BY SamePlaces
<1>5. bufd' = bufd /\ rxd' = rxd
  BY DEF ringVars
<1> QED
  BY <1>1, <1>2, <1>3, <1>4, <1>5 DEF FreeInv

LEMMA FreeKeeps ==
  ASSUME IInv, NEW b \in Queues, NEW i \in BufId, NEW p \in Place, StackFree(b, i, p)
  PROVE  IInv'
<1> DEFINE r == bufs[b][i]
           h == [r.held EXCEPT ![p + 1] = @ - 1]
           x == [r EXCEPT !.held = h]
<1>1. TypeInv /\ FreeInv /\ PacketInv /\ DoneInv
  BY DEF IInv
<1>2. UNCHANGED ringVars
  BY DEF StackFree, ringVars, rxVars, bqVars, rflVars
<1>3. /\ r \in BufRec /\ r.held[p + 1] > 0 /\ p + 1 \in 1 .. 2
      /\ bufs \in [Queues -> [BufId -> BufRec]]
  BY <1>1 DEF StackFree, TypeInv, Place
<1>4. bufs' = [bufs EXCEPT ![b][i] = x]
  BY DEF StackFree
<1>5. /\ r.held \in [1 .. 2 -> Nat] /\ r.cur \in Place
      /\ r.page \in [1 .. 2 -> {"ok", "null", "freed"}]
  BY <1>3 DEF BufRec
<1>6. h \in [1 .. 2 -> Nat] /\ \A n \in 1 .. 2 : h[n] <= r.held[n]
  <2>1. r.held[p + 1] - 1 \in Nat
    BY <1>3, <1>5
  <2>2. \A n \in 1 .. 2 : h[n] = IF n = p + 1 THEN r.held[p + 1] - 1 ELSE r.held[n]
    BY <1>3, <1>5
  <2>3. h \in [1 .. 2 -> Nat]
    BY <1>3, <1>5, <2>1
  <2>4. \A n \in 1 .. 2 : h[n] <= r.held[n]
    BY <1>5, <2>2
  <2> QED
    BY <2>3, <2>4
<1> HIDE DEF h
<1>7. x \in BufRec /\ x.cur = r.cur /\ x.page = r.page /\ x.held = h
  BY <1>3, <1>6 DEF BufRec
<1> HIDE DEF x
<1>8. bufs' \in [Queues -> [BufId -> BufRec]]
  BY <1>3, <1>4, <1>7
<1>9. ASSUME NEW c \in Queues, NEW j \in BufId
      PROVE  /\ bufs'[c][j].cur = bufs[c][j].cur /\ bufs'[c][j].page = bufs[c][j].page
             /\ \A n \in 1 .. 2 : bufs[c][j].held[n] = 0 => bufs'[c][j].held[n] = 0
  <2>0. bufs'[c][j] = IF c = b /\ j = i THEN x ELSE bufs[c][j]
    BY <1>3, <1>4
  <2>1. CASE c = b /\ j = i
    <3>1. \A n \in 1 .. 2 : r.held[n] = 0 => x.held[n] = 0
      BY <1>5, <1>6, <1>7
    <3> QED
      BY <2>0, <2>1, <1>7, <3>1
  <2>2. CASE ~ (c = b /\ j = i)
    BY <2>0, <2>2
  <2> QED
    BY <2>1, <2>2
<1> HIDE DEF r
<1>10. conf' = conf /\ Slot' = Slot /\ RxSlot' = RxSlot /\ DescRec' = DescRec
       /\ RxqDescs' = RxqDescs
  BY <1>2, ConfKept DEF ringVars
<1>11. /\ Wr' = Wr /\ Queues' = Queues /\ BufId' = BufId
       /\ \A c \in Queues : Rf(c)' = Rf(c) /\ Posted(c)' = Posted(c)
  BY <1>2, SamePlaces
<1>12. UNCHANGED <<conf, rxd, rxVars, ntc, gen_chk, bqVars, head, rflVars, skb, pc,
                 total, ok, refilled, pend, nfault, lost, mixed, beheaded, stuck>>
  BY DEF StackFree
<1>13. TypeInv'
  <2>1. TypeOK'
    BY <1>1, <1>10, <1>11, <1>12 DEF TypeInv, TypeOK, rxVars, bqVars, rflVars
  <2> QED
    BY <1>1, <1>8, <1>10, <1>11, <1>12, <2>1 DEF TypeInv, BufRec, rxVars, bqVars, rflVars
<1>14. FreeInv'
  <2>1. \A c \in Queues, j \in BufId : PageNow(c, j)' = PageNow(c, j)
    BY <1>9, <1>10 DEF PageNow, PageOf, Big
  <2>2. \A c \in Queues : Big(c)' = Big(c)
    BY <1>10, ConfKept
  <2>3. \A c \in Queues, j \in BufId : bufs[c][j].cur + 1 \in 1 .. 2
    <3> SUFFICES ASSUME NEW c \in Queues, NEW j \in BufId
                 PROVE  bufs[c][j].cur + 1 \in 1 .. 2
      OBVIOUS
    <3>1. bufs[c][j] \in BufRec
      BY <1>3
    <3>2. bufs[c][j].cur \in {0, 1}
      BY <3>1 DEF BufRec, Place
    <3> QED
      BY <3>2
  <2>4. \A c \in Queues, j \in BufId :
         /\ bufs'[c][j].held[bufs'[c][j].cur + 1] = 0
         /\ ~ Big(c) /\ PageNow(c, j) = "null" =>
              bufs'[c][j].held[1] = 0 /\ bufs'[c][j].held[2] = 0
         /\ "nomap" \notin Faults => \A n \in 1 .. 2 : bufs'[c][j].page[n] # "freed"
    BY <1>1, <1>9, <2>3 DEF FreeInv
  <2>5. bufd' = bufd /\ rxd' = rxd
    BY <1>2 DEF ringVars
  <2>6. \A c \in Queues : \A s \in Posted(c) :
         /\ bufd'[c][s].cur = bufs'[c][bufd'[c][s].id].cur
         /\ PageNow(c, bufd[c][s].id)' # "null"
    <3> SUFFICES ASSUME NEW c \in Queues, NEW s \in Posted(c)
                 PROVE  /\ bufd'[c][s].cur = bufs'[c][bufd'[c][s].id].cur
                        /\ PageNow(c, bufd[c][s].id)' # "null"
      OBVIOUS
    <3>1. PICK j \in BufId : j = bufd[c][s].id
      BY DEF IdsInv, IInv
    <3>2. bufd[c][s].cur = bufs[c][j].cur /\ PageNow(c, j) # "null"
      BY <1>1, <3>1 DEF FreeInv
    <3>3. PageNow(c, bufd[c][s].id)' = PageNow(c, j)'
      BY <2>5, <3>1
    <3> QED
      BY <1>9, <2>1, <2>5, <3>1, <3>2, <3>3
  <2>7. \A s \in Wr : PageNow(rxd[s].bufq, rxd[s].id)' # "null"
    <3> SUFFICES ASSUME NEW s \in Wr PROVE PageNow(rxd[s].bufq, rxd[s].id)' # "null"
      OBVIOUS
    <3>1. PICK c \in Queues, j \in BufId : c = rxd[s].bufq /\ j = rxd[s].id
      BY DEF IdsInv, IInv
    <3>2. PageNow(c, j) # "null"
      BY <1>1, <3>1 DEF FreeInv
    <3>3. PageNow(rxd[s].bufq, rxd[s].id)' = PageNow(c, j)'
      BY <2>5, <3>1
    <3> QED
      BY <2>1, <3>2, <3>3
  <2> QED
    BY <1>11, <2>1, <2>2, <2>4, <2>5, <2>6, <2>7 DEF FreeInv
<1>15. PacketInv' /\ DoneInv'
  <2>1. PacketInv'
    BY <1>1, <1>10, <1>11, <1>12 DEF PacketInv, rxVars
  <2>2. DoneInv'
    BY <1>1, <1>11, <1>12 DEF DoneInv
  <2> QED
    BY <2>1, <2>2
<1> QED
  BY <1>2, <1>13, <1>14, <1>15, SameRings DEF IInv

(* What is new is written.                                                 *)
LEMMA NewIs ==
  ASSUME IInv
  PROVE  /\ NewDesc <=> ntc # hw_ntw
         /\ NewDesc <=> ntc \in Wr
         /\ ntc # hw_ntw <=> Wr # {}
<1> DEFINE m == RxqDescs
<1>1. TypeInv /\ GenInv
  BY DEF IInv
<1>2. /\ m \in Nat \ {0} /\ hw_ntw \in 0 .. m - 1 /\ ntc \in 0 .. m - 1
      /\ hw_gen \in {0, 1} /\ gen_chk \in {0, 1} /\ RxSlot = 0 .. m - 1
  BY <1>1, Indices, BitsAre, ConfIs DEF RxSlot
<1> HIDE DEF m
<1>3. /\ rxd[ntc].gen = IF ntc < hw_ntw THEN hw_gen ELSE 1 - hw_gen
      /\ hw_gen = IF ntc <= hw_ntw THEN gen_chk ELSE 1 - gen_chk
  BY <1>1, <1>2 DEF GenInv
<1>4. NewDesc <=> ntc # hw_ntw
  BY <1>2, <1>3 DEF NewDesc, Desc
<1>5. ntc \in Wr <=> ntc # hw_ntw
  BY <1>2 DEF Wr, Arc, Off, m
<1>6. ntc = hw_ntw => Wr = {}
  BY <1>2 DEF Wr, Arc, Off, m
<1> QED
  BY <1>4, <1>5, <1>6

LEMMA ControlTypes ==
  ASSUME TypeInv, UNCHANGED ringVars, bufs' = bufs, skb' \in Skbs \cup {None},
         pc' \in {"idle", "rx", "refill"}, total' \in 0 .. Budget,
         refilled' \subseteq Queues, nfault' \in Nat, pend' \in BOOLEAN, ok' \in BOOLEAN,
         mid' = mid, mixed' = mixed
  PROVE  TypeInv'
<1>1. conf' = conf
  BY DEF ringVars
<1>2. /\ Queues' = Queues /\ BufId' = BufId /\ Slot' = Slot /\ RxSlot' = RxSlot
      /\ DescRec' = DescRec
  BY <1>1, ConfKept
<1>3. TypeOK'
  BY <1>2 DEF TypeInv, TypeOK, ringVars
<1> QED
  BY <1>2, <1>3 DEF TypeInv, BufRec, ringVars

LEMMA NapiStartKeeps == ASSUME IInv, NapiStart PROVE IInv'
<1>1. UNCHANGED ringVars /\ bufs' = bufs
  BY DEF NapiStart, ringVars, rxVars, bqVars, rflVars
<1>2. TypeInv /\ PacketInv /\ DoneInv /\ conf' = conf
  BY <1>1 DEF IInv, ringVars
<1>3. /\ Wr' = Wr /\ Queues' = Queues
      /\ \A c \in Queues : Rf(c)' = Rf(c) /\ Posted(c)' = Posted(c)
  BY <1>1, SamePlaces
<1>4. /\ pc = "idle" /\ pc' = "rx" /\ total' = 0 /\ pend' = FALSE
      /\ UNCHANGED <<rxd, lost, skb, ok, mid, mixed, nfault, refilled, ntc, hw_ntw>>
  BY DEF NapiStart, rxVars
<1>5. TypeInv'
  <2>1. 0 \in 0 .. Budget
    BY SizeAssumption
  <2> QED
    BY <1>1, <1>2, <1>4, <2>1, ControlTypes DEF TypeInv, TypeOK
<1>6. PacketInv'
  <2>1. RxqDescs' = RxqDescs
    BY <1>2, ConfKept
  <2> QED
    BY <1>2, <1>3, <1>4, <2>1 DEF PacketInv
<1>7. DoneInv'
  BY <1>2, <1>3, <1>4 DEF DoneInv
<1> QED
  BY <1>1, <1>5, <1>6, <1>7, SameRings, SameFree DEF IInv

LEMMA NapiEndKeeps == ASSUME IInv, NapiEnd PROVE IInv'
<1>1. UNCHANGED ringVars /\ bufs' = bufs
  BY DEF NapiEnd, ringVars, rxVars, bqVars, rflVars
<1>2. TypeInv /\ PacketInv /\ DoneInv /\ conf' = conf
  BY <1>1 DEF IInv, ringVars
<1>3. /\ Wr' = Wr /\ Queues' = Queues
      /\ \A c \in Queues : Rf(c)' = Rf(c) /\ Posted(c)' = Posted(c)
  BY <1>1, SamePlaces
<1>4. /\ pc = "refill" /\ refilled = Queues
      /\ pc' = (IF ok THEN "idle" ELSE "rx") /\ total' = 0 /\ refilled' = {}
      /\ UNCHANGED <<rxd, lost, skb, ok, mid, mixed, nfault, pend, ntc, hw_ntw>>
  BY DEF NapiEnd, rxVars
<1>5. TypeInv'
  <2>1. 0 \in 0 .. Budget
    BY SizeAssumption
  <2>2. pc' \in {"idle", "rx", "refill"} /\ refilled' \subseteq Queues
    BY <1>4
  <2>3. skb' \in Skbs \cup {None} /\ nfault' \in Nat /\ pend' \in BOOLEAN /\ ok' \in BOOLEAN
    BY <1>2, <1>4 DEF TypeInv
  <2> QED
    BY <1>1, <1>2, <1>4, <2>1, <2>2, <2>3, ControlTypes
<1>6. PacketInv'
  <2>1. RxqDescs' = RxqDescs
    BY <1>2, ConfKept
  <2> QED
    BY <1>2, <1>3, <1>4, <2>1 DEF PacketInv
<1>7. DoneInv'
  <2>1. ok \in BOOLEAN
    BY <1>2 DEF TypeInv
  <2> QED
    BY <1>2, <1>3, <1>4, <2>1 DEF DoneInv
<1> QED
  BY <1>1, <1>5, <1>6, <1>7, SameRings, SameFree DEF IInv

LEMMA RxEndKeeps == ASSUME IInv, RxEnd PROVE IInv'
<1>1. UNCHANGED ringVars /\ bufs' = bufs
  BY DEF RxEnd, ringVars, rxVars, bqVars, rflVars
<1>2. TypeInv /\ PacketInv /\ DoneInv /\ conf' = conf
  BY <1>1 DEF IInv, ringVars
<1>3. /\ Wr' = Wr /\ Queues' = Queues
      /\ \A c \in Queues : Rf(c)' = Rf(c) /\ Posted(c)' = Posted(c)
  BY <1>1, SamePlaces
<1>4. /\ pc = "rx" /\ pc' = "refill" /\ ok' = (total < Budget)
      /\ UNCHANGED <<rxd, lost, skb, total, mid, mixed, nfault, pend, ntc, hw_ntw, refilled>>
  BY DEF RxEnd, rxVars
<1>5. ok' => Wr = {}
  <2>1. ok' => ~ NewDesc
    BY <1>4 DEF RxEnd, Loops
  <2> QED
    BY <2>1, NewIs
<1>6. TypeInv'
  <2>1. skb' \in Skbs \cup {None} /\ nfault' \in Nat /\ pend' \in BOOLEAN /\ ok' \in BOOLEAN
        /\ total' \in 0 .. Budget /\ refilled' \subseteq Queues
    BY <1>2, <1>4 DEF TypeInv, TypeOK
  <2> QED
    BY <1>1, <1>2, <1>4, <2>1, ControlTypes
<1>7. PacketInv'
  <2>1. RxqDescs' = RxqDescs
    BY <1>2, ConfKept
  <2> QED
    BY <1>2, <1>3, <1>4, <2>1 DEF PacketInv
<1>8. DoneInv'
  BY <1>2, <1>3, <1>4, <1>5 DEF DoneInv
<1> QED
  BY <1>1, <1>6, <1>7, <1>8, SameRings, SameFree DEF IInv

LEMMA RxNoSkbKeeps == ASSUME IInv, RxNoSkb PROVE IInv'
<1>1. UNCHANGED ringVars /\ bufs' = bufs
  BY DEF RxNoSkb, ringVars, rxVars, bqVars, rflVars
<1>2. TypeInv /\ PacketInv /\ DoneInv /\ conf' = conf
  BY <1>1 DEF IInv, ringVars
<1>3. /\ Wr' = Wr /\ Queues' = Queues
      /\ \A c \in Queues : Rf(c)' = Rf(c) /\ Posted(c)' = Posted(c)
  BY <1>1, SamePlaces
<1>4. /\ pc = "rx" /\ NewDesc /\ pc' = "refill" /\ ok' = (total < Budget)
      /\ skb' = None /\ nfault' = nfault + 1 /\ (rxd[ntc].hdr \/ skb = None)
      /\ UNCHANGED <<rxd, lost, total, mid, mixed, pend, ntc, hw_ntw, refilled>>
  BY DEF RxNoSkb, rxVars, Loops, Desc
<1>5. ntc \in Wr /\ ntc # hw_ntw
  BY <1>4, NewIs
<1>6. TypeInv'
  <2>1. nfault' \in Nat /\ pend' \in BOOLEAN /\ ok' \in BOOLEAN
        /\ total' \in 0 .. Budget /\ refilled' \subseteq Queues
    BY <1>2, <1>4 DEF TypeInv, TypeOK
  <2> QED
    BY <1>1, <1>2, <1>4, <2>1, ControlTypes
<1>7. PacketInv'
  <2>1. RxqDescs' = RxqDescs
    BY <1>2, ConfKept
  <2>2. lost = {} => skb = None
    BY <1>2, <1>4, <1>5 DEF PacketInv
  <2> QED
    BY <1>2, <1>3, <1>4, <1>5, <2>1, <2>2 DEF PacketInv
<1>8. DoneInv'
  <2>1. nfault' # 0
    BY <1>2, <1>4 DEF TypeInv
  <2> QED
    BY <2>1 DEF DoneInv
<1> QED
  BY <1>1, <1>6, <1>7, <1>8, SameRings, SameFree DEF IInv

-----------------------------------------------------------------------------
(* A descriptor is cleaned                                                 *)

CleanVars == <<conf, hw_ntw, hw_gen, mid>>

LEMMA BumpIs ==
  ASSUME IInv, NewDesc, UNCHANGED CleanVars, BumpNtc
  PROVE  /\ ntc \in Wr /\ ntc # hw_ntw /\ Wr' = Wr \ {ntc}
         /\ ntc' = Inc(RxqDescs, ntc) /\ ntc' \in RxSlot /\ gen_chk' \in {0, 1}
         /\ rxd' \in [RxSlot -> DescRec]
         /\ \A s \in Wr' : rxd'[s] = rxd[s]
         /\ \A s \in RxSlot : rxd'[s].gen = IF s < hw_ntw THEN hw_gen ELSE 1 - hw_gen
         /\ hw_gen = IF ntc' <= hw_ntw THEN gen_chk' ELSE 1 - gen_chk'
<1> DEFINE m == RxqDescs
<1>1. TypeInv /\ GenInv
  BY DEF IInv
<1>2. /\ m \in Nat \ {0} /\ hw_ntw \in 0 .. m - 1 /\ ntc \in 0 .. m - 1
      /\ hw_gen \in {0, 1} /\ gen_chk \in {0, 1} /\ RxSlot = 0 .. m - 1
      /\ DescCount \in Nat \ {0}
  BY <1>1, Indices, BitsAre, ConfIs DEF RxSlot
<1>3. ntc \in Wr /\ ntc # hw_ntw
  BY NewIs
<1>4. ntc' = Inc(m, ntc) /\ ntc' \in 0 .. m - 1
  BY <1>2, ModInc DEF BumpNtc, m
<1>5. gen_chk' = IF ntc + 1 = m THEN 1 - gen_chk ELSE gen_chk
  BY DEF BumpNtc
<1>6. RxqDescs' = m /\ hw_ntw' = hw_ntw
  BY ConfKept DEF CleanVars
<1> DEFINE r == [NoDesc EXCEPT !.gen = Desc.gen]
<1>7. r \in DescRec /\ r.gen = rxd[ntc].gen
  <2>1. rxd[ntc].gen \in {0, 1}
    BY <1>1, <1>2 DEF TypeInv, DescRec
  <2>2. 0 \in Slot
    BY <1>2 DEF Slot
  <2> QED
    BY <2>1, <2>2 DEF NoDesc, DescRec, Desc
<1>8. rxd' = [rxd EXCEPT ![ntc] = r] /\ rxd \in [RxSlot -> DescRec]
  BY <1>1 DEF BumpNtc, TypeInv
<1> HIDE DEF r
<1>9. /\ rxd' \in [RxSlot -> DescRec] /\ rxd'[ntc].gen = rxd[ntc].gen
      /\ \A s \in RxSlot : s # ntc => rxd'[s] = rxd[s]
  BY <1>2, <1>7, <1>8
<1> HIDE DEF m
<1>10. Wr' = Wr \ {ntc}
  <2>1. Arc(m, Inc(m, ntc), hw_ntw) = Arc(m, ntc, hw_ntw) \ {ntc}
    BY <1>2, <1>3, ArcPop
  <2> QED
    BY <1>4, <1>6, <2>1 DEF Wr, m
<1>11. \A s \in Wr : s \in RxSlot
  BY <1>2 DEF Wr, Arc, m
<1>12. /\ \A s \in RxSlot : rxd[s].gen = IF s < hw_ntw THEN hw_gen ELSE 1 - hw_gen
       /\ hw_gen = IF ntc <= hw_ntw THEN gen_chk ELSE 1 - gen_chk
  BY <1>1 DEF GenInv
<1>13. hw_gen = IF ntc' <= hw_ntw THEN gen_chk' ELSE 1 - gen_chk'
  BY <1>2, <1>3, <1>4, <1>5, <1>12 DEF Inc
<1>14. gen_chk' \in {0, 1}
  BY <1>2, <1>5
<1>15. \A s \in RxSlot : rxd'[s].gen = IF s < hw_ntw THEN hw_gen ELSE 1 - hw_gen
  BY <1>9, <1>12
<1> QED
  BY <1>2, <1>3, <1>4, <1>9, <1>10, <1>11, <1>13, <1>14, <1>15 DEF m

(* The packets: the skb that is left is that of the descriptor cleaned.    *)
LEMMA BumpPacket ==
  ASSUME IInv, NewDesc, UNCHANGED CleanVars, BumpNtc,
         lost' = {} => /\ lost = {} /\ (skb' = None <=> rxd[ntc].eop)
                       /\ (skb' # None => skb'.whole) /\ ~ mixed',
         conf.xdp => skb' = None
  PROVE  PacketInv'
<1> DEFINE m == RxqDescs
<1>1. TypeInv /\ PacketInv /\ conf' = conf /\ mid' = mid /\ hw_ntw' = hw_ntw
  BY DEF IInv, CleanVars
<1>2. /\ m \in Nat \ {0} /\ hw_ntw \in 0 .. m - 1 /\ ntc \in 0 .. m - 1
  BY <1>1, Indices, ConfIs
<1>3. /\ ntc \in Wr /\ ntc # hw_ntw /\ Wr' = Wr \ {ntc}
      /\ ntc' = Inc(m, ntc) /\ \A s \in Wr' : rxd'[s] = rxd[s]
  BY BumpIs
<1>4. RxqDescs' = m
  BY <1>1, ConfKept
<1> HIDE DEF m
<1>5. ASSUME NEW s \in Wr'
      PROVE  (s = ntc' /\ Prev(m, s) = ntc) \/ (s # ntc' /\ Prev(m, s) \in Wr')
  <2>1. s \in 0 .. m - 1 /\ s # ntc /\ Off(m, ntc, s) < Off(m, ntc, hw_ntw)
    BY <1>3 DEF Wr, Arc, m
  <2>2. CASE s = Inc(m, ntc)
    BY <1>2, <1>3, <2>1, <2>2 DEF Inc, Prev
  <2>3. CASE s # Inc(m, ntc)
    <3>1. /\ Prev(m, s) \in 0 .. m - 1 /\ Prev(m, s) # ntc
          /\ Off(m, ntc, Prev(m, s)) < Off(m, ntc, hw_ntw)
      BY <1>2, <2>1, <2>3 DEF Inc, Prev, Off
    <3>2. Prev(m, s) \in Wr
      BY <3>1 DEF Wr, Arc, m
    <3> QED
      BY <1>3, <2>3, <3>1, <3>2
  <2> QED
    BY <2>2, <2>3
<1>6. (hw_ntw = ntc' /\ Prev(m, hw_ntw) = ntc) \/ (hw_ntw # ntc' /\ Prev(m, hw_ntw) \in Wr')
  <2>2. CASE hw_ntw = Inc(m, ntc)
    BY <1>2, <1>3, <2>2 DEF Inc, Prev
  <2>3. CASE hw_ntw # Inc(m, ntc)
    <3>1. /\ Prev(m, hw_ntw) \in 0 .. m - 1 /\ Prev(m, hw_ntw) # ntc
          /\ Off(m, ntc, Prev(m, hw_ntw)) < Off(m, ntc, hw_ntw)
      BY <1>2, <1>3, <2>3 DEF Inc, Prev, Off
    <3>2. Prev(m, hw_ntw) \in Wr
      BY <3>1 DEF Wr, Arc, m
    <3> QED
      BY <1>3, <2>3, <3>1, <3>2
  <2> QED
    BY <2>2, <2>3
<1>7. /\ \A s \in Wr' : (rxd'[s].hdr => rxd'[s].sop) /\ (conf.xdp => rxd'[s].eop)
      /\ conf.xdp => skb' = None /\ ~ mid
  BY <1>1, <1>3 DEF PacketInv
<1>8. ASSUME lost' = {}
      PROVE  /\ \A s \in Wr' :
                  rxd'[s].sop <=> IF s = ntc' THEN skb' = None ELSE rxd'[Prev(m, s)].eop
             /\ mid <=> IF ntc' = hw_ntw THEN skb' # None ELSE ~ rxd'[Prev(m, hw_ntw)].eop
             /\ skb' # None => skb'.whole
             /\ ~ mixed'
  <2>1. /\ \A s \in Wr :
            rxd[s].sop <=> IF s = ntc THEN skb = None ELSE rxd[Prev(m, s)].eop
        /\ mid <=> ~ rxd[Prev(m, hw_ntw)].eop
    BY <1>1, <1>3, <1>8 DEF PacketInv, m
  <2>2. ASSUME NEW s \in Wr'
        PROVE  rxd'[s].sop <=> IF s = ntc' THEN skb' = None ELSE rxd'[Prev(m, s)].eop
    <3>1. rxd[s].sop <=> rxd[Prev(m, s)].eop
      BY <1>3, <2>1
    <3>2. rxd'[s] = rxd[s]
      BY <1>3
    <3>3. CASE s = ntc' /\ Prev(m, s) = ntc
      BY <1>8, <3>1, <3>2, <3>3
    <3>4. CASE s # ntc' /\ Prev(m, s) \in Wr'
      <4>1. rxd'[Prev(m, s)] = rxd[Prev(m, s)]
        BY <1>3, <3>4
      <4> QED
        BY <3>1, <3>2, <3>4, <4>1
    <3> QED
      BY <1>5, <3>3, <3>4
  <2>3. mid <=> IF ntc' = hw_ntw THEN skb' # None ELSE ~ rxd'[Prev(m, hw_ntw)].eop
    <3>3. CASE hw_ntw = ntc' /\ Prev(m, hw_ntw) = ntc
      BY <1>8, <2>1, <3>3
    <3>4. CASE hw_ntw # ntc' /\ Prev(m, hw_ntw) \in Wr'
      <4>1. rxd'[Prev(m, hw_ntw)] = rxd[Prev(m, hw_ntw)]
        BY <1>3, <3>4
      <4> QED
        BY <2>1, <3>4, <4>1
    <3> QED
      BY <1>6, <3>3, <3>4
  <2> QED
    BY <1>8, <2>2, <2>3
<1> QED
  BY <1>1, <1>4, <1>7, <1>8 DEF PacketInv, m

(* A descriptor of another format is skipped.                              *)
LEMMA BadKeeps == ASSUME IInv, RxBadDesc PROVE IInv'
<1> DEFINE b == rxd[ntc].bufq
           i == rxd[ntc].id
<1>1. TypeInv /\ IdsInv /\ OwnInv /\ GenInv /\ TailInv /\ FreeInv /\ PacketInv /\ DoneInv
  BY DEF IInv
<1>2. /\ NewDesc /\ UNCHANGED CleanVars /\ BumpNtc /\ rxd[ntc].bad
      /\ lost' = lost \cup {<<b, i>>} /\ conf' = conf
      /\ UNCHANGED <<bqVars, head, rflVars, bufs, skb, pc, total, ok,
                     pend, nfault, mixed, refilled, hw_ntw, hw_gen, mid>>
  BY DEF RxBadDesc, CleanVars, rxVars, Loops, Desc
<1>3. /\ ntc \in Wr /\ Wr' = Wr \ {ntc} /\ ntc' \in RxSlot /\ gen_chk' \in {0, 1}
      /\ rxd' \in [RxSlot -> DescRec] /\ \A s \in Wr' : rxd'[s] = rxd[s]
  BY <1>2, BumpIs
<1>4. /\ Slot' = Slot /\ RxSlot' = RxSlot /\ Queues' = Queues /\ BufId' = BufId
      /\ DescRec' = DescRec /\ DescCount' = DescCount /\ PostStride' = PostStride
      /\ FirstTail' = FirstTail
  BY <1>2, ConfKept
<1>5. b \in Queues /\ i \in BufId
  BY <1>1, <1>3 DEF IdsInv
<1>6. AtRx(b, i) = {ntc} /\ AtBq(b, i) = {} /\ AtRf(b, i) = {} /\ AtLost(b, i) = {}
  BY <1>1, <1>3, <1>5, InRx
<1>7. \A c \in Queues : Posted(c)' = Posted(c) /\ Rf(c)' = Rf(c)
  BY <1>2, <1>4 DEF Posted, Rf, bqVars, rflVars
<1>8. TypeInv'
  <2>1. lost' \subseteq Queues \X BufId
    BY <1>1, <1>2, <1>5 DEF TypeInv, TypeOK
  <2>2. TypeOK'
    BY <1>1, <1>2, <1>3, <1>4, <2>1 DEF TypeInv, TypeOK, bqVars, rflVars
  <2> QED
    BY <1>1, <1>2, <1>3, <1>4, <2>2 DEF TypeInv, BufRec, rflVars
<1>9. IdsInv'
  BY <1>1, <1>2, <1>3, <1>4, <1>7 DEF IdsInv, bqVars, rflVars
<1>10. ASSUME NEW c \in Queues, NEW j \in BufId
       PROVE  /\ AtBq(c, j)' = AtBq(c, j) /\ AtRf(c, j)' = AtRf(c, j)
              /\ AtRx(c, j)' = AtRx(c, j) \ {ntc}
              /\ AtLost(c, j)' = IF c = b /\ j = i THEN {<<b, i>>} ELSE AtLost(c, j)
  <2>1. AtBq(c, j)' = AtBq(c, j) /\ AtRf(c, j)' = AtRf(c, j)
    BY <1>2, <1>7 DEF AtBq, AtRf, bqVars, rflVars
  <2>2. AtRx(c, j)' = AtRx(c, j) \ {ntc}
    BY <1>3 DEF AtRx
  <2>3. AtLost(c, j)' = IF c = b /\ j = i THEN {<<b, i>>} ELSE AtLost(c, j)
    BY <1>2 DEF AtLost
  <2> QED
    BY <2>1, <2>2, <2>3
<1>11. \A c \in Queues, j \in BufId : ntc \in AtRx(c, j) => c = b /\ j = i
  BY DEF AtRx
<1>12. OwnInv'
  <2> HIDE DEF b, i
  <2> SUFFICES ASSUME NEW c \in Queues, NEW j \in BufId PROVE OnePlace(c, j)'
    BY <1>4 DEF OwnInv
  <2>1. CASE c = b /\ j = i
    <3>1. /\ AtRx(c, j)' = {} /\ AtBq(c, j)' = {} /\ AtRf(c, j)' = {}
          /\ AtLost(c, j)' = {<<c, j>>}
      BY <1>6, <1>10, <2>1
    <3> QED
      BY <3>1 DEF OnePlace
  <2>2. CASE ~ (c = b /\ j = i)
    <3>1. /\ AtBq(c, j)' = AtBq(c, j) /\ AtRf(c, j)' = AtRf(c, j)
          /\ AtLost(c, j)' = AtLost(c, j)
      BY <1>10, <2>2
    <3>2. AtRx(c, j)' = AtRx(c, j)
      BY <1>10, <1>11, <2>2
    <3>3. OnePlace(c, j)
      BY <1>1 DEF OwnInv
    <3>4. \A s : AtRx(c, j) = {s} => s \in Wr'
      BY <3>2 DEF AtRx
    <3> QED
      BY <1>7, <3>1, <3>2, <3>3, <3>4 DEF OnePlace
  <2> QED
    BY <2>1, <2>2
<1>13. GenInv'
  <2>1. /\ \A s \in RxSlot : rxd'[s].gen = IF s < hw_ntw THEN hw_gen ELSE 1 - hw_gen
        /\ hw_gen = IF ntc' <= hw_ntw THEN gen_chk' ELSE 1 - gen_chk'
    BY <1>2, BumpIs
  <2> QED
    BY <1>1, <1>2, <1>4, <2>1 DEF GenInv, rflVars
<1>14. TailInv'
  BY <1>1, <1>2, <1>4 DEF TailInv, TailOk, AlignDown, bqVars
<1>15. FreeInv'
  <2>1. \A c, j : PageNow(c, j)' = PageNow(c, j) /\ Big(c)' = Big(c)
    BY <1>2 DEF PageNow, PageOf, Big
  <2>2. \A s \in Wr' : PageNow(rxd[s].bufq, rxd[s].id) # "null"
    BY <1>1, <1>3 DEF FreeInv
  <2>3. bufd' = bufd /\ bufs' = bufs
    BY <1>2 DEF bqVars
  <2> QED
    BY <1>1, <1>3, <1>4, <1>7, <2>1, <2>2, <2>3 DEF FreeInv
<1>16. PacketInv'
  <2>1. lost' # {}
    BY <1>2
  <2>2. conf.xdp => skb' = None
    BY <1>1, <1>2 DEF PacketInv
  <2> QED
    BY <1>2, <2>1, <2>2, BumpPacket
<1>17. DoneInv'
  BY <1>1, <1>2, <1>3 DEF DoneInv
<1> QED
  BY <1>8, <1>9, <1>12, <1>13, <1>14, <1>15, <1>16, <1>17 DEF IInv

-----------------------------------------------------------------------------
(* A buffer is finished: its index moves to the refill queue               *)

LEMMA PostIs ==
  ASSUME IInv, conf' = conf, NEW b \in Queues, NEW i \in BufId, PostRefill(b, i),
         Off(DescCount, rfl_ntc[b], rfl_ntu[b]) < DescCount - 1
  PROVE  /\ rfl_ntu[b] \notin Rf(b) /\ Rf(b)' = Rf(b) \cup {rfl_ntu[b]}
         /\ \A c \in Queues : c # b => Rf(c)' = Rf(c) /\ ring'[c] = ring[c]
         /\ ring'[b][rfl_ntu[b]].id = i
         /\ \A s \in Rf(b) : ring'[b][s] = ring[b][s]
         /\ ring' \in [Queues -> [Slot -> [id : Slot, gen : {0, 1}]]]
         /\ rfl_ntu' \in [Queues -> Slot] /\ rfl_gen' \in [Queues -> {0, 1}]
<1> DEFINE n == DescCount
           u == rfl_ntu[b]
<1>1. TypeInv /\ GenInv
  BY DEF IInv
<1>2. /\ n \in Nat \ {0} /\ u \in 0 .. n - 1 /\ rfl_ntc[b] \in 0 .. n - 1
      /\ rfl_gen[b] \in {0, 1} /\ Slot = 0 .. n - 1 /\ BufId = 0 .. n - 2
  BY <1>1, Indices, BitsAre, ConfIs DEF Slot, BufId
<1>3. /\ ring \in [Queues -> [Slot -> [id : Slot, gen : {0, 1}]]]
      /\ rfl_ntu \in [Queues -> Slot] /\ rfl_gen \in [Queues -> {0, 1}]
  BY <1>1 DEF TypeInv, TypeOK
<1>4. DescCount' = n
  BY ConfKept
<1>5. Off(n, rfl_ntc[b], u) < n - 1
  OBVIOUS
<1>6. /\ rfl_ntu' = [rfl_ntu EXCEPT ![b] = (u + 1) % n] /\ rfl_ntc' = rfl_ntc
      /\ rfl_gen' = IF u + 1 = n THEN [rfl_gen EXCEPT ![b] = 1 - rfl_gen[b]] ELSE rfl_gen
      /\ ring' = [ring EXCEPT ![b][u] = [id |-> i, gen |-> rfl_gen[b]]]
  BY DEF PostRefill
<1> HIDE DEF n, u
<1>7. (u + 1) % n = Inc(n, u) /\ Inc(n, u) \in 0 .. n - 1
  BY <1>2, ModInc
<1>8. rfl_ntu'[b] = Inc(n, u) /\ \A c \in Queues : c # b => rfl_ntu'[c] = rfl_ntu[c]
  BY <1>3, <1>6, <1>7
<1>9. /\ Arc(n, rfl_ntc[b], Inc(n, u)) = Arc(n, rfl_ntc[b], u) \cup {u}
      /\ u \notin Arc(n, rfl_ntc[b], u)
  BY <1>2, <1>5, ArcPush
<1>10. u \notin Rf(b) /\ Rf(b)' = Rf(b) \cup {u}
  BY <1>4, <1>6, <1>8, <1>9 DEF Rf, n, u
<1>11. \A c \in Queues : c # b => Rf(c)' = Rf(c)
  BY <1>4, <1>6, <1>8 DEF Rf, n
<1>12. i \in Slot
  BY <1>2
<1> DEFINE e == [id |-> i, gen |-> rfl_gen[b]]
<1>13. e \in [id : Slot, gen : {0, 1}] /\ e.id = i
  BY <1>2, <1>12
<1> HIDE DEF e
<1>14. ring' = [ring EXCEPT ![b][u] = e]
  BY <1>6 DEF e
<1>15. /\ ring' \in [Queues -> [Slot -> [id : Slot, gen : {0, 1}]]]
       /\ ring'[b][u] = e
       /\ \A s \in Slot : s # u => ring'[b][s] = ring[b][s]
       /\ \A c \in Queues : c # b => ring'[c] = ring[c]
  BY <1>2, <1>3, <1>13, <1>14
<1>16. Rf(b) \subseteq Slot
  BY DEF Rf, Arc, Slot
<1>17. rfl_ntu' \in [Queues -> Slot]
  BY <1>2, <1>3, <1>6, <1>7
<1>18. rfl_gen' \in [Queues -> {0, 1}]
  <2>1. 1 - rfl_gen[b] \in {0, 1}
    BY <1>2
  <2> QED
    BY <1>3, <1>6, <2>1
<1> QED
  BY <1>10, <1>11, <1>13, <1>15, <1>16, <1>17, <1>18 DEF u

(* The generation bits of the refill queue                                 *)
LEMMA PostGen ==
  ASSUME IInv, NEW b \in Queues, NEW i \in BufId, PostRefill(b, i),
         Off(DescCount, rfl_ntc[b], rfl_ntu[b]) < DescCount - 1, NEW c \in Queues
  PROVE  /\ \A s \in Slot : ring'[c][s].gen =
                              IF s < rfl_ntu'[c] THEN rfl_gen'[c] ELSE 1 - rfl_gen'[c]
         /\ rfl_gen'[c] = IF rfl_ntc[c] <= rfl_ntu'[c] THEN rfl_gen_chk[c]
                                                       ELSE 1 - rfl_gen_chk[c]
<1> DEFINE n == DescCount
           u == rfl_ntu[b]
<1>1. TypeInv /\ GenInv
  BY DEF IInv
<1>2. /\ n \in Nat \ {0} /\ u \in 0 .. n - 1 /\ rfl_ntc[b] \in 0 .. n - 1
      /\ rfl_gen[b] \in {0, 1} /\ rfl_gen_chk[b] \in {0, 1} /\ Slot = 0 .. n - 1
  BY <1>1, Indices, BitsAre, ConfIs DEF Slot
<1>3. /\ ring \in [Queues -> [Slot -> [id : Slot, gen : {0, 1}]]]
      /\ rfl_ntu \in [Queues -> Slot] /\ rfl_gen \in [Queues -> {0, 1}]
  BY <1>1 DEF TypeInv, TypeOK
<1>4. Off(n, rfl_ntc[b], u) < n - 1
  OBVIOUS
<1>5. /\ \A s \in Slot : ring[c][s].gen =
                           IF s < rfl_ntu[c] THEN rfl_gen[c] ELSE 1 - rfl_gen[c]
      /\ rfl_gen[c] = IF rfl_ntc[c] <= rfl_ntu[c] THEN rfl_gen_chk[c]
                                                  ELSE 1 - rfl_gen_chk[c]
  BY <1>1 DEF GenInv
<1>6. /\ rfl_ntu' = [rfl_ntu EXCEPT ![b] = (u + 1) % n]
      /\ rfl_gen' = IF u + 1 = n THEN [rfl_gen EXCEPT ![b] = 1 - rfl_gen[b]] ELSE rfl_gen
      /\ ring' = [ring EXCEPT ![b][u] = [id |-> i, gen |-> rfl_gen[b]]]
  BY DEF PostRefill
<1> HIDE DEF n
<1>7. (u + 1) % n = Inc(n, u)
  BY <1>2, ModInc
<1>8. CASE c # b
  <2>1. rfl_ntu'[c] = rfl_ntu[c] /\ rfl_gen'[c] = rfl_gen[c] /\ ring'[c] = ring[c]
    BY <1>3, <1>6, <1>8
  <2> QED
    BY <1>5, <2>1
<1>9. CASE c = b
  <2>1. rfl_ntu'[b] = Inc(n, u)
    BY <1>3, <1>6, <1>7
  <2>2. rfl_gen'[b] = IF u + 1 = n THEN 1 - rfl_gen[b] ELSE rfl_gen[b]
    BY <1>3, <1>6
  <2>3. \A s \in Slot : ring'[b][s].gen = IF s = u THEN rfl_gen[b] ELSE ring[b][s].gen
    BY <1>3, <1>6
  <2>4. \A s \in Slot : ring[b][s].gen = IF s < u THEN rfl_gen[b] ELSE 1 - rfl_gen[b]
    BY <1>5, <1>9
  <2>5. rfl_gen[b] = IF rfl_ntc[b] <= u THEN rfl_gen_chk[b] ELSE 1 - rfl_gen_chk[b]
    BY <1>5, <1>9
  <2> HIDE DEF u
  <2>6. ASSUME NEW s \in Slot
        PROVE  ring'[b][s].gen = IF s < Inc(n, u) THEN rfl_gen'[b] ELSE 1 - rfl_gen'[b]
    <3>1. ring'[b][s].gen = IF s = u THEN rfl_gen[b]
                            ELSE IF s < u THEN rfl_gen[b] ELSE 1 - rfl_gen[b]
      BY <2>3, <2>4
    <3>2. s \in 0 .. n - 1
      BY <1>2
    <3> QED
      BY <1>2, <2>2, <3>1, <3>2 DEF Inc
  <2>7. rfl_gen'[b] = IF rfl_ntc[b] <= Inc(n, u) THEN rfl_gen_chk[b] ELSE 1 - rfl_gen_chk[b]
    BY <1>2, <1>4, <2>2, <2>5 DEF Inc, Off
  <2> QED
    BY <1>9, <2>1, <2>6, <2>7
<1> QED
  BY <1>8, <1>9

FinishVars == <<conf, hw_ntw, hw_gen, mid, bqVars, head, lost>>

LEMMA FinishIs ==
  ASSUME IInv, NewDesc, UNCHANGED FinishVars, BumpNtc, PostRefill(Desc.bufq, Desc.id),
         NEW b, NEW i, b = rxd[ntc].bufq, i = rxd[ntc].id
  PROVE  /\ ntc \in Wr /\ b \in Queues /\ i \in BufId
         /\ Off(DescCount, rfl_ntc[b], rfl_ntu[b]) < DescCount - 1
         /\ AtRx(b, i) = {ntc} /\ AtBq(b, i) = {} /\ AtRf(b, i) = {} /\ AtLost(b, i) = {}
         /\ Wr' = Wr \ {ntc} /\ \A s \in Wr' : rxd'[s] = rxd[s]
         /\ \A c \in Queues : Posted(c)' = Posted(c)
         /\ \A c \in Queues : c # b => Rf(c)' = Rf(c) /\ ring'[c] = ring[c]
         /\ Rf(b)' = Rf(b) \cup {rfl_ntu[b]} /\ rfl_ntu[b] \notin Rf(b)
         /\ ring'[b][rfl_ntu[b]].id = i
         /\ \A s \in Rf(b) : ring'[b][s] = ring[b][s]
<1>1. TypeInv /\ IdsInv /\ OwnInv
  BY DEF IInv
<1>2. UNCHANGED CleanVars /\ conf' = conf /\ UNCHANGED <<bqVars, head>>
  BY DEF FinishVars, CleanVars
<1>3. /\ ntc \in Wr /\ Wr' = Wr \ {ntc} /\ \A s \in Wr' : rxd'[s] = rxd[s]
  BY <1>2, BumpIs
<1>4. b \in Queues /\ i \in BufId
  BY <1>1, <1>3 DEF IdsInv
<1>5. AtRx(b, i) = {ntc} /\ AtBq(b, i) = {} /\ AtRf(b, i) = {} /\ AtLost(b, i) = {}
  BY <1>1, <1>3, <1>4, InRx
<1>6. Off(DescCount, rfl_ntc[b], rfl_ntu[b]) < DescCount - 1
  BY <1>1, <1>3, RoomToRefill
<1>7. DescCount' = DescCount
  BY <1>2, ConfKept
<1>8. \A c \in Queues : Posted(c)' = Posted(c)
  BY <1>2, <1>7 DEF Posted, bqVars
<1>9. PostRefill(b, i)
  BY DEF Desc
<1>10. /\ rfl_ntu[b] \notin Rf(b) /\ Rf(b)' = Rf(b) \cup {rfl_ntu[b]}
       /\ \A c \in Queues : c # b => Rf(c)' = Rf(c) /\ ring'[c] = ring[c]
       /\ ring'[b][rfl_ntu[b]].id = i
       /\ \A s \in Rf(b) : ring'[b][s] = ring[b][s]
  BY <1>2, <1>4, <1>6, <1>9, PostIs
<1> QED
  BY <1>3, <1>4, <1>5, <1>6, <1>8, <1>10

LEMMA FinishOwn ==
  ASSUME IInv, NewDesc, UNCHANGED FinishVars, BumpNtc, PostRefill(Desc.bufq, Desc.id),
         NEW b, NEW i, b = rxd[ntc].bufq, i = rxd[ntc].id
  PROVE  IdsInv' /\ OwnInv'
<1> DEFINE u == rfl_ntu[b]
<1>1. TypeInv /\ IdsInv /\ OwnInv
  BY DEF IInv
<1>2. /\ Queues' = Queues /\ BufId' = BufId /\ bufd' = bufd /\ lost' = lost
  BY ConfKept DEF FinishVars, bqVars
<1>3. /\ ntc \in Wr /\ b \in Queues /\ i \in BufId
      /\ AtRx(b, i) = {ntc} /\ AtBq(b, i) = {} /\ AtRf(b, i) = {} /\ AtLost(b, i) = {}
      /\ Wr' = Wr \ {ntc} /\ \A s \in Wr' : rxd'[s] = rxd[s]
      /\ \A c \in Queues : Posted(c)' = Posted(c)
      /\ \A c \in Queues : c # b => Rf(c)' = Rf(c) /\ ring'[c] = ring[c]
      /\ Rf(b)' = Rf(b) \cup {u} /\ u \notin Rf(b)
      /\ ring'[b][u].id = i
      /\ \A s \in Rf(b) : ring'[b][s] = ring[b][s]
  BY FinishIs
<1>4. \A c \in Queues, j \in BufId : ntc \in AtRx(c, j) => c = b /\ j = i
  BY DEF AtRx
<1> HIDE DEF u
<1>5. ASSUME NEW c \in Queues, NEW j \in BufId
      PROVE  /\ AtBq(c, j)' = AtBq(c, j) /\ AtLost(c, j)' = AtLost(c, j)
             /\ AtRx(c, j)' = AtRx(c, j) \ {ntc}
             /\ AtRf(c, j)' = IF c = b /\ j = i THEN AtRf(c, j) \cup {u} ELSE AtRf(c, j)
  <2>1. AtBq(c, j)' = AtBq(c, j) /\ AtLost(c, j)' = AtLost(c, j)
    BY <1>2, <1>3 DEF AtBq, AtLost
  <2>2. AtRx(c, j)' = AtRx(c, j) \ {ntc}
    BY <1>3 DEF AtRx
  <2>3. CASE c # b
    BY <1>3, <2>1, <2>2, <2>3 DEF AtRf
  <2>4. CASE c = b
    <3>1. AtRf(b, j)' = IF j = i THEN AtRf(b, j) \cup {u} ELSE AtRf(b, j)
      BY <1>3 DEF AtRf
    <3>2. AtRf(c, j)' = AtRf(b, j)'
      <4>1. AtRf(c, j)' = {s \in Rf(c)' : ring'[c][s].id = j}
        BY DEF AtRf
      <4>2. AtRf(b, j)' = {s \in Rf(b)' : ring'[b][s].id = j}
        BY DEF AtRf
      <4>3. Rf(c)' = Arc(DescCount, rfl_ntc[c], rfl_ntu[c])'
        BY DEF Rf
      <4>4. Rf(b)' = Arc(DescCount, rfl_ntc[b], rfl_ntu[b])'
        BY DEF Rf
      <4> QED
        BY <2>4, <4>1, <4>2, <4>3, <4>4
    <3> QED
      BY <2>1, <2>2, <2>4, <3>1, <3>2
  <2> QED
    BY <2>3, <2>4
<1>6. OwnInv'
  <2> SUFFICES ASSUME NEW c \in Queues, NEW j \in BufId PROVE OnePlace(c, j)'
    BY <1>2 DEF OwnInv
  <2>1. CASE c = b /\ j = i
    <3>1. /\ AtRx(c, j)' = {} /\ AtBq(c, j)' = {} /\ AtRf(c, j)' = {u}
          /\ AtLost(c, j)' = {}
      BY <1>3, <1>5, <2>1
    <3>2. u \in Rf(c)'
      BY <3>1 DEF AtRf
    <3> QED
      BY <3>1, <3>2 DEF OnePlace
  <2>2. CASE ~ (c = b /\ j = i)
    <3>1. /\ AtBq(c, j)' = AtBq(c, j) /\ AtRf(c, j)' = AtRf(c, j)
          /\ AtLost(c, j)' = AtLost(c, j)
      BY <1>5, <2>2
    <3>2. AtRx(c, j)' = AtRx(c, j)
      <4>1. ntc \notin AtRx(c, j)
        BY <1>4, <2>2
      <4>2. AtRx(c, j)' = AtRx(c, j) \ {ntc}
        BY <1>5
      <4> QED
        BY <4>1, <4>2
    <3>3. OnePlace(c, j)
      BY <1>1 DEF OwnInv
    <3>4. \A s : AtRx(c, j) = {s} => s \in Wr'
      BY <3>2 DEF AtRx
    <3>5. \A s : AtRf(c, j) = {s} => s \in Rf(c)'
      BY <3>1 DEF AtRf
    <3> QED
      BY <1>3, <3>1, <3>2, <3>3, <3>4, <3>5 DEF OnePlace
  <2> QED
    BY <2>1, <2>2
<1>7. IdsInv'
  <2>1. \A c \in Queues : \A s \in Posted(c)' : bufd'[c][s].id \in BufId
    BY <1>1, <1>2, <1>3 DEF IdsInv
  <2>2. \A s \in Wr' : rxd'[s].bufq \in Queues /\ rxd'[s].id \in BufId
    BY <1>1, <1>3 DEF IdsInv
  <2>3. ASSUME NEW c \in Queues, NEW s \in Rf(c)'
        PROVE  ring'[c][s].id \in BufId
    <3>1. CASE c # b
      BY <1>1, <1>3, <3>1 DEF IdsInv
    <3>2. CASE c = b
      <4>1. Rf(c)' = Rf(c) \cup {u}
        <5>1. Rf(c)' = Arc(DescCount, rfl_ntc[c], rfl_ntu[c])'
          BY DEF Rf
        <5>2. Rf(b)' = Arc(DescCount, rfl_ntc[b], rfl_ntu[b])'
          BY DEF Rf
        <5> QED
          BY <1>3, <3>2, <5>1, <5>2
      <4> QED
        BY <1>1, <1>3, <3>2, <4>1 DEF IdsInv
    <3> QED
      BY <3>1, <3>2
  <2> QED
    BY <1>2, <2>1, <2>2, <2>3 DEF IdsInv
<1> QED
  BY <1>6, <1>7

LEMMA FinishGen ==
  ASSUME IInv, NewDesc, UNCHANGED FinishVars, BumpNtc, PostRefill(Desc.bufq, Desc.id)
  PROVE  GenInv' /\ TailInv'
<1>1. TypeInv /\ GenInv /\ TailInv
  BY DEF IInv
<1>2. /\ DescCount' = DescCount /\ PostStride' = PostStride /\ FirstTail' = FirstTail
      /\ Slot' = Slot /\ RxSlot' = RxSlot
      /\ Queues' = Queues
      /\ UNCHANGED <<head, ntu, nta, hw_gen, hw_ntw>> /\ UNCHANGED CleanVars
  BY ConfKept DEF FinishVars, CleanVars, bqVars
<1>3. /\ \A s \in RxSlot : rxd'[s].gen = IF s < hw_ntw THEN hw_gen ELSE 1 - hw_gen
      /\ hw_gen = IF ntc' <= hw_ntw THEN gen_chk' ELSE 1 - gen_chk'
  BY <1>2, BumpIs
<1>0. PICK b, i : b = rxd[ntc].bufq /\ i = rxd[ntc].id
  OBVIOUS
<1>4. /\ b \in Queues /\ i \in BufId /\ PostRefill(b, i)
      /\ Off(DescCount, rfl_ntc[b], rfl_ntu[b]) < DescCount - 1
  BY <1>0, FinishIs DEF Desc
<1>5. \A c \in Queues :
       /\ \A s \in Slot : ring'[c][s].gen =
                            IF s < rfl_ntu'[c] THEN rfl_gen'[c] ELSE 1 - rfl_gen'[c]
       /\ rfl_gen'[c] = IF rfl_ntc[c] <= rfl_ntu'[c] THEN rfl_gen_chk[c]
                                                     ELSE 1 - rfl_gen_chk[c]
  BY <1>4, PostGen
<1>6. rfl_ntc' = rfl_ntc /\ rfl_gen_chk' = rfl_gen_chk
  BY <1>4 DEF PostRefill
<1>7. GenInv'
  BY <1>2, <1>3, <1>5, <1>6 DEF GenInv
<1>8. TailInv'
  BY <1>1, <1>2 DEF TailInv, TailOk, AlignDown
<1> QED
  BY <1>7, <1>8

-----------------------------------------------------------------------------
(* What is put back is a buffer whose next place is free                   *)

Fits(b, x) ==
  /\ x \in BufRec /\ x.held[x.cur + 1] = 0
  /\ ~ Big(b) /\ x.page[PageOf(b, x.cur)] = "null" => x.held[1] = 0 /\ x.held[2] = 0
  /\ "nomap" \notin Faults => \A n \in 1 .. 2 : x.page[n] # "freed"

(* What idpf_alloc_page makes of a buffer                                  *)
Alloced(b, buf, how, x) ==
  /\ x \in BufRec /\ x.held = buf.held
  /\ x.cur = IF how = "ok" /\ ~ Big(b) THEN 0 ELSE buf.cur
  /\ PageOf(b, x.cur) = PageOf(b, buf.cur)
  /\ x.page[PageOf(b, x.cur)] = PageAfter[how]
  /\ \A n \in 1 .. 2 : x.page[n] = "freed" => how = "nomap" \/ buf.page[n] = "freed"

LEMMA AllocIs ==
  ASSUME NEW b, NEW buf \in BufRec, NEW how \in DOMAIN PageAfter,
         NEW x, x = AllocPage(b, buf, how)
  PROVE  Alloced(b, buf, how, x)
<1>1. /\ buf.cur \in {0, 1} /\ buf.page \in [1 .. 2 -> {"ok", "null", "freed"}]
      /\ buf.held \in [1 .. 2 -> Nat]
  BY DEF BufRec, Place
<1> DEFINE p == PageOf(b, buf.cur)
           w == PageAfter[how]
           g == [buf.page EXCEPT ![p] = w]
           c == IF how = "ok" /\ ~ Big(b) THEN 0 ELSE buf.cur
<1>2. p \in 1 .. 2 /\ PageOf(b, c) = p
  BY <1>1 DEF PageOf
<1>3. w \in {"ok", "null", "freed"} /\ (w = "freed" => how = "nomap")
  BY DEF PageAfter
<1>4. c \in Place
  BY <1>1 DEF Place
<1>5. x = [buf EXCEPT !.page = g, !.cur = c]
  BY DEF AllocPage
<1> HIDE DEF p, w, c
<1>6. /\ g \in [1 .. 2 -> {"ok", "null", "freed"}] /\ g[p] = w
      /\ \A n \in 1 .. 2 : n # p => g[n] = buf.page[n]
  BY <1>1, <1>2, <1>3
<1> HIDE DEF g
<1>7. x \in BufRec /\ x.held = buf.held /\ x.cur = c /\ x.page = g
  BY <1>4, <1>5, <1>6 DEF BufRec
<1> QED
  BY <1>2, <1>3, <1>6, <1>7 DEF c, w, p, Alloced

LEMMA ReplaceFits ==
  ASSUME NEW b, NEW buf \in BufRec, NEW how \in DOMAIN PageAfter, how \in {"ok"} \cup Faults,
         "nomap" \notin Faults => \A n \in 1 .. 2 : buf.page[n] # "freed"
  PROVE  Fits(b, Replace(b, buf, how))
<1> DEFINE h == [n \in 1 .. 2 |-> IF n - 1 \in Drained(b, buf) THEN 0 ELSE buf.held[n]]
           y == [buf EXCEPT !.held = h]
           x == AllocPage(b, y, how)
<1>1. /\ buf.cur \in {0, 1} /\ buf.page \in [1 .. 2 -> {"ok", "null", "freed"}]
      /\ buf.held \in [1 .. 2 -> Nat]
  BY DEF BufRec, Place
<1>2. h \in [1 .. 2 -> Nat] /\ h[buf.cur + 1] = 0
  BY <1>1 DEF Drained, Place
<1>3. ~ Big(b) => h[1] = 0 /\ h[2] = 0
  BY DEF Drained, Place
<1>4. Replace(b, buf, how) = x
  BY DEF Replace
<1> HIDE DEF h
<1>5. y \in BufRec /\ y.cur = buf.cur /\ y.page = buf.page /\ y.held = h
  BY <1>2 DEF BufRec
<1> HIDE DEF y
<1>6. /\ x \in BufRec /\ x.held = h
      /\ x.cur = IF how = "ok" /\ ~ Big(b) THEN 0 ELSE buf.cur
      /\ \A n \in 1 .. 2 : x.page[n] = "freed" => how = "nomap" \/ buf.page[n] = "freed"
  <2>0. x = AllocPage(b, y, how)
    OBVIOUS
  <2> HIDE DEF x
  <2>1. /\ x \in BufRec /\ x.held = y.held
        /\ x.cur = IF how = "ok" /\ ~ Big(b) THEN 0 ELSE y.cur
        /\ \A n \in 1 .. 2 : x.page[n] = "freed" => how = "nomap" \/ y.page[n] = "freed"
    <3>1. y \in BufRec
      BY <1>5
    <3>2. Alloced(b, y, how, x)
      BY <2>0, <3>1, AllocIs
    <3> QED
      BY <3>2 DEF Alloced
  <2> QED
    BY <1>5, <2>1
<1> HIDE DEF x
<1>7. x.held[x.cur + 1] = 0
  <2>1. CASE Big(b)
    BY <1>2, <1>6, <2>1
  <2>2. CASE ~ Big(b)
    <3>1. x.cur + 1 \in {1, 2}
      BY <1>1, <1>6
    <3> QED
      BY <1>3, <1>6, <2>2, <3>1
  <2> QED
    BY <2>1, <2>2
<1> QED
  BY <1>3, <1>4, <1>6, <1>7 DEF Fits

LEMMA UsedFits ==
  ASSUME NEW b, NEW r \in BufRec, Fits(b, r), r.page[PageOf(b, r.cur)] # "null"
  PROVE  LET buf == AdjustPg(b, [r EXCEPT !.held[r.cur + 1] = @ + 1])
         IN  /\ buf \in BufRec /\ buf.page = r.page
             /\ CanReuse(b, buf) => Fits(b, buf)
<1> DEFINE h == [r.held EXCEPT ![r.cur + 1] = r.held[r.cur + 1] + 1]
           buf == AdjustPg(b, [r EXCEPT !.held[r.cur + 1] = @ + 1])
<1>1. /\ r.cur \in {0, 1} /\ r.page \in [1 .. 2 -> {"ok", "null", "freed"}]
      /\ r.held \in [1 .. 2 -> Nat] /\ r.held[r.cur + 1] = 0
  BY DEF BufRec, Place, Fits
<1>2. /\ h \in [1 .. 2 -> Nat] /\ h[r.cur + 1] = 1
  BY <1>1
<1>3. buf = [r EXCEPT !.held = h, !.cur = 1 - r.cur]
  BY DEF AdjustPg
<1> HIDE DEF h, buf
<1>4. 1 - r.cur \in Place
  BY <1>1 DEF Place
<1>5. buf \in BufRec /\ buf.page = r.page /\ buf.held = h /\ buf.cur = 1 - r.cur
  BY <1>2, <1>3, <1>4 DEF BufRec
<1>6. ASSUME CanReuse(b, buf) PROVE Fits(b, buf)
  <2>1. CASE Big(b)
    <3>1. buf.held[buf.cur + 1] = 0
      BY <1>6, <2>1 DEF CanReuse
    <3> QED
      BY <1>5, <2>1, <3>1 DEF Fits
  <2>2. CASE ~ Big(b)
    <3>1. h[1] + h[2] <= 1
      BY <1>5, <1>6, <2>2 DEF CanReuse
    <3>2. h[buf.cur + 1] = 0
      <4>1. h[1] \in Nat /\ h[2] \in Nat
        BY <1>2
      <4>2. CASE r.cur = 0
        <5>1. h[1] = 1 /\ h[buf.cur + 1] = h[2]
          BY <1>2, <1>5, <4>2
        <5> QED
          BY <3>1, <4>1, <5>1
      <4>3. CASE r.cur = 1
        <5>1. h[2] = 1 /\ h[buf.cur + 1] = h[1]
          BY <1>2, <1>5, <4>3
        <5> QED
          BY <3>1, <4>1, <5>1
      <4> QED
        BY <1>1, <4>2, <4>3
    <3>3. PageOf(b, buf.cur) = PageOf(b, r.cur)
      BY <2>2 DEF PageOf
    <3> QED
      BY <1>5, <3>2, <3>3 DEF Fits
  <2> QED
    BY <2>1, <2>2
<1> QED
  BY <1>5, <1>6 DEF buf

(* The buffer of a descriptor                                              *)
LEMMA BufFits ==
  ASSUME IInv, NEW b, NEW i, b = rxd[ntc].bufq, i = rxd[ntc].id, ntc \in Wr
  PROVE  /\ b \in Queues /\ i \in BufId /\ Buf = bufs[b][i] /\ Buf \in BufRec
         /\ Fits(b, Buf) /\ Buf.page[PageOf(b, Buf.cur)] # "null"
<1>1. TypeInv /\ FreeInv /\ IdsInv
  BY DEF IInv
<1>2. b \in Queues /\ i \in BufId
  BY <1>1 DEF IdsInv
<1>3. Buf = bufs[b][i]
  BY DEF Buf, Desc
<1>4. Buf \in BufRec
  BY <1>1, <1>2, <1>3 DEF TypeInv
<1>5. /\ Buf.held[Buf.cur + 1] = 0
      /\ ~ Big(b) /\ Buf.page[PageOf(b, Buf.cur)] = "null" =>
            Buf.held[1] = 0 /\ Buf.held[2] = 0
      /\ "nomap" \notin Faults => \A n \in 1 .. 2 : Buf.page[n] # "freed"
      /\ Buf.page[PageOf(b, Buf.cur)] # "null"
  BY <1>1, <1>2, <1>3 DEF FreeInv, PageNow
<1> QED
  BY <1>2, <1>3, <1>4, <1>5 DEF Fits

LEMMA FinishFree ==
  ASSUME IInv, NewDesc, UNCHANGED FinishVars, BumpNtc, PostRefill(Desc.bufq, Desc.id),
         NEW b, NEW i, b = rxd[ntc].bufq, i = rxd[ntc].id,
         NEW x, Fits(b, x), bufs' = [bufs EXCEPT ![b][i] = x]
  PROVE  FreeInv' /\ bufs' \in [Queues -> [BufId -> BufRec]]
<1>1. TypeInv /\ FreeInv /\ IdsInv
  BY DEF IInv
<1>2. /\ Queues' = Queues /\ BufId' = BufId /\ bufd' = bufd /\ conf' = conf
      /\ \A c \in Queues : Big(c)' = Big(c)
  BY ConfKept DEF FinishVars, bqVars
<1>3. /\ ntc \in Wr /\ b \in Queues /\ i \in BufId
      /\ AtRx(b, i) = {ntc} /\ AtBq(b, i) = {}
      /\ Wr' = Wr \ {ntc} /\ \A s \in Wr' : rxd'[s] = rxd[s]
      /\ \A c \in Queues : Posted(c)' = Posted(c)
  BY FinishIs
<1>4. bufs \in [Queues -> [BufId -> BufRec]] /\ x \in BufRec
  BY <1>1 DEF TypeInv, Fits
<1>5. /\ bufs' \in [Queues -> [BufId -> BufRec]] /\ bufs'[b][i] = x
      /\ \A c \in Queues, j \in BufId : ~ (c = b /\ j = i) => bufs'[c][j] = bufs[c][j]
  BY <1>3, <1>4
<1>6. ASSUME NEW c \in Queues, NEW j \in BufId, ~ (c = b /\ j = i)
      PROVE  PageNow(c, j)' = PageNow(c, j)
  <2>1. bufs'[c][j] = bufs[c][j]
    BY <1>5, <1>6
  <2> QED
    BY <1>2, <2>1 DEF PageNow, PageOf, Big
<1>7. ASSUME NEW c \in Queues, NEW j \in BufId
      PROVE  /\ bufs'[c][j].held[bufs'[c][j].cur + 1] = 0
             /\ ~ Big(c) /\ PageNow(c, j)' = "null" =>
                  bufs'[c][j].held[1] = 0 /\ bufs'[c][j].held[2] = 0
             /\ "nomap" \notin Faults => \A n \in 1 .. 2 : bufs'[c][j].page[n] # "freed"
  <2>1. CASE c = b /\ j = i
    <3>1. bufs'[c][j] = x
      BY <1>5, <2>1
    <3>2. PageNow(c, j)' = x.page[PageOf(b, x.cur)]
      BY <1>2, <2>1, <3>1 DEF PageNow, PageOf, Big
    <3> QED
      BY <2>1, <3>1, <3>2 DEF Fits
  <2>2. CASE ~ (c = b /\ j = i)
    <3>1. bufs'[c][j] = bufs[c][j] /\ PageNow(c, j)' = PageNow(c, j)
      BY <1>5, <1>6, <2>2
    <3> QED
      BY <1>1, <3>1 DEF FreeInv
  <2> QED
    BY <2>1, <2>2
<1>8. ASSUME NEW c \in Queues, NEW s \in Posted(c)
      PROVE  /\ bufd'[c][s].cur = bufs'[c][bufd'[c][s].id].cur
             /\ PageNow(c, bufd[c][s].id)' # "null"
  <2>1. PICK j \in BufId : j = bufd[c][s].id
    BY <1>1 DEF IdsInv
  <2>2. bufd[c][s].cur = bufs[c][j].cur /\ PageNow(c, j) # "null"
    BY <1>1, <2>1 DEF FreeInv
  <2>3. ~ (c = b /\ j = i)
    <3>1. s \in AtBq(c, j)
      BY <2>1 DEF AtBq
    <3> QED
      BY <1>3, <3>1
  <2>4. PageNow(c, bufd[c][s].id)' = PageNow(c, j)'
    BY <1>2, <2>1
  <2> QED
    BY <1>2, <1>5, <1>6, <2>1, <2>2, <2>3, <2>4
<1>9. ASSUME NEW s \in Wr' PROVE PageNow(rxd[s].bufq, rxd[s].id)' # "null"
  <2>0. s \in Wr /\ s # ntc /\ rxd'[s] = rxd[s]
    BY <1>3
  <2>1. PICK c \in Queues, j \in BufId : c = rxd[s].bufq /\ j = rxd[s].id
    BY <1>1, <2>0 DEF IdsInv
  <2>2. PageNow(c, j) # "null"
    BY <1>1, <2>0, <2>1 DEF FreeInv
  <2>3. ~ (c = b /\ j = i)
    <3>1. s \in AtRx(c, j)
      BY <2>0, <2>1 DEF AtRx
    <3> QED
      BY <1>3, <2>0, <3>1
  <2>4. PageNow(rxd[s].bufq, rxd[s].id)' = PageNow(c, j)'
    BY <2>0, <2>1
  <2> QED
    BY <1>6, <2>2, <2>3, <2>4
<1>10. \A c \in Queues, j \in BufId :
        /\ bufs'[c][j].held[bufs'[c][j].cur + 1] = 0
        /\ ~ Big(c)' /\ PageNow(c, j)' = "null" =>
             bufs'[c][j].held[1] = 0 /\ bufs'[c][j].held[2] = 0
        /\ "nomap" \notin Faults => \A n \in 1 .. 2 : bufs'[c][j].page[n] # "freed"
  BY <1>2, <1>7
<1>11. \A c \in Queues : \A s \in Posted(c)' :
        /\ bufd'[c][s].cur = bufs'[c][bufd'[c][s].id].cur
        /\ PageNow(c, bufd[c][s].id)' # "null"
  BY <1>3, <1>8
<1>12. \A s \in Wr' : PageNow(rxd[s].bufq, rxd[s].id)' # "null"
  BY <1>9
<1>13. FreeInv'
  BY <1>2, <1>10, <1>11, <1>12 DEF FreeInv
<1> QED
  BY <1>5, <1>13

(* The whole of a descriptor's work                                        *)
LEMMA FinishKeeps ==
  ASSUME IInv, Loops, UNCHANGED <<conf, rxVars, bqVars, head, lost, pc, ok, pend, refilled>>,
         NEW b, NEW i, b = rxd[ntc].bufq, i = rxd[ntc].id,
         NEW buf \in BufRec, NEW used \in BOOLEAN, NEW s \in Skbs \cup {None},
         FinishBuf(buf, used, s), ~ Desc.bad,
         "nomap" \notin Faults => \A n \in 1 .. 2 : buf.page[n] # "freed",
         used => (CanReuse(b, buf) => Fits(b, buf)), ~ used => Fits(b, buf),
         mixed' \in BOOLEAN, total' \in 0 .. Budget,
         lost = {} => (s = None <=> rxd[ntc].eop) /\ (s # None => s.whole) /\ ~ mixed',
         conf.xdp => s = None
  PROVE  IInv'
<1>1. TypeInv /\ PacketInv /\ DoneInv
  BY DEF IInv
<1>2. /\ NewDesc /\ pc = "rx" /\ UNCHANGED FinishVars /\ UNCHANGED CleanVars
      /\ UNCHANGED <<conf, mid, hw_ntw, hw_gen, lost, pc, ok, pend, refilled, head,
                     bufd, ntu, nta>>
  BY DEF Loops, FinishVars, CleanVars, rxVars, bqVars
<1>3. PICK keep \in BOOLEAN, how \in {"ok"} \cup Faults :
        /\ IF used THEN keep => CanReuse(b, buf) ELSE keep
        /\ how # "ok" => ~ keep /\ how \in DOMAIN PageAfter
        /\ nfault' = nfault + IF how # "ok" \/ (~ keep /\ CanReuse(b, buf))
                             THEN 1 ELSE 0
        /\ bufs' = [bufs EXCEPT ![b][i] = IF keep THEN buf ELSE Replace(b, buf, how)]
        /\ skb' = IF s = None \/ keep THEN s
                  ELSE [s EXCEPT !.frags = @ \ ({b} \X {i} \X Drained(b, buf))]
        /\ PostRefill(b, i) /\ BumpNtc
  BY DEF FinishBuf, Desc
<1>4. how \in DOMAIN PageAfter
  BY <1>3 DEF PageAfter
<1>5. PostRefill(Desc.bufq, Desc.id) /\ BumpNtc
  BY <1>3 DEF Desc
<1>6. PICK x : x = IF keep THEN buf ELSE Replace(b, buf, how)
  OBVIOUS
<1>7. Fits(b, x)
  <2>1. CASE keep
    BY <1>3, <1>6, <2>1
  <2>2. CASE ~ keep
    BY <1>4, <1>6, <2>2, ReplaceFits
  <2> QED
    BY <2>1, <2>2
<1>8. bufs' = [bufs EXCEPT ![b][i] = x]
  BY <1>3, <1>6
<1>9. FreeInv' /\ bufs' \in [Queues -> [BufId -> BufRec]]
  BY <1>2, <1>5, <1>7, <1>8, FinishFree
<1>10. IdsInv' /\ OwnInv' /\ GenInv' /\ TailInv'
  BY <1>2, <1>5, FinishOwn, FinishGen
<1>11. /\ skb' \in Skbs \cup {None} /\ (skb' = None <=> s = None)
       /\ s # None => skb'.whole = s.whole
  <2>1. CASE s = None \/ keep
    BY <1>3, <2>1
  <2>2. CASE ~ (s = None \/ keep)
    <3>1. s \in Skbs /\ skb' = [s EXCEPT !.frags = @ \ ({b} \X {i} \X Drained(b, buf))]
      BY <1>3, <2>2
    <3>2. skb' \in Skbs /\ skb'.whole = s.whole
      BY <3>1 DEF Skbs
    <3> QED
      BY <2>2, <3>2, NoneAssumption
  <2> QED
    BY <2>1, <2>2
<1>12. nfault' \in Nat /\ (nfault' = 0 => nfault = 0)
  BY <1>1, <1>3 DEF TypeInv
<1>13. PacketInv'
  BY <1>2, <1>5, <1>11, BumpPacket
<1>14. /\ ntc \in Wr /\ b \in Queues /\ i \in BufId
       /\ Off(DescCount, rfl_ntc[b], rfl_ntu[b]) < DescCount - 1
       /\ Wr' = Wr \ {ntc} /\ \A t \in Wr' : rxd'[t] = rxd[t]
  BY <1>2, <1>5, FinishIs
<1>15. /\ ring' \in [Queues -> [Slot -> [id : Slot, gen : {0, 1}]]]
       /\ rfl_ntu' \in [Queues -> Slot] /\ rfl_gen' \in [Queues -> {0, 1}]
       /\ rfl_ntc' = rfl_ntc /\ rfl_gen_chk' = rfl_gen_chk
  BY <1>2, <1>3, <1>14, PostIs DEF PostRefill
<1>16. /\ ntc' \in RxSlot /\ gen_chk' \in {0, 1} /\ rxd' \in [RxSlot -> DescRec]
  BY <1>2, <1>5, BumpIs
<1>17. /\ Queues' = Queues /\ BufId' = BufId /\ Slot' = Slot /\ RxSlot' = RxSlot
       /\ DescRec' = DescRec
  BY <1>2, ConfKept
<1>18. TypeInv'
  <2>1. TypeOK'
    BY <1>1, <1>2, <1>15, <1>16, <1>17 DEF TypeInv, TypeOK
  <2> QED
    BY <1>1, <1>2, <1>9, <1>11, <1>12, <1>15, <1>16, <1>17, <2>1 DEF TypeInv, BufRec
<1>19. DoneInv'
  <2>1. ASSUME nfault' = 0 PROVE refilled' = {} /\ lost' = {} /\ \A t \in Wr' : ~ rxd'[t].bad
    BY <1>1, <1>2, <1>12, <1>14, <2>1 DEF DoneInv
  <2> QED
    BY <1>2, <2>1 DEF DoneInv
<1> QED
  BY <1>9, <1>10, <1>13, <1>18, <1>19 DEF IInv

LEMMA XdpKeeps == ASSUME IInv, NEW p \in BOOLEAN, RxXdp(p) PROVE IInv'
<1>1. TypeInv /\ PacketInv
  BY DEF IInv
<1>2. /\ Loops /\ ~ Desc.bad /\ conf.xdp /\ total < Budget /\ total' = total + 1
      /\ UNCHANGED <<conf, rxVars, bqVars, head, lost, pc, ok, pend, refilled, mixed>>
      /\ FinishBuf(IF p THEN Used(Buf) ELSE Buf, TRUE, skb)
  BY DEF RxXdp, Loops
<1>3. ntc \in Wr
  BY <1>2, NewIs DEF Loops
<1>4. PICK b, i : b = rxd[ntc].bufq /\ i = rxd[ntc].id
  OBVIOUS
<1>5. /\ b \in Queues /\ i \in BufId /\ Buf \in BufRec
      /\ Fits(b, Buf) /\ Buf.page[PageOf(b, Buf.cur)] # "null"
  BY <1>3, <1>4, BufFits
<1>6. Used(Buf) = AdjustPg(b, [Buf EXCEPT !.held[Buf.cur + 1] = @ + 1])
  BY <1>4 DEF Used, Desc
<1>7. /\ Used(Buf) \in BufRec /\ Used(Buf).page = Buf.page
      /\ CanReuse(b, Used(Buf)) => Fits(b, Used(Buf))
  BY <1>5, <1>6, UsedFits
<1>8. PICK buf : buf = IF p THEN Used(Buf) ELSE Buf
  OBVIOUS
<1>9. PICK s : s = skb
  OBVIOUS
<1>10. FinishBuf(buf, TRUE, s)
  BY <1>2, <1>8, <1>9
<1>11. /\ buf \in BufRec /\ (CanReuse(b, buf) => Fits(b, buf))
       /\ "nomap" \notin Faults => \A n \in 1 .. 2 : buf.page[n] # "freed"
  <2>1. "nomap" \notin Faults => \A n \in 1 .. 2 : Buf.page[n] # "freed"
    BY <1>5 DEF Fits
  <2>2. buf = Used(Buf) \/ buf = Buf
    BY <1>8
  <2> QED
    BY <1>5, <1>7, <2>1, <2>2
<1>12. s = None /\ rxd[ntc].eop /\ (lost = {} => ~ mixed')
  BY <1>1, <1>2, <1>3, <1>9 DEF PacketInv
<1>13. total' \in 0 .. Budget /\ mixed' \in BOOLEAN
  BY <1>1, <1>2, SizeAssumption DEF TypeInv, TypeOK
<1> QED
  BY <1>2, <1>4, <1>10, <1>11, <1>12, <1>13, FinishKeeps

(* The skb a descriptor extends or begins                                  *)
S1(fails) ==
  LET s0 == HdrSkb(fails)
  IN  CASE s0 = None -> NewSkb(Desc, FALSE)
        [] s0 # None /\ Desc.hdr -> s0
        [] OTHER -> [s0 EXCEPT !.whole = @ /\ ~ Desc.sop]

LEMMA NewSkbIs ==
  ASSUME NEW d \in DescRec, NEW h \in BOOLEAN
  PROVE  NewSkb(d, h) \in Skbs /\ NewSkb(d, h).whole = d.sop
<1>1. d.sop \in BOOLEAN /\ d.hdr \in BOOLEAN
  BY DEF DescRec
<1>2. (d.hdr => h) \in BOOLEAN
  BY <1>1
<1> QED
  BY <1>1, <1>2 DEF NewSkb, Skbs

LEMMA SkbIs ==
  ASSUME IInv, NewDesc, NEW f \in BOOLEAN
  PROVE  /\ S1(f) \in Skbs
         /\ lost = {} => S1(f).whole
<1>1. TypeInv /\ PacketInv
  BY DEF IInv
<1>2. ntc \in Wr /\ ntc \in RxSlot
  BY <1>1, NewIs DEF TypeInv, TypeOK
<1>3. PICK d : d = rxd[ntc]
  OBVIOUS
<1>4. d \in DescRec /\ Desc = d
  BY <1>1, <1>2, <1>3 DEF TypeInv, Desc
<1>5. d.sop \in BOOLEAN /\ d.hdr \in BOOLEAN /\ skb \in Skbs \cup {None}
  BY <1>1, <1>4 DEF DescRec, TypeInv
<1>6. d.hdr => d.sop
  BY <1>1, <1>2, <1>3 DEF PacketInv
<1>7. lost = {} => (d.sop <=> skb = None) /\ (skb # None => skb.whole)
  BY <1>1, <1>2, <1>3 DEF PacketInv
<1>8. /\ NewSkb(d, TRUE) \in Skbs /\ NewSkb(d, TRUE).whole = d.sop
      /\ NewSkb(d, FALSE) \in Skbs /\ NewSkb(d, FALSE).whole = d.sop
  BY <1>4, NewSkbIs
<1>9. HdrSkb(f) = IF ~ d.hdr THEN skb ELSE IF f THEN None ELSE NewSkb(d, TRUE)
  BY <1>4 DEF HdrSkb
<1>10. CASE HdrSkb(f) = None
  <2>1. S1(f) = NewSkb(d, FALSE)
    BY <1>4, <1>10 DEF S1
  <2>2. lost = {} => d.sop
    BY <1>6, <1>7, <1>9, <1>10
  <2> QED
    BY <1>8, <2>1, <2>2
<1>11. CASE HdrSkb(f) # None /\ d.hdr
  <2>1. S1(f) = HdrSkb(f)
    BY <1>4, <1>11 DEF S1
  <2>2. HdrSkb(f) = NewSkb(d, TRUE)
    BY <1>9, <1>11
  <2> QED
    BY <1>6, <1>8, <1>11, <2>1, <2>2
<1>12. CASE HdrSkb(f) # None /\ ~ d.hdr
  <2>1. HdrSkb(f) = skb /\ skb \in Skbs
    BY <1>5, <1>9, <1>12
  <2>2. S1(f) = [skb EXCEPT !.whole = @ /\ ~ d.sop]
    BY <1>4, <1>12, <2>1 DEF S1
  <2>3. (skb.whole /\ ~ d.sop) \in BOOLEAN
    OBVIOUS
  <2>4. S1(f) \in Skbs /\ S1(f).whole = (skb.whole /\ ~ d.sop)
    BY <2>1, <2>2, <2>3 DEF Skbs
  <2>5. lost = {} => skb.whole /\ ~ d.sop
    BY <1>7, <1>12, <2>1
  <2> QED
    BY <2>4, <2>5
<1> QED
  BY <1>10, <1>11, <1>12

LEMMA PacketKeeps == ASSUME IInv, NEW f \in BOOLEAN, NEW copied \in BOOLEAN, RxPacket(f, copied) PROVE IInv'
<1>1. TypeInv /\ PacketInv
  BY DEF IInv
<1> DEFINE frag == Desc.pkt /\ ~ copied
           s2 == IF frag
                 THEN [S1(f) EXCEPT !.frags = @ \cup {<<Desc.bufq, Desc.id, Buf.cur>>}]
                 ELSE S1(f)
<1>2. /\ Loops /\ ~ Desc.bad /\ total < Budget
      /\ total' \in IF Desc.eop THEN {total, total + 1} ELSE {total}
      /\ mixed' = (mixed \/ (Desc.eop /\ ~ s2.whole))
      /\ UNCHANGED <<conf, rxVars, bqVars, head, lost, pc, ok, pend, refilled>>
      /\ FinishBuf(IF frag THEN Used(Buf) ELSE Buf, Desc.pkt,
                   IF Desc.eop THEN None ELSE s2)
  BY DEF RxPacket, Loops, S1
<1>3. ntc \in Wr /\ NewDesc /\ ntc \in RxSlot
  BY <1>1, <1>2, NewIs DEF Loops, TypeInv, TypeOK
<1>4. PICK b, i : b = rxd[ntc].bufq /\ i = rxd[ntc].id
  OBVIOUS
<1>5. /\ b \in Queues /\ i \in BufId /\ Buf \in BufRec
      /\ Fits(b, Buf) /\ Buf.page[PageOf(b, Buf.cur)] # "null"
  BY <1>3, <1>4, BufFits
<1>6. Used(Buf) = AdjustPg(b, [Buf EXCEPT !.held[Buf.cur + 1] = @ + 1])
  BY <1>4 DEF Used, Desc
<1>7. /\ Used(Buf) \in BufRec /\ Used(Buf).page = Buf.page
      /\ CanReuse(b, Used(Buf)) => Fits(b, Used(Buf))
  BY <1>5, <1>6, UsedFits
<1>8. PICK buf : buf = IF frag THEN Used(Buf) ELSE Buf
  OBVIOUS
<1>9. PICK s : s = IF Desc.eop THEN None ELSE s2
  OBVIOUS
<1>10. PICK used : used = Desc.pkt
  OBVIOUS
<1>11. Desc \in DescRec /\ Desc = rxd[ntc]
  BY <1>1, <1>3 DEF TypeInv, Desc
<1>12. used \in BOOLEAN /\ Desc.eop \in BOOLEAN
  BY <1>10, <1>11 DEF DescRec
<1>13. FinishBuf(buf, used, s)
  <2> HIDE DEF frag, s2
  <2> QED
    BY <1>2, <1>8, <1>9, <1>10
<1>14. /\ buf \in BufRec /\ (CanReuse(b, buf) => Fits(b, buf))
       /\ (~ used => Fits(b, buf))
       /\ "nomap" \notin Faults => \A n \in 1 .. 2 : buf.page[n] # "freed"
  <2>1. "nomap" \notin Faults => \A n \in 1 .. 2 : Buf.page[n] # "freed"
    BY <1>5 DEF Fits
  <2>2. (buf = Used(Buf) /\ used) \/ buf = Buf
    BY <1>8, <1>10
  <2> QED
    BY <1>5, <1>7, <2>1, <2>2
<1>15. s2 \in Skbs /\ s2.whole = S1(f).whole
  <2>1. S1(f) \in Skbs
    BY <1>3, SkbIs
  <2>2. <<Desc.bufq, Desc.id, Buf.cur>> \in (UNION {DOMAIN c.big : c \in Configs}) \X Nat \X Place
    <3>1. b \in UNION {DOMAIN c.big : c \in Configs}
      BY <1>1, <1>5 DEF TypeInv, TypeOK, Queues
    <3>2. i \in Nat
      <4>1. DescCount \in Nat
        BY <1>1, ConfIs, Indices
      <4> QED
        BY <1>5, <4>1 DEF BufId
    <3>3. Buf.cur \in Place
      BY <1>5 DEF BufRec
    <3> QED
      BY <1>4, <1>11, <3>1, <3>2, <3>3
  <2> DEFINE e == <<Desc.bufq, Desc.id, Buf.cur>>
             F == (UNION {DOMAIN c.big : c \in Configs}) \X Nat \X Place
  <2> HIDE DEF e
  <2>3. s2 = IF frag THEN [S1(f) EXCEPT !.frags = @ \cup {e}] ELSE S1(f)
    BY DEF e
  <2>4. e \in F
    BY <2>2 DEF e
  <2> HIDE DEF F, s2, frag
  <2>5. Skbs = [whole : BOOLEAN, head : BOOLEAN, frags : SUBSET F]
    BY DEF Skbs, F
  <2> QED
    BY <2>1, <2>3, <2>4, <2>5
<1> HIDE DEF s2, frag
<1>16. s \in Skbs \cup {None} /\ (s = None <=> Desc.eop)
  BY <1>9, <1>12, <1>15, NoneAssumption
<1>17. lost = {} => (s # None => s.whole) /\ ~ mixed'
  <2>1. lost = {} => s2.whole
    BY <1>3, <1>15, SkbIs
  <2>2. lost = {} => ~ mixed
    BY <1>1 DEF PacketInv
  <2> QED
    BY <1>2, <1>9, <2>1, <2>2
<1>18. conf.xdp => s = None
  BY <1>1, <1>3, <1>11, <1>16 DEF PacketInv
<1>19. total' \in 0 .. Budget /\ mixed' \in BOOLEAN
  BY <1>1, <1>2, SizeAssumption DEF TypeInv, TypeOK
<1> QED
  BY <1>2, <1>4, <1>11, <1>12, <1>13, <1>14, <1>16, <1>17, <1>18, <1>19, FinishKeeps

-----------------------------------------------------------------------------
(* The refill queue is posted                                              *)

(* The generation bits say exactly which entries are new.                  *)
LEMMA IsNewIs ==
  ASSUME IInv, NEW b \in Queues, NEW k \in 0 .. DescCount - 1
  PROVE  IsNew(b, k) <=> k < Off(DescCount, rfl_ntc[b], rfl_ntu[b])
<1> DEFINE n == DescCount
           c == rfl_ntc[b]
           u == rfl_ntu[b]
           t == (c + k) % n
           g == rfl_gen[b]
           h == rfl_gen_chk[b]
<1>1. TypeInv /\ GenInv
  BY DEF IInv
<1>2. /\ n \in Nat \ {0} /\ c \in 0 .. n - 1 /\ u \in 0 .. n - 1 /\ k \in 0 .. n - 1
      /\ g \in {0, 1} /\ h \in {0, 1} /\ Slot = 0 .. n - 1
  BY <1>1, Indices, BitsAre, ConfIs DEF Slot
<1>3. /\ \A s \in Slot : ring[b][s].gen = IF s < u THEN g ELSE 1 - g
      /\ g = IF c <= u THEN h ELSE 1 - h
  BY <1>1 DEF GenInv
<1>4. IsNew(b, k) <=> ring[b][t].gen = IF c + k < n THEN h ELSE 1 - h
  BY DEF IsNew, Entry
<1> HIDE DEF n, c, u, g, h
<1>5. t = IF c + k < n THEN c + k ELSE c + k - n
  <2>1. k \in 0 .. n
    BY <1>2
  <2> QED
    BY <1>2, <2>1, ModUp
<1>6. t \in 0 .. n - 1
  BY <1>2, <1>5
<1> HIDE DEF t
<1>7. ring[b][t].gen = IF t < u THEN g ELSE 1 - g
  BY <1>2, <1>3, <1>6
<1>8. PICK e : e = ring[b][t].gen
  OBVIOUS
<1>9. (e = IF c + k < n THEN h ELSE 1 - h) <=> k < Off(n, c, u)
  BY <1>2, <1>3, <1>5, <1>7, <1>8 DEF Off
<1> QED
  BY <1>4, <1>8, <1>9 DEF n, c, u

LEMMA NewEntriesIs ==
  ASSUME IInv, NEW b \in Queues
  PROVE  NewEntries(b) = 0 .. Off(DescCount, rfl_ntc[b], rfl_ntu[b])
<1> DEFINE n == DescCount
           w == Off(n, rfl_ntc[b], rfl_ntu[b])
<1>1. TypeInv
  BY DEF IInv
<1>2. n \in Nat \ {0} /\ rfl_ntc[b] \in 0 .. n - 1 /\ rfl_ntu[b] \in 0 .. n - 1
  BY <1>1, Indices, ConfIs
<1>3. \A k \in 0 .. n - 1 : IsNew(b, k) <=> k < w
  BY IsNewIs
<1> HIDE DEF n
<1>4. w \in 0 .. n - 1
  BY <1>2 DEF Off
<1> HIDE DEF w
<1>5. ASSUME NEW m \in 0 .. n
      PROVE  (\A k \in 0 .. m - 1 : IsNew(b, k)) <=> m <= w
  <2>1. \A k \in 0 .. m - 1 : k \in 0 .. n - 1
    BY <1>2
  <2>2. ASSUME m <= w PROVE \A k \in 0 .. m - 1 : IsNew(b, k)
    BY <1>3, <1>4, <2>1, <2>2
  <2>3. ASSUME ~ (m <= w) PROVE ~ \A k \in 0 .. m - 1 : IsNew(b, k)
    <3>1. w \in 0 .. m - 1
      BY <1>4, <2>3
    <3> QED
      BY <1>3, <1>4, <3>1
  <2> QED
    BY <2>2, <2>3
<1>6. NewEntries(b) = {m \in 0 .. n : m <= w}
  BY <1>5 DEF NewEntries, n
<1> QED
  BY <1>2, <1>4, <1>6 DEF w, n

(* The entries that are taken                                              *)
LEMMA EntryIs ==
  ASSUME IInv, NEW b \in Queues, NEW k \in Nat,
         k < Off(DescCount, rfl_ntc[b], rfl_ntu[b])
  PROVE  LET t == (rfl_ntc[b] + k) % DescCount
         IN  /\ t \in Rf(b) /\ Entry(b, k) = ring[b][t]
             /\ Off(DescCount, rfl_ntc[b], t) = k
             /\ Entry(b, k).id \in BufId /\ AtRf(b, Entry(b, k).id) = {t}
<1> DEFINE n == DescCount
           c == rfl_ntc[b]
           t == (c + k) % n
<1>1. TypeInv /\ IdsInv /\ OwnInv
  BY DEF IInv
<1>2. n \in Nat \ {0} /\ c \in 0 .. n - 1 /\ rfl_ntu[b] \in 0 .. n - 1
  BY <1>1, Indices, ConfIs
<1>3. k < Off(n, c, rfl_ntu[b])
  OBVIOUS
<1>4. Entry(b, k) = ring[b][t]
  BY DEF Entry
<1> HIDE DEF n, c
<1>5. k \in 0 .. n - 1
  BY <1>2, <1>3 DEF Off
<1>6. t \in 0 .. n - 1 /\ Off(n, c, t) = k
  BY <1>2, <1>5, OffBack
<1> HIDE DEF t
<1>7. t \in Rf(b)
  BY <1>3, <1>6 DEF Rf, Arc, n, c
<1>8. ring[b][t].id \in BufId
  BY <1>1, <1>7 DEF IdsInv
<1>9. AtRf(b, ring[b][t].id) = {t}
  BY <1>1, <1>7, <1>8, InRf
<1> QED
  BY <1>4, <1>6, <1>7, <1>8, <1>9 DEF t, n, c

(* The count, the places                                                   *)
LEMMA RefillIs ==
  ASSUME IInv, NEW b \in Queues, NEW n \in 0 .. DescCount, NEW how \in {"ok"} \cup Faults,
         Refill(b, n, how)
  PROVE  LET d == DescCount
             w == Off(d, rfl_ntc[b], rfl_ntu[b])
         IN  /\ n <= w /\ w < d
             /\ how = "ok" => n = w
             /\ how # "ok" => n < w /\ NoPage(b, n) /\ how \in DOMAIN PageAfter
             /\ conf' = conf
             /\ nta'[b] = (nta[b] + n) % d /\ nta'[b] \in Slot
             /\ Off(d, head[b], nta[b]) + n < d
             /\ Off(d, head[b], nta'[b]) = Off(d, head[b], nta[b]) + n
             /\ Posted(b)' = Posted(b) \cup {s \in Slot : Off(d, nta[b], s) < n}
             /\ \A s \in Slot : Off(d, nta[b], s) < n => s \notin Posted(b)
             /\ rfl_ntc'[b] \in Slot /\ Off(d, rfl_ntc'[b], rfl_ntu[b]) = w - n
             /\ Rf(b)' = {s \in Rf(b) : ~ (Off(d, rfl_ntc[b], s) < n)}
             /\ \A c \in Queues : c # b => Posted(c)' = Posted(c) /\ Rf(c)' = Rf(c)
             /\ Wr' = Wr
<1> DEFINE d == DescCount
           w == Off(d, rfl_ntc[b], rfl_ntu[b])
<1>1. TypeInv /\ IdsInv /\ OwnInv
  BY DEF IInv
<1>2. /\ d \in Nat \ {0} /\ rfl_ntc[b] \in 0 .. d - 1 /\ rfl_ntu[b] \in 0 .. d - 1
      /\ nta[b] \in 0 .. d - 1 /\ head[b] \in 0 .. d - 1 /\ Slot = 0 .. d - 1
      /\ nta \in [Queues -> Slot] /\ rfl_ntc \in [Queues -> Slot]
  BY <1>1, Indices, ConfIs DEF Slot, TypeInv, TypeOK
<1>3. NewEntries(b) = 0 .. w
  BY NewEntriesIs
<1>4. /\ n \in NewEntries(b) /\ (how = "ok" => n + 1 \notin NewEntries(b))
      /\ how # "ok" => /\ n + 1 \in NewEntries(b) /\ NoPage(b, n)
                       /\ how \in DOMAIN PageAfter
      /\ nta' = [nta EXCEPT ![b] = (nta[b] + n) % d]
      /\ rfl_ntc' = [rfl_ntc EXCEPT ![b] = (rfl_ntc[b] + n) % d]
      /\ UNCHANGED <<conf, rxVars, ntc, head, rfl_ntu>>
  BY DEF Refill
<1>5. Off(d, head[b], nta[b]) + w < d
  BY <1>1, RoomToPost
<1>6. DescCount' = d /\ RxqDescs' = RxqDescs
  BY <1>4, ConfKept
<1> HIDE DEF d
<1>7. w \in 0 .. d - 1
  BY <1>2 DEF Off
<1>8. Off(d, head[b], nta[b]) \in 0 .. d - 1
  BY <1>2 DEF Off
<1> HIDE DEF w
<1>9. /\ n <= w /\ n \in Nat /\ (how = "ok" => n = w) /\ (how # "ok" => n < w)
  BY <1>2, <1>3, <1>4, <1>7
<1>10. Off(d, head[b], nta[b]) + n < d
  BY <1>2, <1>5, <1>7, <1>8, <1>9
<1>11. /\ nta'[b] = (nta[b] + n) % d /\ rfl_ntc'[b] = (rfl_ntc[b] + n) % d
       /\ \A c \in Queues : c # b => nta'[c] = nta[c] /\ rfl_ntc'[c] = rfl_ntc[c]
  BY <1>2, <1>4
<1>12. /\ nta'[b] \in 0 .. d - 1
       /\ Arc(d, head[b], nta'[b]) = Arc(d, head[b], nta[b]) \cup
                                       {s \in 0 .. d - 1 : Off(d, nta[b], s) < n}
       /\ \A s \in 0 .. d - 1 : Off(d, nta[b], s) < n => s \notin Arc(d, head[b], nta[b])
       /\ Off(d, head[b], nta'[b]) = Off(d, head[b], nta[b]) + n
  <2>1. PICK h \in 0 .. d - 1, a \in 0 .. d - 1 : h = head[b] /\ a = nta[b]
    BY <1>2
  <2>2. n \in Nat /\ Off(d, h, a) + n < d
    BY <1>9, <1>10, <2>1
  <2>3. PICK l : l = (a + n) % d
    OBVIOUS
  <2>4. /\ l \in 0 .. d - 1
        /\ Arc(d, h, l) = Arc(d, h, a) \cup {s \in 0 .. d - 1 : Off(d, a, s) < n}
        /\ \A s \in 0 .. d - 1 : Off(d, a, s) < n => s \notin Arc(d, h, a)
        /\ Off(d, h, l) = Off(d, h, a) + n
    BY <1>2, <2>2, <2>3, ArcGrow
  <2>5. nta'[b] = l
    BY <1>11, <2>1, <2>3
  <2> QED
    BY <2>1, <2>4, <2>5
<1>13. /\ rfl_ntc'[b] \in 0 .. d - 1
       /\ Arc(d, rfl_ntc'[b], rfl_ntu[b]) =
            {s \in Arc(d, rfl_ntc[b], rfl_ntu[b]) : ~ (Off(d, rfl_ntc[b], s) < n)}
       /\ Off(d, rfl_ntc'[b], rfl_ntu[b]) = w - n
  <2>1. n <= Off(d, rfl_ntc[b], rfl_ntu[b])
    BY <1>9 DEF w
  <2> QED
    BY <1>2, <1>9, <1>11, <2>1, ArcShrink DEF w
<1>14. /\ Posted(b)' = Posted(b) \cup {s \in Slot : Off(d, nta[b], s) < n}
       /\ \A s \in Slot : Off(d, nta[b], s) < n => s \notin Posted(b)
  BY <1>2, <1>4, <1>6, <1>12 DEF Posted, d
<1>15. Rf(b)' = {s \in Rf(b) : ~ (Off(d, rfl_ntc[b], s) < n)}
  BY <1>4, <1>6, <1>13 DEF Rf, d
<1>16. \A c \in Queues : c # b => Posted(c)' = Posted(c) /\ Rf(c)' = Rf(c)
  BY <1>4, <1>6, <1>11 DEF Posted, Rf, d
<1>17. Wr' = Wr
  BY <1>4, <1>6 DEF Wr, rxVars
<1> QED
  BY <1>2, <1>4, <1>7, <1>9, <1>10, <1>11, <1>12, <1>13, <1>14, <1>15, <1>16, <1>17 DEF d, w

(* The slots of the buffer queue and of the refill queue                   *)
LEMMA RefillSlots ==
  ASSUME IInv, NEW b \in Queues, NEW n \in 0 .. DescCount, NEW how \in {"ok"} \cup Faults,
         Refill(b, n, how)
  PROVE  /\ \A s \in Slot :
              bufd'[b][s] = IF Off(DescCount, nta[b], s) < n
                            THEN [id  |-> Entry(b, Off(DescCount, nta[b], s)).id,
                                  cur |-> bufs'[b][Entry(b, Off(DescCount, nta[b], s)).id].cur]
                            ELSE bufd[b][s]
         /\ \A c \in Queues : c # b => bufd'[c] = bufd[c] /\ ring'[c] = ring[c]
         /\ \A s \in Slot :
              ring'[b][s] = IF Off(DescCount, rfl_ntc[b], s) < n
                            THEN [ring[b][s] EXCEPT !.id = 0] ELSE ring[b][s]
<1> DEFINE d == DescCount
           e(s) == Entry(b, Off(d, nta[b], s)).id
<1>1. TypeInv
  BY DEF IInv
<1>2. /\ d \in Nat \ {0} /\ rfl_ntc[b] \in 0 .. d - 1 /\ nta[b] \in 0 .. d - 1
      /\ Slot = 0 .. d - 1
      /\ bufd \in [Queues -> [Slot -> [id : Slot, cur : Place]]]
      /\ ring \in [Queues -> [Slot -> [id : Slot, gen : {0, 1}]]]
  BY <1>1, Indices, ConfIs DEF Slot, TypeInv, TypeOK
<1>3. /\ bufd' = [bufd EXCEPT ![b] = [i \in Slot |->
                    IF (i - nta[b]) % d < n
                    THEN [id  |-> Entry(b, (i - nta[b]) % d).id,
                          cur |-> bufs'[b][Entry(b, (i - nta[b]) % d).id].cur]
                    ELSE bufd[b][i]]]
      /\ ring' = [ring EXCEPT ![b] = [i \in Slot |->
                    IF (i - rfl_ntc[b]) % d < n
                    THEN [ring[b][i] EXCEPT !.id = 0] ELSE ring[b][i]]]
  BY DEF Refill
<1> HIDE DEF d
<1>4. \A s \in Slot : (s - nta[b]) % d = Off(d, nta[b], s)
                       /\ (s - rfl_ntc[b]) % d = Off(d, rfl_ntc[b], s)
  BY <1>2, ModOff
<1>5. \A c \in Queues : c # b => bufd'[c] = bufd[c] /\ ring'[c] = ring[c]
  BY <1>2, <1>3
<1>6. ASSUME NEW s \in Slot
      PROVE  bufd'[b][s] = IF Off(d, nta[b], s) < n
                           THEN [id  |-> e(s), cur |-> bufs'[b][e(s)].cur]
                           ELSE bufd[b][s]
  <2>1. bufd'[b][s] = IF (s - nta[b]) % d < n
                      THEN [id  |-> Entry(b, (s - nta[b]) % d).id,
                            cur |-> bufs'[b][Entry(b, (s - nta[b]) % d).id].cur]
                      ELSE bufd[b][s]
    BY <1>2, <1>3
  <2> QED
    BY <1>4, <2>1
<1>7. ASSUME NEW s \in Slot
      PROVE  ring'[b][s] = IF Off(d, rfl_ntc[b], s) < n
                           THEN [ring[b][s] EXCEPT !.id = 0] ELSE ring[b][s]
  <2>1. ring'[b][s] = IF (s - rfl_ntc[b]) % d < n
                      THEN [ring[b][s] EXCEPT !.id = 0] ELSE ring[b][s]
    BY <1>2, <1>3
  <2> QED
    BY <1>4, <2>1
<1> QED
  BY <1>5, <1>6, <1>7 DEF d

(* Where the buffers of the refill queue go                                *)
LEMMA RefillMoves ==
  ASSUME IInv, NEW b \in Queues, NEW n \in 0 .. DescCount, NEW how \in {"ok"} \cup Faults,
         Refill(b, n, how), NEW j \in BufId
  PROVE  LET d == DescCount
         IN  /\ AtBq(b, j)' = AtBq(b, j) \cup
                  {s \in Slot : Off(d, nta[b], s) < n /\ Entry(b, Off(d, nta[b], s)).id = j}
             /\ AtRf(b, j)' = {s \in AtRf(b, j) : ~ (Off(d, rfl_ntc[b], s) < n)}
<1> DEFINE d == DescCount
           N == {s \in Slot : Off(d, nta[b], s) < n}
<1>1. /\ Posted(b)' = Posted(b) \cup N
      /\ \A s \in Slot : Off(d, nta[b], s) < n => s \notin Posted(b)
      /\ Rf(b)' = {s \in Rf(b) : ~ (Off(d, rfl_ntc[b], s) < n)}
  BY RefillIs
<1>2. /\ \A s \in N : bufd'[b][s].id = Entry(b, Off(d, nta[b], s)).id
      /\ \A s \in Slot \ N : bufd'[b][s] = bufd[b][s]
      /\ \A s \in Slot : ~ (Off(d, rfl_ntc[b], s) < n) => ring'[b][s] = ring[b][s]
  <2>1. /\ \A s \in Slot :
              bufd'[b][s] = IF Off(d, nta[b], s) < n
                            THEN [id  |-> Entry(b, Off(d, nta[b], s)).id,
                                  cur |-> bufs'[b][Entry(b, Off(d, nta[b], s)).id].cur]
                            ELSE bufd[b][s]
        /\ \A s \in Slot :
              ring'[b][s] = IF Off(d, rfl_ntc[b], s) < n
                            THEN [ring[b][s] EXCEPT !.id = 0] ELSE ring[b][s]
    BY RefillSlots
  <2> HIDE DEF d
  <2>2. ASSUME NEW s \in N PROVE bufd'[b][s].id = Entry(b, Off(d, nta[b], s)).id
    <3>1. PICK e : e = Entry(b, Off(d, nta[b], s)).id
      OBVIOUS
    <3>2. bufd'[b][s] = [id |-> e, cur |-> bufs'[b][e].cur]
      BY <2>1, <3>1
    <3>3. bufd'[b][s].id = e
      BY <3>2
    <3> QED
      BY <3>1, <3>3
  <2>3. \A s \in Slot \ N : bufd'[b][s] = bufd[b][s]
    BY <2>1
  <2>4. \A s \in Slot : ~ (Off(d, rfl_ntc[b], s) < n) => ring'[b][s] = ring[b][s]
    BY <2>1
  <2> QED
    BY <2>2, <2>3, <2>4
<1>3. Posted(b) \subseteq Slot /\ Rf(b) \subseteq Slot
  BY DEF Posted, Rf, Arc, Slot
<1>4. \A s \in Posted(b) : s \in Slot \ N
  BY <1>1, <1>3
<1> HIDE DEF d
<1>5. AtBq(b, j)' = AtBq(b, j) \cup {s \in N : Entry(b, Off(d, nta[b], s)).id = j}
  <2> HIDE DEF N
  <2>1. AtBq(b, j)' = {s \in Posted(b)' : bufd'[b][s].id = j}
    BY DEF AtBq
  <2>2. AtBq(b, j) = {s \in Posted(b) : bufd[b][s].id = j}
    BY DEF AtBq
  <2> QED
    BY <1>1, <1>2, <1>4, <2>1, <2>2
<1>6. AtRf(b, j)' = {s \in AtRf(b, j) : ~ (Off(d, rfl_ntc[b], s) < n)}
  <2>1. AtRf(b, j)' = {s \in Rf(b)' : ring'[b][s].id = j}
    BY DEF AtRf
  <2>2. AtRf(b, j) = {s \in Rf(b) : ring[b][s].id = j}
    BY DEF AtRf
  <2> QED
    BY <1>1, <1>2, <1>3, <2>1, <2>2
<1> QED
  BY <1>5, <1>6 DEF d

(* The slot an entry goes to is the only one.                              *)
LEMMA RefillPlace ==
  ASSUME IInv, NEW b \in Queues, NEW n \in Nat, NEW j \in BufId,
         n <= Off(DescCount, rfl_ntc[b], rfl_ntu[b])
  PROVE  LET d == DescCount
             N == {s \in Slot : Off(d, nta[b], s) < n /\ Entry(b, Off(d, nta[b], s)).id = j}
         IN  /\ \A t : AtRf(b, j) = {t} /\ t \in Rf(b) /\ Off(d, rfl_ntc[b], t) < n
                          => \E s \in Slot : N = {s}
             /\ (\A t \in AtRf(b, j) : ~ (Off(d, rfl_ntc[b], t) < n)) => N = {}
<1> DEFINE d == DescCount
           c == rfl_ntc[b]
           a == nta[b]
           N == {s \in Slot : Off(d, a, s) < n /\ Entry(b, Off(d, a, s)).id = j}
<1>1. TypeInv
  BY DEF IInv
<1>2. /\ d \in Nat \ {0} /\ c \in 0 .. d - 1 /\ a \in 0 .. d - 1 /\ rfl_ntu[b] \in 0 .. d - 1
      /\ Slot = 0 .. d - 1
  BY <1>1, Indices, ConfIs DEF Slot
<1>3. ASSUME NEW s \in N
      PROVE  \E t : /\ t \in AtRf(b, j) /\ AtRf(b, j) = {t} /\ Off(d, c, t) = Off(d, a, s)
                    /\ Off(d, c, t) < n
  <2>1. PICK k : k = Off(d, a, s)
    OBVIOUS
  <2>2. k \in Nat /\ k < n
    <3> HIDE DEF d, a
    <3> QED
      BY <1>2, <2>1 DEF Off
  <2>3. k < Off(DescCount, rfl_ntc[b], rfl_ntu[b])
    <3>1. PICK w : w = Off(DescCount, rfl_ntc[b], rfl_ntu[b])
      OBVIOUS
    <3>2. w \in Int
      BY <1>2, <3>1 DEF Off
    <3> QED
      BY <2>2, <3>1, <3>2
  <2>4. Entry(b, k).id = j
    BY <2>1
  <2>5. PICK t : t = (c + k) % d
    OBVIOUS
  <2>6. Off(d, c, t) = k /\ AtRf(b, j) = {t}
    BY <2>2, <2>3, <2>4, <2>5, EntryIs
  <2> QED
    BY <2>1, <2>2, <2>6
<1>4. ASSUME \A t \in AtRf(b, j) : ~ (Off(d, c, t) < n) PROVE N = {}
  BY <1>3, <1>4
<1>5. ASSUME NEW t, AtRf(b, j) = {t}, t \in Rf(b), Off(d, c, t) < n
      PROVE  \E s \in Slot : N = {s}
  <2>1. t \in 0 .. d - 1 /\ ring[b][t].id = j
    BY <1>5 DEF Rf, Arc, AtRf
  <2>2. PICK k : k = Off(d, c, t)
    OBVIOUS
  <2> HIDE DEF d, c, a
  <2>3. k \in 0 .. d - 1 /\ k < n /\ (c + k) % d = t
    BY <1>2, <1>5, <2>1, <2>2, OffForth
  <2>4. PICK s : s = (a + k) % d
    OBVIOUS
  <2>5. s \in 0 .. d - 1 /\ Off(d, a, s) = k
    BY <1>2, <2>3, <2>4, OffBack
  <2>6. Entry(b, k).id = j
    BY <2>1, <2>3 DEF Entry, c, d
  <2>7. s \in N
    BY <1>2, <2>3, <2>5, <2>6
  <2>8. ASSUME NEW r \in N PROVE r = s
    <3>1. Off(d, a, r) = k
      <4>1. PICK q : AtRf(b, j) = {q} /\ Off(d, c, q) = Off(d, a, r)
        BY <1>3
      <4>2. q = t
        BY <1>5, <4>1
      <4> QED
        BY <2>2, <4>1, <4>2
    <3>2. r \in 0 .. d - 1
      BY <1>2
    <3> QED
      BY <1>2, <2>5, <3>1, <3>2 DEF Off
  <2> HIDE DEF N
  <2> QED
    BY <1>2, <2>5, <2>7, <2>8
<1> QED
  BY <1>4, <1>5 DEF d, c, a, N

LEMMA RefillOwn ==
  ASSUME IInv, NEW b \in Queues, NEW n \in 0 .. DescCount, NEW how \in {"ok"} \cup Faults,
         Refill(b, n, how)
  PROVE  IdsInv' /\ OwnInv'
<1> DEFINE d == DescCount
           New(j) == {s \in Slot : Off(d, nta[b], s) < n /\ Entry(b, Off(d, nta[b], s)).id = j}
<1>1. TypeInv /\ IdsInv /\ OwnInv
  BY DEF IInv
<1>2. /\ conf' = conf /\ Queues' = Queues /\ BufId' = BufId /\ rxd' = rxd /\ lost' = lost
  BY ConfKept DEF Refill
<1>3. /\ n <= Off(d, rfl_ntc[b], rfl_ntu[b]) /\ n \in Nat
      /\ Posted(b)' = Posted(b) \cup {s \in Slot : Off(d, nta[b], s) < n}
      /\ Rf(b)' = {s \in Rf(b) : ~ (Off(d, rfl_ntc[b], s) < n)}
      /\ \A c \in Queues : c # b => Posted(c)' = Posted(c) /\ Rf(c)' = Rf(c)
      /\ Wr' = Wr
  <2>1. DescCount \in Nat
    BY <1>1, Indices, ConfIs
  <2>2. n \in Nat
    BY <2>1
  <2> QED
    BY <2>2, RefillIs
<1>4. \A c \in Queues : c # b => bufd'[c] = bufd[c] /\ ring'[c] = ring[c]
  BY RefillSlots
<1>5. ASSUME NEW c \in Queues, NEW j \in BufId
      PROVE  AtRx(c, j)' = AtRx(c, j) /\ AtLost(c, j)' = AtLost(c, j)
  BY <1>2, <1>3 DEF AtRx, AtLost
<1>6. ASSUME NEW c \in Queues, NEW j \in BufId, c # b
      PROVE  AtBq(c, j)' = AtBq(c, j) /\ AtRf(c, j)' = AtRf(c, j)
  BY <1>3, <1>4, <1>6 DEF AtBq, AtRf
<1>7. ASSUME NEW j \in BufId
      PROVE  /\ AtBq(b, j)' = AtBq(b, j) \cup New(j)
             /\ AtRf(b, j)' = {s \in AtRf(b, j) : ~ (Off(d, rfl_ntc[b], s) < n)}
  BY RefillMoves
<1>8. ASSUME NEW j \in BufId
      PROVE  /\ \A t : AtRf(b, j) = {t} /\ t \in Rf(b) /\ Off(d, rfl_ntc[b], t) < n
                          => \E s \in Slot : New(j) = {s}
             /\ (\A t \in AtRf(b, j) : ~ (Off(d, rfl_ntc[b], t) < n)) => New(j) = {}
  BY <1>3, RefillPlace
<1>9. \A c \in Queues, j \in BufId : OnePlace(c, j)
  BY <1>1 DEF OwnInv
<1> HIDE DEF d, New
<1>10. ASSUME NEW c \in Queues, NEW j \in BufId, c # b PROVE OnePlace(c, j)'
  <2>1. OnePlace(c, j)
    BY <1>9
  <2>2. Posted(c)' = Posted(c) /\ Rf(c)' = Rf(c) /\ Wr' = Wr
    BY <1>3, <1>10
  <2> QED
    BY <1>5, <1>6, <1>10, <2>1, <2>2 DEF OnePlace
<1>11. ASSUME NEW j \in BufId PROVE OnePlace(b, j)'
  <2>1. OnePlace(b, j)
    BY <1>9
  <2>2. /\ AtBq(b, j)' = AtBq(b, j) \cup New(j)
        /\ AtRf(b, j)' = {s \in AtRf(b, j) : ~ (Off(d, rfl_ntc[b], s) < n)}
        /\ AtRx(b, j)' = AtRx(b, j) /\ AtLost(b, j)' = AtLost(b, j)
    BY <1>5, <1>7
  <2>3. CASE AtRf(b, j) = {}
    <3>1. New(j) = {}
      BY <1>8, <2>3
    <3>2. AtBq(b, j)' = AtBq(b, j) /\ AtRf(b, j)' = {}
      BY <2>2, <2>3, <3>1
    <3>3. \A s \in Posted(b) : s \in Posted(b)'
      BY <1>3
    <3> QED
      BY <1>3, <2>1, <2>2, <2>3, <3>2, <3>3 DEF OnePlace
  <2>4. CASE AtRf(b, j) # {}
    <3>1. PICK t \in Rf(b) : AtRf(b, j) = {t}
      BY <2>1, <2>4 DEF OnePlace
    <3>2. AtBq(b, j) = {} /\ AtRx(b, j) = {} /\ AtLost(b, j) = {}
      BY <2>1, <2>4 DEF OnePlace
    <3>3. CASE Off(d, rfl_ntc[b], t) < n
      <4>1. PICK s \in Slot : New(j) = {s}
        BY <1>8, <3>1, <3>3
      <4>2. AtBq(b, j)' = {s} /\ AtRf(b, j)' = {}
        BY <2>2, <3>1, <3>2, <3>3, <4>1
      <4>3. s \in Posted(b)'
        BY <4>2 DEF AtBq
      <4> QED
        BY <2>2, <3>2, <4>2, <4>3 DEF OnePlace
    <3>4. CASE ~ (Off(d, rfl_ntc[b], t) < n)
      <4>1. New(j) = {}
        BY <1>8, <3>1, <3>4
      <4>2. AtBq(b, j)' = {} /\ AtRf(b, j)' = {t}
        BY <2>2, <3>1, <3>2, <3>4, <4>1
      <4>3. t \in Rf(b)'
        BY <4>2 DEF AtRf
      <4> QED
        BY <2>2, <3>2, <4>2, <4>3 DEF OnePlace
    <3> QED
      BY <3>3, <3>4
  <2> QED
    BY <2>3, <2>4
<1>12. OwnInv'
  <2> SUFFICES ASSUME NEW c \in Queues, NEW j \in BufId PROVE OnePlace(c, j)'
    BY <1>2 DEF OwnInv
  <2>1. CASE c # b
    BY <1>10, <2>1
  <2>2. CASE c = b
    <3>1. b \in Queues /\ j \in BufId
      OBVIOUS
    <3>2. OnePlace(b, j)'
      BY <1>11
    <3>3. /\ Posted(c)' = Posted(b)' /\ Rf(c)' = Rf(b)'
          /\ AtBq(c, j)' = AtBq(b, j)' /\ AtRf(c, j)' = AtRf(b, j)'
          /\ AtRx(c, j)' = AtRx(b, j)' /\ AtLost(c, j)' = AtLost(b, j)'
      BY <2>2 DEF Posted, Rf, AtBq, AtRf, AtRx, AtLost
    <3> QED
      BY <2>2, <3>2, <3>3 DEF OnePlace
  <2> QED
    BY <2>1, <2>2
<1>13. ASSUME NEW c \in Queues
       PROVE  /\ \A s \in Posted(c)' : bufd'[c][s].id \in BufId
              /\ \A s \in Rf(c)' : ring'[c][s].id \in BufId
  <2>1. CASE c # b
    BY <1>1, <1>3, <1>4, <2>1 DEF IdsInv
  <2>2. CASE c = b
    <3>1. ASSUME NEW s \in Posted(b)' PROVE bufd'[b][s].id \in BufId
      <4>1. s \in Slot
        <5>1. Posted(b) \subseteq Slot
          BY DEF Posted, Arc, Slot
        <5> QED
          BY <1>3, <5>1
      <4>2. CASE Off(d, nta[b], s) < n
        <5>1. PICK k : k = Off(d, nta[b], s)
          OBVIOUS
        <5>2. k \in Nat /\ k < Off(DescCount, rfl_ntc[b], rfl_ntu[b])
          <6>1. /\ d \in Nat \ {0} /\ rfl_ntc[b] \in 0 .. d - 1 /\ nta[b] \in 0 .. d - 1
                /\ rfl_ntu[b] \in 0 .. d - 1 /\ s \in 0 .. d - 1
            BY <1>1, <4>1, Indices, ConfIs DEF d, Slot
          <6>2. k \in Nat
            BY <5>1, <6>1 DEF Off
          <6>3. PICK w : w = Off(d, rfl_ntc[b], rfl_ntu[b])
            OBVIOUS
          <6>4. w \in Int
            BY <6>1, <6>3 DEF Off
          <6>5. k < w
            BY <1>3, <4>2, <5>1, <6>2, <6>3, <6>4
          <6> QED
            BY <6>2, <6>3, <6>5 DEF d
        <5>3. Entry(b, k).id \in BufId
          BY <5>2, EntryIs
        <5>4. PICK e : e = Entry(b, k).id
          OBVIOUS
        <5>5. bufd'[b][s] = [id |-> e, cur |-> bufs'[b][e].cur]
          BY <4>1, <4>2, <5>1, <5>4, RefillSlots DEF d
        <5> QED
          BY <5>3, <5>4, <5>5
      <4>3. CASE ~ (Off(d, nta[b], s) < n)
        <5>1. s \in Posted(b)
          BY <1>3, <4>3
        <5>2. bufd'[b][s] = bufd[b][s]
          BY <4>1, <4>3, RefillSlots DEF d
        <5> QED
          BY <1>1, <5>1, <5>2 DEF IdsInv
      <4> QED
        BY <4>2, <4>3
    <3>2. ASSUME NEW s \in Rf(b)' PROVE ring'[b][s].id \in BufId
      <4>1. s \in Rf(b) /\ ~ (Off(d, rfl_ntc[b], s) < n) /\ s \in Slot
        BY <1>3 DEF Rf, Arc, Slot
      <4>2. ring'[b][s] = ring[b][s]
        BY <4>1, RefillSlots DEF d
      <4> QED
        BY <1>1, <4>1, <4>2 DEF IdsInv
    <3>3. Posted(c)' = Posted(b)' /\ Rf(c)' = Rf(b)'
      BY <2>2 DEF Posted, Rf
    <3> QED
      BY <2>2, <3>1, <3>2, <3>3
  <2> QED
    BY <2>1, <2>2
<1>14. IdsInv'
  BY <1>1, <1>2, <1>3, <1>13 DEF IdsInv
<1> QED
  BY <1>12, <1>14

(* Rounding down is constant within a stride.                              *)
LEMMA AlignSame ==
  ASSUME conf \in Configs, NEW x \in 0 .. DescCount - 1, NEW y \in 0 .. DescCount - 1,
         AlignDown(x, PostStride) <= y, y < AlignDown(x, PostStride) + PostStride
  PROVE  AlignDown(y, PostStride) = AlignDown(x, PostStride)
<1>1. PICK s \in Nat \ {0} : s = PostStride
  BY ConfIs
<1>2. PICK p \in Int, q \in Int : p = x \div s /\ q = y \div s
  <2>1. x \in Int /\ y \in Int
    BY ConfIs
  <2> QED
    BY <1>1, <2>1
<1>3. AlignDown(x, PostStride) = p * s /\ AlignDown(y, PostStride) = q * s
  BY <1>1, <1>2 DEF AlignDown
<1>4. y \in Nat
  BY ConfIs
<1>5. q * s <= y /\ y < q * s + s
  <2>1. y = s * (y \div s) + (y % s) /\ y % s \in 0 .. s - 1
    BY <1>1, <1>4
  <2>2. PICK r \in 0 .. s - 1 : r = y % s
    BY <2>1
  <2>3. y = q * s + r
    <3>1. s * q = q * s
      BY <1>1, <1>2
    <3> QED
      BY <1>2, <2>1, <2>2, <3>1
  <2>4. PICK z \in Int : z = q * s
    BY <1>1, <1>2
  <2> QED
    BY <1>1, <2>2, <2>3, <2>4
<1>6. p * s <= y /\ y < p * s + s
  BY <1>1, <1>3
<1>7. p = q
  <2>1. CASE p > q
    <3>1. PICK e \in Nat : p = q + 1 + e
      <4>1. p - q - 1 \in Nat /\ p = q + 1 + (p - q - 1)
        BY <1>2, <2>1
      <4> QED
        BY <4>1
    <3>2. p * s = q * s + s + e * s
      BY <1>1, <1>2, <3>1
    <3>3. PICK z \in Int, v \in Nat : z = q * s /\ v = e * s
      BY <1>1, <1>2, <3>1
    <3>4. z + s + v <= y /\ y < z + s
      BY <1>5, <1>6, <3>2, <3>3
    <3> QED
      BY <1>1, <1>4, <3>3, <3>4
  <2>2. CASE q > p
    <3>1. PICK e \in Nat : q = p + 1 + e
      <4>1. q - p - 1 \in Nat /\ q = p + 1 + (q - p - 1)
        BY <1>2, <2>2
      <4> QED
        BY <4>1
    <3>2. q * s = p * s + s + e * s
      BY <1>1, <1>2, <3>1
    <3>3. PICK z \in Int, v \in Nat : z = p * s /\ v = e * s
      BY <1>1, <1>2, <3>1
    <3>4. z + s + v <= y /\ y < z + s
      BY <1>5, <1>6, <3>2, <3>3
    <3> QED
      BY <1>1, <1>4, <3>3, <3>4
  <2> QED
    BY <1>2, <2>1, <2>2
<1> QED
  BY <1>3, <1>7

(* From a tail that is next_to_alloc rounded down comes another one.       *)
LEMMA TailIs ==
  ASSUME conf \in Configs, NEW b, NEW y \in 0 .. DescCount - 1,
         NEW new \in 0 .. DescCount - 1, ntu[b] = AlignDown(y, PostStride)
  PROVE  /\ Tail(b, new) = AlignDown(new, PostStride)
         /\ Tail(b, new) # ntu[b] => Off(DescCount, ntu[b], new) >= PostStride
<1>1. PICK s \in Nat \ {0}, d \in Nat \ {0}, u \in Int :
        s = PostStride /\ d = DescCount /\ u = ntu[b]
  BY ConfIs, AlignIs
<1>2. u + s <= d /\ u \in 0 .. d - 1 /\ new \in 0 .. d - 1
  BY <1>1, AlignIs
<1>3. Tail(b, new) = IF Off(d, u, new) >= s THEN AlignDown(new, PostStride) ELSE u
  BY <1>1, <1>2 DEF Tail, Off
<1>4. CASE Off(d, u, new) >= s
  BY <1>1, <1>3, <1>4
<1>5. CASE ~ (Off(d, u, new) >= s)
  <2>1. u <= new /\ new < u + s
    BY <1>1, <1>2, <1>5 DEF Off
  <2>2. AlignDown(new, PostStride) = AlignDown(y, PostStride)
    BY <1>1, <2>1, AlignSame
  <2> QED
    BY <1>1, <1>3, <1>5, <2>2
<1> QED
  BY <1>4, <1>5

LEMMA RefillTail ==
  ASSUME IInv, NEW b \in Queues, NEW n \in 0 .. DescCount, NEW how \in {"ok"} \cup Faults,
         Refill(b, n, how)
  PROVE  TailInv' /\ ntu' \in [Queues -> Slot] /\ nta' \in [Queues -> Slot]
<1>1. TypeInv /\ TailInv
  BY DEF IInv
<1>2. /\ conf \in Configs /\ conf' = conf /\ head' = head
      /\ nta \in [Queues -> Slot] /\ ntu \in [Queues -> Slot]
      /\ nta' = [nta EXCEPT ![b] = (nta[b] + n) % DescCount]
      /\ ntu' = IF n = 0 THEN ntu ELSE [ntu EXCEPT ![b] = Tail(b, (nta[b] + n) % DescCount)]
  BY <1>1 DEF Refill, TypeInv, TypeOK
<1>3. /\ DescCount' = DescCount /\ PostStride' = PostStride /\ Queues' = Queues
      /\ FirstTail' = FirstTail
  BY <1>2, ConfKept
<1>4. PICK d \in Nat \ {0} : d = DescCount
  BY <1>2, ConfIs
<1>5. Slot = 0 .. d - 1 /\ n \in Nat
  BY <1>4 DEF Slot
<1>6. PICK a \in 0 .. d - 1, h \in 0 .. d - 1, u \in 0 .. d - 1 :
        a = nta[b] /\ h = head[b] /\ u = ntu[b]
  BY <1>1, <1>4, Indices
<1>7. /\ nta'[b] \in Slot /\ nta'[b] = (a + n) % d
      /\ Off(d, h, a) + n < d
      /\ Off(d, h, nta'[b]) = Off(d, h, a) + n
  BY <1>4, <1>6, RefillIs
<1>8. PICK new \in 0 .. d - 1 : new = nta'[b]
  BY <1>5, <1>7
<1>9. TailOk(a, u) /\ Off(d, h, u) <= Off(d, h, a)
  BY <1>1, <1>4, <1>6 DEF TailInv
<1>10. ASSUME n # 0
       PROVE  /\ Tail(b, new) = AlignDown(new, PostStride)
              /\ Tail(b, new) # u => Off(d, u, new) >= PostStride
  <2>1. CASE u = AlignDown(a, PostStride)
    BY <1>2, <1>4, <1>6, <2>1, TailIs
  <2>2. CASE a = d - 1 /\ u = FirstTail
    <3>1. PICK f \in Nat \ {0}, s \in Nat \ {0} :
            f = Stride /\ s = PostStride /\ s <= f /\ u + f = d
      BY <1>2, <1>4, <2>2, ConfIs, FirstIs
    <3>2. h <= u
      BY <1>9, <2>2 DEF Off
    <3>3. Off(d, h, a) = d - 1 - h
      BY <2>2 DEF Off
    <3>4. Off(d, h, new) = d - 1 - h + n /\ d - 1 - h + n < d
      BY <1>7, <1>8, <3>3
    <3>5. new = n - 1
      BY <1>5, <1>10, <3>4 DEF Off
    <3>6. Off(d, u, new) >= s
      BY <1>5, <1>10, <3>1, <3>2, <3>4, <3>5 DEF Off
    <3> QED
      BY <1>4, <1>6, <3>1, <3>6 DEF Tail, Off
  <2> QED
    BY <1>4, <1>9, <2>1, <2>2 DEF TailOk
<1>11. CASE n = 0
  <2>1. new = a
    <3>1. a % d = a
      BY <1>6
    <3> QED
      BY <1>6, <1>7, <1>8, <1>11
  <2>2. nta' = nta /\ ntu' = ntu
    BY <1>2, <1>6, <1>8, <1>11, <2>1
  <2> QED
    BY <1>1, <1>2, <1>3, <2>2 DEF TailInv, TailOk, AlignDown
<1>12. CASE n # 0
  <2>1. ntu' = [ntu EXCEPT ![b] = Tail(b, new)]
    BY <1>2, <1>4, <1>6, <1>7, <1>8, <1>12
  <2>2. ntu'[b] = AlignDown(new, PostStride) /\ \A c \in Queues : c # b => ntu'[c] = ntu[c]
    BY <1>2, <1>10, <1>12, <2>1
  <2>3. AlignDown(new, PostStride) \in 0 .. d - 1 /\ AlignDown(new, PostStride) <= new /\ new - AlignDown(new, PostStride) < PostStride
    BY <1>2, <1>4, AlignIs
  <2>4. PICK v \in 0 .. d - 1 : v = AlignDown(new, PostStride)
    BY <2>3
  <2>5. Off(d, h, v) <= Off(d, h, new)
    <3>1. CASE v = u
      BY <1>5, <1>7, <1>8, <1>9, <3>1 DEF Off
    <3>2. CASE v # u
      <4>1. PICK s \in Nat \ {0} : s = PostStride
        BY <1>2, ConfIs
      <4>2. Off(d, u, new) >= s /\ v <= new /\ new - v < s
        BY <1>10, <1>12, <2>3, <2>4, <3>2, <4>1
      <4>3. Off(d, h, new) = Off(d, h, a) + n /\ Off(d, h, a) + n < d
        BY <1>7, <1>8
      <4>4. Off(d, h, new) >= Off(d, u, new)
        BY <1>5, <1>9, <4>3 DEF Off
      <4> QED
        BY <4>1, <4>2, <4>4 DEF Off
    <3> QED
      BY <3>1, <3>2
  <2>6. ASSUME NEW c \in Queues
        PROVE  /\ TailOk(nta'[c], ntu'[c])
               /\ Off(d, head[c], ntu'[c]) <= Off(d, head[c], nta'[c])
    <3>1. CASE c = b
      BY <1>6, <1>8, <2>2, <2>4, <2>5, <3>1 DEF TailOk
    <3>2. CASE c # b
      <4>1. nta'[c] = nta[c] /\ ntu'[c] = ntu[c]
        BY <1>2, <2>2, <3>2
      <4> QED
        BY <1>1, <1>4, <4>1 DEF TailInv
    <3> QED
      BY <3>1, <3>2
  <2>7. TailInv'
    BY <1>2, <1>3, <1>4, <2>6 DEF TailInv, TailOk, AlignDown
  <2>8. ntu' \in [Queues -> Slot]
    BY <1>2, <1>5, <1>10, <1>12, <2>1, <2>3
  <2>9. nta' \in [Queues -> Slot]
    BY <1>2, <1>7
  <2> QED
    BY <2>7, <2>8, <2>9
<1>13. nta' \in [Queues -> Slot]
  BY <1>2, <1>7
<1> QED
  BY <1>2, <1>11, <1>12, <1>13

LEMMA RefillGen ==
  ASSUME IInv, NEW b \in Queues, NEW n \in 0 .. DescCount, NEW how \in {"ok"} \cup Faults,
         Refill(b, n, how)
  PROVE  GenInv' /\ rfl_gen_chk' \in [Queues -> {0, 1}] /\ rfl_ntc' \in [Queues -> Slot]
<1>1. TypeInv /\ GenInv
  BY DEF IInv
<1>2. /\ conf \in Configs /\ conf' = conf
      /\ rfl_ntc \in [Queues -> Slot] /\ rfl_gen_chk \in [Queues -> {0, 1}]
      /\ ring \in [Queues -> [Slot -> [id : Slot, gen : {0, 1}]]]
      /\ rfl_ntc' = [rfl_ntc EXCEPT ![b] = (rfl_ntc[b] + n) % DescCount]
      /\ rfl_gen_chk' = IF rfl_ntc[b] + n < DescCount THEN rfl_gen_chk
                        ELSE [rfl_gen_chk EXCEPT ![b] = 1 - rfl_gen_chk[b]]
      /\ UNCHANGED <<rxd, hw_ntw, hw_gen, ntc, gen_chk, rfl_ntu, rfl_gen>>
  BY <1>1 DEF Refill, rxVars, TypeInv, TypeOK
<1>3. /\ Slot' = Slot /\ RxSlot' = RxSlot /\ Queues' = Queues
  BY <1>2, ConfKept
<1>4. PICK d \in Nat \ {0} : d = DescCount
  BY <1>2, ConfIs
<1>5. PICK c \in 0 .. d - 1, u \in 0 .. d - 1, g \in {0, 1}, h \in {0, 1} :
        c = rfl_ntc[b] /\ u = rfl_ntu[b] /\ g = rfl_gen[b] /\ h = rfl_gen_chk[b]
  BY <1>1, <1>4, Indices, BitsAre
<1>6. n \in Nat /\ n <= Off(d, c, u) /\ Off(d, c, u) \in 0 .. d - 1
  <2>1. n \in Nat
    BY <1>4
  <2>2. n <= Off(d, c, u)
    BY <1>4, <1>5, RefillIs
  <2> QED
    BY <1>5, <2>1, <2>2 DEF Off
<1>7. PICK e \in 0 .. d - 1 : e = (c + n) % d /\ e = IF c + n < d THEN c + n ELSE c + n - d
  <2>1. n \in 0 .. d
    BY <1>6
  <2>2. (c + n) % d = IF c + n < d THEN c + n ELSE c + n - d
    BY <1>5, <2>1, ModUp
  <2> QED
    BY <1>5, <1>6, <2>2
<1>8. rfl_ntc'[b] = e /\ \A q \in Queues : q # b => rfl_ntc'[q] = rfl_ntc[q]
  BY <1>2, <1>4, <1>5, <1>7
<1>9. /\ rfl_gen_chk'[b] = IF c + n < d THEN h ELSE 1 - h
      /\ \A q \in Queues : q # b => rfl_gen_chk'[q] = rfl_gen_chk[q]
  BY <1>2, <1>4, <1>5
<1>10. g = IF c <= u THEN h ELSE 1 - h
  BY <1>1, <1>5 DEF GenInv
<1>11. g = IF e <= u THEN rfl_gen_chk'[b] ELSE 1 - rfl_gen_chk'[b]
  BY <1>5, <1>6, <1>7, <1>9, <1>10 DEF Off
<1>12. ASSUME NEW q \in Queues
       PROVE  /\ \A s \in Slot : ring'[q][s].gen = ring[q][s].gen
              /\ rfl_gen[q] = IF rfl_ntc'[q] <= rfl_ntu[q] THEN rfl_gen_chk'[q]
                                                           ELSE 1 - rfl_gen_chk'[q]
  <2>1. CASE q = b
    <3>1. ASSUME NEW s \in Slot PROVE ring'[b][s].gen = ring[b][s].gen
      <4>1. ring[b][s] \in [id : Slot, gen : {0, 1}]
        BY <1>2
      <4>2. PICK r : r = ring[b][s]
        OBVIOUS
      <4>3. ring'[b][s] = r \/ ring'[b][s] = [r EXCEPT !.id = 0]
        BY <4>2, RefillSlots
      <4> QED
        BY <4>1, <4>2, <4>3
    <3> QED
      BY <1>5, <1>8, <1>11, <2>1, <3>1
  <2>2. CASE q # b
    <3>1. ring'[q] = ring[q]
      BY <2>2, RefillSlots
    <3> QED
      BY <1>1, <1>8, <1>9, <2>2, <3>1 DEF GenInv
  <2> QED
    BY <2>1, <2>2
<1>13. GenInv'
  BY <1>1, <1>2, <1>3, <1>12 DEF GenInv
<1>14. rfl_gen_chk' \in [Queues -> {0, 1}]
  <2>1. 1 - rfl_gen_chk[b] \in {0, 1}
    BY <1>5
  <2> QED
    BY <1>2, <2>1
<1>15. rfl_ntc' \in [Queues -> Slot]
  <2>1. e \in Slot
    BY <1>4 DEF Slot
  <2> QED
    BY <1>2, <1>4, <1>5, <1>7, <2>1
<1> QED
  BY <1>13, <1>14, <1>15

(* The buffers of the refill queue get the pages they have not             *)
LEMMA RefillBuf ==
  ASSUME IInv, NEW b \in Queues, NEW n \in 0 .. DescCount, NEW how \in {"ok"} \cup Faults,
         Refill(b, n, how), NEW i \in BufId
  PROVE  /\ Fits(b, bufs'[b][i])
         /\ AtRf(b, i) = {} => bufs'[b][i] = bufs[b][i]
         /\ PageNow(b, i) # "null" => bufs'[b][i] = bufs[b][i]
         /\ PageNow(b, i) = "null" /\ (\E k \in 0 .. n - 1 : Entry(b, k).id = i) =>
              bufs'[b][i].page[PageOf(b, bufs'[b][i].cur)] = "ok"
         /\ \A c \in Queues : c # b => bufs'[c] = bufs[c]
<1>1. TypeInv /\ FreeInv
  BY DEF IInv
<1>2. PICK r \in BufRec : r = bufs[b][i]
  BY <1>1 DEF TypeInv
<1>3. Fits(b, r)
  BY <1>1, <1>2 DEF FreeInv, Fits, PageNow
<1>4. bufs \in [Queues -> [BufId -> BufRec]]
  BY <1>1 DEF TypeInv
<1>5. /\ bufs' = RefillPages(b, n, how)
      /\ how # "ok" => NoPage(b, n) /\ how \in DOMAIN PageAfter
  BY DEF Refill
<1>6. \A c \in Queues : c # b => bufs'[c] = bufs[c]
  BY <1>4, <1>5 DEF RefillPages
<1> DEFINE A == \E k \in 0 .. n - 1 : Entry(b, k).id = i /\ NoPage(b, k)
           B == how # "ok" /\ Entry(b, n).id = i
<1>7. bufs'[b][i] = IF A THEN AllocPage(b, r, "ok")
                    ELSE IF B THEN AllocPage(b, r, how) ELSE r
  BY <1>2, <1>4, <1>5 DEF RefillPages
<1>8. \A k : Entry(b, k).id = i => (NoPage(b, k) <=> PageNow(b, i) = "null")
  BY DEF NoPage, PageNow
<1>9. A => PageNow(b, i) = "null" /\ \E k \in 0 .. n - 1 : Entry(b, k).id = i
  BY <1>8
<1>10. B => PageNow(b, i) = "null"
  BY <1>5, <1>8
<1>11. A \/ B => AtRf(b, i) # {}
  <2>1. /\ DescCount \in Nat \ {0} /\ rfl_ntc[b] \in 0 .. DescCount - 1
        /\ rfl_ntu[b] \in 0 .. DescCount - 1
    BY <1>1, Indices, ConfIs
  <2>2. PICK w \in Int : w = Off(DescCount, rfl_ntc[b], rfl_ntu[b])
    BY <2>1 DEF Off
  <2>3. n \in Nat /\ n <= w /\ (how # "ok" => n < w)
    BY <2>1, <2>2, RefillIs
  <2>4. ASSUME NEW k \in Nat, k < w, Entry(b, k).id = i PROVE AtRf(b, i) # {}
    <3>1. AtRf(b, Entry(b, k).id) # {}
      BY <2>2, <2>4, EntryIs
    <3> QED
      BY <2>4, <3>1
  <2>5. CASE A
    <3>1. PICK k \in 0 .. n - 1 : Entry(b, k).id = i
      BY <2>5
    <3>2. k \in Nat /\ k < w
      BY <2>3
    <3> QED
      BY <2>4, <3>1, <3>2
  <2>6. CASE B
    BY <2>3, <2>4, <2>6
  <2> QED
    BY <2>5, <2>6
<1>12. PageNow(b, i) = "null" /\ (\E k \in 0 .. n - 1 : Entry(b, k).id = i) => A
  BY <1>8
<1>13. PageNow(b, i) = r.page[PageOf(b, r.cur)]
  BY <1>2 DEF PageNow
<1> HIDE DEF A, B
<1>14. ASSUME NEW q \in DOMAIN PageAfter, q \in {"ok"} \cup Faults, NEW x,
              x = AllocPage(b, r, q), PageNow(b, i) = "null"
       PROVE  /\ Fits(b, x)
              /\ q = "ok" => x.page[PageOf(b, x.cur)] = "ok"
  <2>1. Alloced(b, r, q, x)
    BY <1>14, AllocIs
  <2>2. /\ x \in BufRec /\ x.held = r.held
        /\ x.cur = IF q = "ok" /\ ~ Big(b) THEN 0 ELSE r.cur
        /\ x.page[PageOf(b, x.cur)] = PageAfter[q]
        /\ \A m \in 1 .. 2 : x.page[m] = "freed" => q = "nomap" \/ r.page[m] = "freed"
    BY <2>1 DEF Alloced
  <2>3. ~ Big(b) => r.held[1] = 0 /\ r.held[2] = 0
    BY <1>3, <1>13, <1>14 DEF Fits
  <2>4. r.held[r.cur + 1] = 0 /\ r.cur \in {0, 1}
    BY <1>3 DEF Fits, BufRec, Place
  <2>5. x.held[x.cur + 1] = 0
    <3>1. CASE Big(b)
      BY <2>2, <2>4, <3>1
    <3>2. CASE ~ Big(b)
      <4>1. x.cur + 1 \in {1, 2}
        BY <2>2, <2>4
      <4> QED
        BY <2>2, <2>3, <3>2, <4>1
    <3> QED
      BY <3>1, <3>2
  <2>6. "nomap" \notin Faults => \A m \in 1 .. 2 : x.page[m] # "freed"
    <3>1. "nomap" \notin Faults => q # "nomap"
      BY <1>14
    <3> QED
      BY <1>3, <2>2, <3>1 DEF Fits
  <2>7. Fits(b, x)
    BY <2>2, <2>3, <2>5, <2>6 DEF Fits
  <2>8. q = "ok" => x.page[PageOf(b, x.cur)] = "ok"
    BY <2>2 DEF PageAfter
  <2> QED
    BY <2>7, <2>8
<1>15. PICK x : x = bufs'[b][i]
  OBVIOUS
<1>16. CASE A
  <2>1. "ok" \in DOMAIN PageAfter
    BY DEF PageAfter
  <2>2. x = AllocPage(b, r, "ok") /\ PageNow(b, i) = "null"
    BY <1>7, <1>9, <1>15, <1>16
  <2>3. Fits(b, x) /\ x.page[PageOf(b, x.cur)] = "ok"
    BY <1>14, <2>1, <2>2
  <2> QED
    BY <1>6, <1>11, <1>15, <1>16, <2>2, <2>3
<1>17. CASE ~ A /\ B
  <2>1. how \in DOMAIN PageAfter
    BY <1>5, <1>17 DEF B
  <2>2. x = AllocPage(b, r, how) /\ PageNow(b, i) = "null"
    BY <1>7, <1>10, <1>15, <1>17
  <2>3. Fits(b, x)
    BY <1>14, <2>1, <2>2
  <2> QED
    BY <1>6, <1>11, <1>12, <1>15, <1>17, <2>2, <2>3
<1>18. CASE ~ A /\ ~ B
  <2>1. x = r
    BY <1>7, <1>15, <1>18
  <2> QED
    BY <1>2, <1>3, <1>6, <1>12, <1>15, <1>18, <2>1
<1> QED
  BY <1>16, <1>17, <1>18

LEMMA RefillFree ==
  ASSUME IInv, NEW b \in Queues, NEW n \in 0 .. DescCount, NEW how \in {"ok"} \cup Faults,
         Refill(b, n, how)
  PROVE  FreeInv' /\ bufs' \in [Queues -> [BufId -> BufRec]]
<1>1. TypeInv /\ FreeInv /\ IdsInv /\ OwnInv
  BY DEF IInv
<1>2. /\ Queues' = Queues /\ BufId' = BufId /\ conf' = conf /\ rxd' = rxd
      /\ \A c \in Queues : Big(c)' = Big(c)
  BY ConfKept DEF Refill
<1>3. /\ Wr' = Wr
      /\ Posted(b)' = Posted(b) \cup {s \in Slot : Off(DescCount, nta[b], s) < n}
      /\ \A s \in Slot : Off(DescCount, nta[b], s) < n => s \notin Posted(b)
      /\ \A c \in Queues : c # b => Posted(c)' = Posted(c)
  BY RefillIs
<1>4. bufs \in [Queues -> [BufId -> BufRec]] /\ bufs' = RefillPages(b, n, how)
  BY <1>1 DEF TypeInv, Refill
<1>5. \A i \in BufId :
         /\ Fits(b, bufs'[b][i])
         /\ AtRf(b, i) = {} => bufs'[b][i] = bufs[b][i]
         /\ PageNow(b, i) # "null" => bufs'[b][i] = bufs[b][i]
         /\ PageNow(b, i) = "null" /\ (\E k \in 0 .. n - 1 : Entry(b, k).id = i) =>
              bufs'[b][i].page[PageOf(b, bufs'[b][i].cur)] = "ok"
  BY RefillBuf
<1>6. \A c \in Queues : c # b => bufs'[c] = bufs[c]
  <2>1. 0 \in BufId
    BY <1>1, Indices, ConfIs DEF BufId
  <2> QED
    BY <2>1, RefillBuf
<1>7. bufs' \in [Queues -> [BufId -> BufRec]]
  <2>1. PICK f : f = [i \in BufId |->
     IF \E k \in 0 .. n - 1 : Entry(b, k).id = i /\ NoPage(b, k)
     THEN AllocPage(b, bufs[b][i], "ok")
     ELSE IF how # "ok" /\ Entry(b, n).id = i THEN AllocPage(b, bufs[b][i], how)
     ELSE bufs[b][i]]
    OBVIOUS
  <2>2. bufs' = [bufs EXCEPT ![b] = f]
    BY <1>4, <2>1 DEF RefillPages
  <2>3. bufs'[b] = f
    BY <1>4, <2>2
  <2>4. \A i \in BufId : f[i] \in BufRec
    BY <1>5, <2>3 DEF Fits
  <2>5. f \in [BufId -> BufRec]
    BY <2>1, <2>4
  <2> QED
    BY <1>4, <2>2, <2>5
<1>8. ASSUME NEW c, NEW j
      PROVE  PageNow(c, j)' = bufs'[c][j].page[PageOf(c, bufs'[c][j].cur)]
  BY <1>2 DEF PageNow, PageOf, Big
<1>9. ASSUME NEW c, NEW j, bufs'[c][j] = bufs[c][j] PROVE PageNow(c, j)' = PageNow(c, j)
  BY <1>8, <1>9 DEF PageNow
<1>10. ASSUME NEW c \in Queues, NEW j \in BufId
       PROVE  /\ bufs'[c][j].held[bufs'[c][j].cur + 1] = 0
              /\ ~ Big(c) /\ PageNow(c, j)' = "null" =>
                   bufs'[c][j].held[1] = 0 /\ bufs'[c][j].held[2] = 0
              /\ "nomap" \notin Faults => \A m \in 1 .. 2 : bufs'[c][j].page[m] # "freed"
  <2>1. CASE c = b
    BY <1>5, <1>8, <2>1 DEF Fits
  <2>2. CASE c # b
    <3>1. bufs'[c][j] = bufs[c][j]
      BY <1>6, <2>2
    <3>2. PageNow(c, j)' = PageNow(c, j)
      BY <1>9, <3>1
    <3> QED
      BY <1>1, <3>1, <3>2 DEF FreeInv
  <2> QED
    BY <2>1, <2>2
<1>11. ASSUME NEW c \in Queues, NEW s \in Posted(c)
       PROVE  /\ bufd'[c][s].cur = bufs'[c][bufd'[c][s].id].cur
              /\ PageNow(c, bufd[c][s].id)' # "null"
  <2>1. PICK j \in BufId : j = bufd[c][s].id
    BY <1>1 DEF IdsInv
  <2>2. bufd[c][s].cur = bufs[c][j].cur /\ PageNow(c, j) # "null"
    BY <1>1, <2>1 DEF FreeInv
  <2>3. bufd'[c][s] = bufd[c][s]
    <3>1. CASE c # b
      BY <3>1, RefillSlots
    <3>2. CASE c = b
      <4>1. s \in Slot
        BY DEF Posted, Arc, Slot
      <4>2. ~ (Off(DescCount, nta[b], s) < n)
        BY <1>3, <3>2, <4>1
      <4>3. bufd'[b][s] = bufd[b][s]
        BY <4>1, <4>2, RefillSlots
      <4> QED
        BY <3>2, <4>3
    <3> QED
      BY <3>1, <3>2
  <2>4. bufs'[c][j] = bufs[c][j]
    <3>1. CASE c # b
      BY <1>6, <3>1
    <3>2. CASE c = b
      BY <1>5, <2>2, <3>2
    <3> QED
      BY <3>1, <3>2
  <2>5. PageNow(c, bufd[c][s].id)' = PageNow(c, j)'
    BY <2>1, <2>3
  <2> QED
    BY <1>9, <2>1, <2>2, <2>3, <2>4, <2>5
<1>12. ASSUME NEW s \in Slot, Off(DescCount, nta[b], s) < n
       PROVE  /\ bufd'[b][s].cur = bufs'[b][bufd'[b][s].id].cur
              /\ PageNow(b, bufd[b][s].id)' # "null"
  <2>1. PICK k : k = Off(DescCount, nta[b], s)
    OBVIOUS
  <2>2. PICK e : e = Entry(b, k).id
    OBVIOUS
  <2>3. bufd'[b][s] = [id |-> e, cur |-> bufs'[b][e].cur]
    BY <1>12, <2>1, <2>2, RefillSlots
  <2>4. k \in 0 .. n - 1 /\ e \in BufId
    <3>1. /\ DescCount \in Nat \ {0} /\ rfl_ntc[b] \in 0 .. DescCount - 1
          /\ rfl_ntu[b] \in 0 .. DescCount - 1 /\ nta[b] \in 0 .. DescCount - 1
          /\ s \in 0 .. DescCount - 1
      BY <1>1, Indices, ConfIs DEF Slot
    <3>2. PICK w \in Int : w = Off(DescCount, rfl_ntc[b], rfl_ntu[b])
      BY <3>1 DEF Off
    <3>3. n \in Nat /\ n <= w
      BY <3>1, <3>2, RefillIs
    <3>4. k \in Nat /\ k < n
      BY <1>12, <2>1, <3>1 DEF Off
    <3>5. k < w
      BY <3>3, <3>4
    <3>6. Entry(b, k).id \in BufId
      BY <3>2, <3>4, <3>5, EntryIs
    <3> QED
      BY <2>2, <3>3, <3>4, <3>6
  <2>5. bufd'[b][s].id = e /\ bufd'[b][s].cur = bufs'[b][e].cur
    BY <2>3
  <2>6. PageNow(b, e)' # "null"
    <3>1. CASE PageNow(b, e) = "null"
      <4>1. bufs'[b][e].page[PageOf(b, bufs'[b][e].cur)] = "ok"
        BY <1>5, <2>2, <2>4, <3>1
      <4> QED
        BY <1>8, <4>1
    <3>2. CASE PageNow(b, e) # "null"
      <4>1. bufs'[b][e] = bufs[b][e]
        BY <1>5, <2>4, <3>2
      <4> QED
        BY <1>9, <3>2, <4>1
    <3> QED
      BY <3>1, <3>2
  <2>7. PageNow(b, bufd[b][s].id)' = PageNow(b, e)'
    BY <2>5
  <2> QED
    BY <2>5, <2>6, <2>7
<1>13. ASSUME NEW s \in Wr PROVE PageNow(rxd[s].bufq, rxd[s].id)' # "null"
  <2>1. PICK c \in Queues, j \in BufId : c = rxd[s].bufq /\ j = rxd[s].id
    BY <1>1 DEF IdsInv
  <2>2. PageNow(c, j) # "null"
    BY <1>1, <2>1 DEF FreeInv
  <2>3. bufs'[c][j] = bufs[c][j]
    <3>1. CASE c # b
      BY <1>6, <3>1
    <3>2. CASE c = b
      BY <1>5, <2>2, <3>2
    <3> QED
      BY <3>1, <3>2
  <2>4. PageNow(rxd[s].bufq, rxd[s].id)' = PageNow(c, j)'
    BY <1>2, <2>1
  <2> QED
    BY <1>9, <2>2, <2>3, <2>4
<1>14. \A c \in Queues : \A s \in Posted(c)' :
         /\ bufd'[c][s].cur = bufs'[c][bufd'[c][s].id].cur
         /\ PageNow(c, bufd[c][s].id)' # "null"
  <2> SUFFICES ASSUME NEW c \in Queues, NEW s \in Posted(c)'
               PROVE  /\ bufd'[c][s].cur = bufs'[c][bufd'[c][s].id].cur
                      /\ PageNow(c, bufd[c][s].id)' # "null"
    OBVIOUS
  <2>1. CASE s \in Posted(c)
    BY <1>11, <2>1
  <2>2. CASE s \notin Posted(c)
    <3>1. c = b
      BY <1>3, <2>2
    <3>2. Posted(c)' = Posted(b)'
      BY <3>1 DEF Posted
    <3>3. s \in Slot /\ Off(DescCount, nta[b], s) < n
      BY <1>3, <2>2, <3>1, <3>2
    <3>4. /\ bufd'[b][s].cur = bufs'[b][bufd'[b][s].id].cur
          /\ PageNow(b, bufd[b][s].id)' # "null"
      BY <1>12, <3>3
    <3>5. PageNow(c, bufd[c][s].id)' = PageNow(b, bufd[b][s].id)'
      BY <3>1
    <3> QED
      BY <3>1, <3>4, <3>5
  <2> QED
    BY <2>1, <2>2
<1>15. \A c \in Queues, j \in BufId :
         /\ bufs'[c][j].held[bufs'[c][j].cur + 1] = 0
         /\ ~ Big(c)' /\ PageNow(c, j)' = "null" =>
              bufs'[c][j].held[1] = 0 /\ bufs'[c][j].held[2] = 0
         /\ "nomap" \notin Faults => \A m \in 1 .. 2 : bufs'[c][j].page[m] # "freed"
  BY <1>2, <1>10
<1>16. \A s \in Wr' : PageNow(rxd[s].bufq, rxd[s].id)' # "null"
  BY <1>3, <1>13
<1>17. FreeInv'
  BY <1>2, <1>14, <1>15, <1>16 DEF FreeInv
<1> QED
  BY <1>7, <1>17

LEMMA RefillKeeps ==
  ASSUME IInv, NEW b \in Queues, NEW n \in 0 .. DescCount, NEW how \in {"ok"} \cup Faults,
         Refill(b, n, how)
  PROVE  IInv'
<1>1. TypeInv /\ PacketInv /\ DoneInv
  BY DEF IInv
<1>2. IdsInv' /\ OwnInv' /\ GenInv' /\ TailInv' /\ FreeInv'
  BY RefillOwn, RefillGen, RefillTail, RefillFree
<1>3. /\ conf' = conf /\ pc = "refill" /\ refilled' = refilled \cup {b}
      /\ nfault' = (IF how = "ok" THEN nfault ELSE nfault + 1)
      /\ UNCHANGED <<rxd, hw_ntw, hw_gen, mid, ntc, gen_chk, head, rfl_ntu, rfl_gen,
                     skb, pc, total, ok, pend, lost, mixed>>
  BY DEF Refill, rxVars
<1>4. /\ Queues' = Queues /\ BufId' = BufId /\ Slot' = Slot /\ RxSlot' = RxSlot
      /\ DescRec' = DescRec /\ RxqDescs' = RxqDescs /\ DescCount' = DescCount
  BY <1>3, ConfKept
<1>5. bufd' \in [Queues -> [Slot -> [id : Slot, cur : Place]]]
  <2>1. bufd \in [Queues -> [Slot -> [id : Slot, cur : Place]]]
    BY <1>1 DEF TypeInv, TypeOK
  <2>2. PICK g : g = [i \in Slot |->
                    IF (i - nta[b]) % DescCount < n
                    THEN [id  |-> Entry(b, (i - nta[b]) % DescCount).id,
                          cur |-> bufs'[b][Entry(b, (i - nta[b]) % DescCount).id].cur]
                    ELSE bufd[b][i]]
    OBVIOUS
  <2>3. bufd' = [bufd EXCEPT ![b] = g]
    BY <2>2 DEF Refill
  <2>4. bufd'[b] = g
    BY <2>1, <2>3
  <2>5. ASSUME NEW s \in Slot PROVE g[s] \in [id : Slot, cur : Place]
    <3>1. CASE ~ (Off(DescCount, nta[b], s) < n)
      <4>1. bufd'[b][s] = bufd[b][s]
        BY <3>1, RefillSlots
      <4> QED
        BY <2>1, <2>4, <4>1
    <3>2. CASE Off(DescCount, nta[b], s) < n
      <4>1. PICK k : k = Off(DescCount, nta[b], s)
        OBVIOUS
      <4>2. PICK e : e = Entry(b, k).id
        OBVIOUS
      <4>3. bufd'[b][s] = [id |-> e, cur |-> bufs'[b][e].cur]
        BY <3>2, <4>1, <4>2, RefillSlots
      <4>4. e \in BufId
        <5>1. /\ DescCount \in Nat \ {0} /\ rfl_ntc[b] \in 0 .. DescCount - 1
              /\ rfl_ntu[b] \in 0 .. DescCount - 1 /\ nta[b] \in 0 .. DescCount - 1
              /\ s \in 0 .. DescCount - 1
          BY <1>1, Indices, ConfIs DEF Slot
        <5>2. PICK w \in Int : w = Off(DescCount, rfl_ntc[b], rfl_ntu[b])
          BY <5>1 DEF Off
        <5>3. n \in Nat /\ n <= w
          BY <5>1, <5>2, RefillIs
        <5>4. k \in Nat /\ k < n
          BY <3>2, <4>1, <5>1 DEF Off
        <5>5. k < w
          BY <5>3, <5>4
        <5> QED
          BY <4>2, <5>2, <5>4, <5>5, EntryIs
      <4>5. bufs'[b][e] \in BufRec
        BY <4>4, RefillBuf DEF Fits
      <4>6. bufs'[b][e].cur \in Place /\ e \in Slot
        <5>1. DescCount \in Nat
          BY <1>1, Indices, ConfIs
        <5> QED
          BY <4>4, <4>5, <5>1 DEF BufRec, BufId, Slot
      <4> QED
        BY <2>4, <4>3, <4>6
    <3> QED
      BY <3>1, <3>2
  <2>6. g \in [Slot -> [id : Slot, cur : Place]]
    BY <2>2, <2>5
  <2> QED
    BY <2>1, <2>3, <2>6
<1>6. ring' \in [Queues -> [Slot -> [id : Slot, gen : {0, 1}]]]
  <2>1. ring \in [Queues -> [Slot -> [id : Slot, gen : {0, 1}]]]
    BY <1>1 DEF TypeInv, TypeOK
  <2>2. PICK g : g = [i \in Slot |-> IF (i - rfl_ntc[b]) % DescCount < n
                                     THEN [ring[b][i] EXCEPT !.id = 0] ELSE ring[b][i]]
    OBVIOUS
  <2>3. ring' = [ring EXCEPT ![b] = g]
    BY <2>1, <2>2 DEF Refill
  <2>4. 0 \in Slot
    BY <1>1, Indices, ConfIs DEF Slot
  <2>5. g \in [Slot -> [id : Slot, gen : {0, 1}]]
    BY <2>1, <2>2, <2>4
  <2> QED
    BY <2>1, <2>3, <2>5
<1>7. nfault' \in Nat /\ (nfault' = 0 => nfault = 0 /\ how = "ok")
  BY <1>1, <1>3 DEF TypeInv
<1>8. /\ ntu' \in [Queues -> Slot] /\ nta' \in [Queues -> Slot]
      /\ rfl_gen_chk' \in [Queues -> {0, 1}] /\ rfl_ntc' \in [Queues -> Slot]
      /\ bufs' \in [Queues -> [BufId -> BufRec]]
  BY RefillTail, RefillGen, RefillFree
<1>9. TypeInv'
  <2>1. TypeOK'
    BY <1>1, <1>3, <1>4, <1>5, <1>6, <1>8 DEF TypeInv, TypeOK
  <2> QED
    BY <1>1, <1>3, <1>4, <1>7, <1>8, <2>1 DEF TypeInv, BufRec
<1>10. /\ Wr' = Wr
       /\ \A c \in Queues : c # b => Rf(c)' = Rf(c)
       /\ how = "ok" => Rf(b)' = {}
  <2>1. /\ Wr' = Wr
        /\ \A c \in Queues : c # b => Rf(c)' = Rf(c)
        /\ how = "ok" => n = Off(DescCount, rfl_ntc[b], rfl_ntu[b])
        /\ Rf(b)' = {s \in Rf(b) : ~ (Off(DescCount, rfl_ntc[b], s) < n)}
    BY RefillIs
  <2>2. \A s \in Rf(b) : Off(DescCount, rfl_ntc[b], s) < Off(DescCount, rfl_ntc[b], rfl_ntu[b])
    BY DEF Rf, Arc
  <2> QED
    BY <2>1, <2>2
<1>11. PacketInv'
  BY <1>1, <1>3, <1>4, <1>10 DEF PacketInv
<1>12. DoneInv'
  <2> SUFFICES ASSUME nfault' = 0
      PROVE  /\ lost' = {} /\ \A s \in Wr' : ~ rxd'[s].bad
             /\ ~ pend' /\ (pc' = "idle" \/ (pc' = "refill" /\ ok')) => Wr' = {}
             /\ \A c \in Queues' : pc' = "idle" \/ c \in refilled' => Rf(c)' = {}
             /\ pc' # "refill" => refilled' = {}
    BY DEF DoneInv
  <2>1. nfault = 0 /\ Rf(b)' = {}
    BY <1>7, <1>10
  <2>2. ASSUME NEW c \in Queues, c \in refilled' PROVE Rf(c)' = {}
    <3>1. CASE c = b
      <4>1. Rf(c)' = Rf(b)'
        BY <3>1 DEF Rf
      <4> QED
        BY <2>1, <4>1
    <3>2. CASE c # b
      BY <1>1, <1>3, <1>10, <2>1, <2>2, <3>2 DEF DoneInv
    <3> QED
      BY <3>1, <3>2
  <2> QED
    BY <1>1, <1>3, <1>4, <1>10, <2>1, <2>2 DEF DoneInv
<1> QED
  BY <1>2, <1>9, <1>11, <1>12 DEF IInv

LEMMA StutterKeeps == ASSUME IInv, UNCHANGED vars PROVE IInv'
<1>1. UNCHANGED ringVars /\ bufs' = bufs
  BY DEF vars, ringVars, rxVars, bqVars, rflVars
<1>2. TypeInv /\ PacketInv /\ DoneInv /\ conf' = conf
  BY <1>1 DEF IInv, ringVars
<1>3. /\ Wr' = Wr /\ Queues' = Queues
      /\ \A c \in Queues : Rf(c)' = Rf(c) /\ Posted(c)' = Posted(c)
  BY <1>1, SamePlaces
<1>4. UNCHANGED <<rxd, lost, skb, ok, mid, mixed, nfault, pend, ntc, hw_ntw, pc, total, refilled>>
  BY DEF vars, rxVars
<1>5. TypeInv'
  BY <1>1, <1>2, <1>4, ControlTypes DEF TypeInv, TypeOK
<1>6. PacketInv'
  <2>1. RxqDescs' = RxqDescs
    BY <1>2, ConfKept
  <2> QED
    BY <1>2, <1>3, <1>4, <2>1 DEF PacketInv
<1>7. DoneInv'
  BY <1>2, <1>3, <1>4 DEF DoneInv
<1> QED
  BY <1>1, <1>5, <1>6, <1>7, SameRings, SameFree DEF IInv

(* Every step keeps the invariant.                                         *)
LEMMA StepKeeps == IInv /\ [Next]_vars => IInv'
<1> SUFFICES ASSUME IInv, [Next]_vars PROVE IInv'
  OBVIOUS
<1>1. CASE Napi
  <2>1. CASE NapiStart
    BY <2>1, NapiStartKeeps
  <2>2. CASE RxBadDesc
    BY <2>2, BadKeeps
  <2>3. CASE RxNoSkb
    BY <2>3, RxNoSkbKeeps
  <2>4. CASE RxEnd
    BY <2>4, RxEndKeeps
  <2>5. CASE NapiEnd
    BY <2>5, NapiEndKeeps
  <2>6. CASE \E f \in BOOLEAN, c \in BOOLEAN : RxPacket(f, c)
    BY <2>6, PacketKeeps
  <2>7. CASE \E p \in BOOLEAN : RxXdp(p)
    BY <2>7, XdpKeeps
  <2>8. CASE \E b \in Queues, n \in 0 .. DescCount, how \in {"ok"} \cup Faults : Refill(b, n, how)
    BY <2>8, RefillKeeps
  <2> QED
    BY <1>1, <2>1, <2>2, <2>3, <2>4, <2>5, <2>6, <2>7, <2>8 DEF Napi
<1>2. CASE \E b \in Queues, k \in Kinds : HwWrite(b, k)
  BY <1>2, HwKeeps
<1>3. CASE \E b \in Queues, i \in BufId, p \in Place : StackFree(b, i, p)
  BY <1>3, FreeKeeps
<1>4. CASE UNCHANGED vars
  BY <1>4, StutterKeeps
<1> QED
  BY <1>1, <1>2, <1>3, <1>4 DEF Next

LEMMA Invariant == Spec => []IInv
<1>1. Init => IInv
  BY InitRest
<1>2. IInv /\ [Next]_vars => IInv'
  BY StepKeeps
<1> QED
  BY <1>1, <1>2, PTL DEF Spec

-----------------------------------------------------------------------------
(* What the properties speak of                                            *)

LEMMA BetweenIs ==
  ASSUME conf \in Configs, NEW i \in Slot, NEW j \in Slot
  PROVE  Between(i, j) = Arc(DescCount, i, j) /\ (j - i) % DescCount = Off(DescCount, i, j)
<1>1. PICK d \in Nat \ {0} : d = DescCount
  BY ConfIs
<1>2. i \in 0 .. d - 1 /\ j \in 0 .. d - 1
  BY <1>1 DEF Slot
<1>3. (j - i) % d = Off(d, i, j)
  BY <1>2, ModOff
<1>4. {(i + n) % d : n \in 0 .. Off(d, i, j) - 1} = Arc(d, i, j)
  BY <1>2, ArcIs
<1> QED
  BY <1>1, <1>3, <1>4 DEF Between

LEMMA WrittenIs == ASSUME IInv PROVE Written = Wr
<1>1. TypeInv /\ GenInv
  BY DEF IInv
<1>2. PICK m \in Nat \ {0} : m = RxqDescs
  BY <1>1, Indices, ConfIs
<1>3. ntc \in 0 .. m - 1 /\ hw_ntw \in 0 .. m - 1
  BY <1>1, <1>2, Indices
<1>4. (hw_ntw - ntc) % m = Off(m, ntc, hw_ntw)
  BY <1>3, ModOff
<1>5. Off(m, ntc, hw_ntw) = 0 => hw_gen = gen_chk
  <2>1. Off(m, ntc, hw_ntw) = 0 => ntc = hw_ntw
    BY <1>3 DEF Off
  <2> QED
    BY <1>1, <1>3, <2>1 DEF GenInv
<1>6. {(ntc + k) % m : k \in 0 .. Off(m, ntc, hw_ntw) - 1} = Arc(m, ntc, hw_ntw)
  BY <1>3, ArcIs
<1>7. PICK n : n = (hw_ntw - ntc) % m
  OBVIOUS
<1>8. Written = {(ntc + k) % m : k \in 0 .. (IF n = 0 /\ hw_gen # gen_chk THEN m ELSE n) - 1}
  BY <1>2, <1>7 DEF Written
<1>9. (IF n = 0 /\ hw_gen # gen_chk THEN m ELSE n) = Off(m, ntc, hw_ntw)
  BY <1>4, <1>5, <1>7
<1> QED
  BY <1>2, <1>6, <1>8, <1>9 DEF Wr

LEMMA RefillableIs ==
  ASSUME IInv, NEW b \in Queues
  PROVE  Refillable(b) = 0 .. Off(DescCount, rfl_ntc[b], rfl_ntu[b]) - 1
<1>1. TypeInv /\ GenInv
  BY DEF IInv
<1>2. PICK d \in Nat \ {0} : d = DescCount
  BY <1>1, Indices, ConfIs
<1>3. PICK c \in 0 .. d - 1, u \in 0 .. d - 1 : c = rfl_ntc[b] /\ u = rfl_ntu[b]
  BY <1>1, <1>2, Indices
<1>4. (u - c) % d = Off(d, c, u)
  BY <1>3, ModOff
<1>5. Off(d, c, u) = 0 => rfl_gen[b] = rfl_gen_chk[b]
  <2>1. Off(d, c, u) = 0 => c = u
    BY <1>3 DEF Off
  <2>2. rfl_gen[b] = IF c <= u THEN rfl_gen_chk[b] ELSE 1 - rfl_gen_chk[b]
    BY <1>1, <1>3 DEF GenInv
  <2> QED
    BY <1>3, <2>1, <2>2
<1>6. PICK n : n = (u - c) % d
  OBVIOUS
<1>7. Refillable(b) = 0 .. (IF n = 0 /\ rfl_gen[b] # rfl_gen_chk[b] THEN d ELSE n) - 1
  BY <1>2, <1>3, <1>6 DEF Refillable
<1> QED
  BY <1>2, <1>3, <1>4, <1>5, <1>6, <1>7

LEMMA OwnedOnce == IInv => BufsOwnedOnce
<1> SUFFICES ASSUME IInv, NEW b \in Queues, NEW i \in BufId
    PROVE  1 = Cardinality({s \in Between(head[b], nta[b]) : bufd[b][s].id = i})
             + Cardinality({s \in Written : rxd[s].bufq = b /\ rxd[s].id = i})
             + Cardinality({n \in Refillable(b) : Entry(b, n).id = i})
             + Cardinality(lost \cap {<<b, i>>})
  BY DEF BufsOwnedOnce
<1>1. TypeInv /\ OwnInv
  BY DEF IInv
<1>2. PICK d \in Nat \ {0} : d = DescCount
  BY <1>1, Indices, ConfIs
<1>3. PICK c \in 0 .. d - 1, u \in 0 .. d - 1 : c = rfl_ntc[b] /\ u = rfl_ntu[b]
  BY <1>1, <1>2, Indices
<1>4. {s \in Between(head[b], nta[b]) : bufd[b][s].id = i} = AtBq(b, i)
  <2>1. head[b] \in Slot /\ nta[b] \in Slot /\ conf \in Configs
    BY <1>1 DEF TypeInv, TypeOK
  <2>2. Between(head[b], nta[b]) = Posted(b)
    BY <2>1, BetweenIs DEF Posted
  <2> QED
    BY <2>2 DEF AtBq
<1>5. {s \in Written : rxd[s].bufq = b /\ rxd[s].id = i} = AtRx(b, i)
  BY WrittenIs DEF AtRx
<1>6. lost \cap {<<b, i>>} = AtLost(b, i)
  BY DEF AtLost
<1> DEFINE R == {n \in Refillable(b) : Entry(b, n).id = i}
<1>7. Refillable(b) = 0 .. Off(d, c, u) - 1
  BY <1>2, <1>3, RefillableIs
<1>8. PICK w \in Nat : w = Off(d, c, u) /\ w < d
  BY <1>2, <1>3 DEF Off
<1>9. ASSUME NEW n \in R
      PROVE  \E t : AtRf(b, i) = {t} /\ t = (c + n) % d /\ Off(d, c, t) = n
  <2>1. n \in Nat /\ n < w /\ Entry(b, n).id = i
    BY <1>7, <1>8
  <2>2. PICK t : t = (c + n) % d
    OBVIOUS
  <2>3. Off(d, c, t) = n /\ AtRf(b, i) = {t}
    BY <1>2, <1>3, <1>8, <2>1, <2>2, EntryIs
  <2> QED
    BY <2>2, <2>3
<1>10. AtRf(b, i) = {} => R = {}
  BY <1>9
<1>11. ASSUME NEW t, AtRf(b, i) = {t} PROVE R = {Off(d, c, t)}
  <2>1. t \in Rf(b) /\ ring[b][t].id = i
    BY <1>11 DEF AtRf
  <2>2. t \in 0 .. d - 1 /\ Off(d, c, t) < w
    BY <1>2, <1>3, <1>8, <2>1 DEF Rf, Arc
  <2>3. (c + Off(d, c, t)) % d = t /\ Off(d, c, t) \in 0 .. d - 1
    BY <1>3, <2>2, OffForth
  <2>4. PICK k \in 0 .. d - 1 : k = Off(d, c, t)
    BY <2>3
  <2>5. Entry(b, k).id = i
    BY <1>2, <1>3, <2>1, <2>3, <2>4 DEF Entry
  <2>6. k \in Refillable(b)
    BY <1>7, <1>8, <2>2, <2>4
  <2>7. ASSUME NEW n \in R PROVE n = k
    <3>1. PICK q : AtRf(b, i) = {q} /\ Off(d, c, q) = n
      BY <1>9
    <3>2. q = t
      BY <1>11, <3>1
    <3> QED
      BY <2>4, <3>1, <3>2
  <2> QED
    BY <2>4, <2>5, <2>6, <2>7
<1> HIDE DEF R
<1>12. /\ Cardinality({}) = 0 /\ \A x : Cardinality({x}) = 1
  BY FS_EmptySet, FS_Singleton
<1>13. OnePlace(b, i)
  BY <1>1 DEF OwnInv
<1>14. CASE \E t \in Rf(b) : AtRf(b, i) = {t}
  <2>1. PICK t \in Rf(b) : AtRf(b, i) = {t}
    BY <1>14
  <2>2. AtBq(b, i) = {} /\ AtRx(b, i) = {} /\ AtLost(b, i) = {}
    BY <1>13, <2>1 DEF OnePlace
  <2>3. Cardinality(R) = 1
    BY <1>11, <1>12, <2>1
  <2>4. /\ Cardinality(AtBq(b, i)) = 0
        /\ Cardinality(AtRx(b, i)) = 0
        /\ Cardinality(AtLost(b, i)) = 0
    BY <1>12, <2>2
  <2>5. 1 = Cardinality(AtBq(b, i)) + Cardinality(AtRx(b, i)) + Cardinality(R)
              + Cardinality(AtLost(b, i))
    BY <2>3, <2>4
  <2> QED
    BY <1>4, <1>5, <1>6, <2>5 DEF R
<1>15. CASE AtRf(b, i) = {}
  <2>1. Cardinality(R) = 0
    BY <1>10, <1>12, <1>15
  <2>2. 1 = Cardinality(AtBq(b, i)) + Cardinality(AtRx(b, i)) + 0 + Cardinality(AtLost(b, i))
    <3>1. CASE \E s \in Posted(b) : AtBq(b, i) = {s}
      <4>1. AtRx(b, i) = {} /\ AtLost(b, i) = {} /\ Cardinality(AtBq(b, i)) = 1
        BY <1>12, <1>13, <3>1 DEF OnePlace
      <4> QED
        BY <1>12, <4>1
    <3>2. CASE \E s \in Wr : AtRx(b, i) = {s}
      <4>1. AtBq(b, i) = {} /\ AtLost(b, i) = {} /\ Cardinality(AtRx(b, i)) = 1
        BY <1>12, <1>13, <3>2 DEF OnePlace
      <4> QED
        BY <1>12, <4>1
    <3>3. CASE AtLost(b, i) = {<<b, i>>}
      <4>1. AtBq(b, i) = {} /\ AtRx(b, i) = {} /\ Cardinality(AtLost(b, i)) = 1
        BY <1>12, <1>13, <3>3 DEF OnePlace
      <4> QED
        BY <1>12, <4>1
    <3> QED
      BY <1>13, <1>15, <3>1, <3>2, <3>3 DEF OnePlace
  <2> QED
    BY <1>4, <1>5, <1>6, <2>1, <2>2 DEF R
<1> QED
  BY <1>13, <1>14, <1>15 DEF OnePlace

LEMMA GenHolds == IInv => GenExact
<1> SUFFICES ASSUME IInv PROVE GenExact
  OBVIOUS
<1>1. NewDesc <=> Written # {}
  BY NewIs, WrittenIs
<1>2. ASSUME NEW b \in Queues, NEW n \in 0 .. DescCount - 1
      PROVE  (\A k \in 0 .. n : IsNew(b, k)) <=> n \in Refillable(b)
  <2>1. PICK d \in Nat \ {0} : d = DescCount
    BY Indices, ConfIs DEF IInv
  <2>2. PICK w \in Nat : w = Off(d, rfl_ntc[b], rfl_ntu[b])
    <3>1. rfl_ntc[b] \in 0 .. d - 1 /\ rfl_ntu[b] \in 0 .. d - 1
      BY <2>1, Indices DEF IInv
    <3>2. Off(d, rfl_ntc[b], rfl_ntu[b]) \in Nat
      BY <3>1 DEF Off
    <3> QED
      BY <3>2
  <2>3. Refillable(b) = 0 .. w - 1
    BY <2>1, <2>2, RefillableIs
  <2>4. \A k \in 0 .. d - 1 : IsNew(b, k) <=> k < w
    BY <2>1, <2>2, IsNewIs
  <2>5. n \in 0 .. d - 1 /\ \A k \in 0 .. n : k \in 0 .. d - 1 /\ k <= n
    BY <2>1
  <2>6. n \in 0 .. n
    BY <2>5
  <2>7. n \in Refillable(b) <=> n < w
    BY <2>3, <2>5
  <2>8. n < w => \A k \in 0 .. n : k < w
    BY <2>2, <2>5
  <2> QED
    BY <2>4, <2>5, <2>6, <2>7, <2>8
<1> QED
  BY <1>1, <1>2 DEF GenExact

LEMMA Fed == IInv => NeverStarves
<1> SUFFICES ASSUME IInv, pc = "idle", ~ pend, nfault = 0, NEW b \in Queues
             PROVE  ((ntu[b] - head[b]) % DescCount) + Stride > DescCount - 1
  BY DEF NeverStarves
<1>1. TypeInv /\ OwnInv /\ IdsInv /\ TailInv /\ DoneInv
  BY DEF IInv
<1>2. PICK d \in Nat \ {0} : d = DescCount
  BY <1>1, Indices, ConfIs
<1>3. PICK h \in 0 .. d - 1, a \in 0 .. d - 1, u \in 0 .. d - 1 :
        h = head[b] /\ a = nta[b] /\ u = ntu[b]
  BY <1>1, <1>2, Indices
<1>4. Wr = {} /\ lost = {} /\ Rf(b) = {}
  BY <1>1 DEF DoneInv
<1>5. BufId \subseteq BqIds(b)
  <2> SUFFICES ASSUME NEW i \in BufId PROVE i \in BqIds(b)
    OBVIOUS
  <2>1. AtRx(b, i) = {} /\ AtRf(b, i) = {} /\ AtLost(b, i) = {}
    BY <1>4 DEF AtRx, AtRf, AtLost
  <2>2. PICK s \in Posted(b) : AtBq(b, i) = {s}
    BY <1>1, <2>1 DEF OwnInv, OnePlace
  <2> QED
    BY <2>2 DEF AtBq, BqIds
<1>6. BqIds(b) = BufId /\ Cardinality(BqIds(b)) = Off(d, h, a)
  BY <1>1, <1>2, <1>3, <1>5, BqCount
<1>7. Off(d, h, a) = d - 1
  BY <1>1, <1>2, <1>6, BufCount, Indices
<1>8. PICK s \in Nat \ {0} : s = Stride /\ PostStride <= s
  BY <1>1, ConfIs, Indices
<1>9. TailOk(a, u)
  BY <1>1, <1>3 DEF TailInv
<1>10. u <= a /\ a - u < s
  <2>1. CASE u = AlignDown(a, PostStride)
    <3>1. PICK t \in Nat \ {0} : t = PostStride /\ t <= s
      BY <1>1, <1>8, ConfIs, Indices
    <3> QED
      BY <1>1, <1>2, <1>3, <2>1, <3>1, AlignIs, Indices
  <2>2. CASE a = d - 1 /\ u = FirstTail
    BY <1>1, <1>2, <1>3, <1>8, <2>2, FirstIs, Indices
  <2> QED
    BY <1>2, <1>9, <2>1, <2>2 DEF TailOk
<1>11. (u - h) % d = Off(d, h, u)
  BY <1>3, ModOff
<1>12. Off(d, h, u) + s > d - 1
  BY <1>3, <1>7, <1>10 DEF Off
<1> QED
  BY <1>2, <1>3, <1>8, <1>11, <1>12

LEMMA Safe ==
  ASSUME IInv
  PROVE  PostedUnshared /\ ("nomap" \notin Faults => PostedLive)
<1>1. TypeInv /\ IdsInv /\ TailInv /\ FreeInv
  BY DEF IInv
<1>2. ASSUME NEW b \in Queues, NEW s \in Between(head[b], ntu[b])
      PROVE  s \in Posted(b)
  <2>1. head[b] \in Slot /\ ntu[b] \in Slot /\ nta[b] \in Slot /\ conf \in Configs
    BY <1>1 DEF TypeInv, TypeOK
  <2>2. s \in Arc(DescCount, head[b], ntu[b])
    BY <2>1, BetweenIs
  <2>3. PICK d \in Nat \ {0} : d = DescCount
    BY <2>1, ConfIs
  <2>4. PICK h \in 0 .. d - 1, a \in 0 .. d - 1, u \in 0 .. d - 1 :
          h = head[b] /\ a = nta[b] /\ u = ntu[b]
    BY <1>1, <2>3, Indices
  <2>5. Off(d, h, u) <= Off(d, h, a)
    BY <1>1, <2>3, <2>4 DEF TailInv
  <2>6. s \in 0 .. d - 1 /\ Off(d, h, s) < Off(d, h, u)
    BY <2>2, <2>3, <2>4 DEF Arc
  <2>7. Off(d, h, s) < Off(d, h, a)
    BY <2>4, <2>5, <2>6 DEF Off
  <2> QED
    BY <2>3, <2>4, <2>6, <2>7 DEF Posted, Arc
<1>3. ASSUME NEW b \in Queues, NEW s \in Between(head[b], ntu[b])
      PROVE  /\ bufd[b][s].id \in BufId
             /\ bufd[b][s].cur = bufs[b][bufd[b][s].id].cur
             /\ PageNow(b, bufd[b][s].id) # "null"
             /\ bufs[b][bufd[b][s].id].held[bufs[b][bufd[b][s].id].cur + 1] = 0
  BY <1>1, <1>2 DEF IdsInv, FreeInv
<1>4. PostedUnshared
  BY <1>3 DEF PostedUnshared
<1>5. ASSUME "nomap" \notin Faults, NEW b \in Queues, NEW s \in Between(head[b], ntu[b])
      PROVE  LET buf == bufs[b][bufd[b][s].id] IN buf.page[PageOf(b, buf.cur)] = "ok"
  <2>1. PICK i \in BufId : i = bufd[b][s].id
    BY <1>3
  <2>2. PICK r \in BufRec : r = bufs[b][i]
    BY <1>1 DEF TypeInv
  <2>3. r.page[PageOf(b, r.cur)] # "null"
    BY <1>3, <2>1, <2>2 DEF PageNow
  <2>4. PageOf(b, r.cur) \in 1 .. 2
    BY DEF PageOf, BufRec, Place
  <2>5. r.page \in [1 .. 2 -> {"ok", "null", "freed"}]
    BY DEF BufRec
  <2>6. r.page[PageOf(b, r.cur)] # "freed"
    BY <1>1, <1>5, <2>2, <2>4 DEF FreeInv
  <2> QED
    BY <2>1, <2>2, <2>3, <2>4, <2>5, <2>6
<1> QED
  BY <1>4, <1>5 DEF PostedLive

(* The ring memory of the queues is sound in every execution: the indices   *)
(* stay in their rings; every buffer is in exactly one place, posted, in a *)
(* descriptor, in a refill queue or lost with a bad descriptor             *)
(* (idpf_post_buf_refill, idpf_rx_clean_refillq); the generation bits say  *)
(* exactly what is new (idpf_rx_bump_ntc); and a poll without failures     *)
(* leaves the device all buffers but less than a stride.                   *)
THEOREM BufsSafe == Spec => []BufsSound
<1>1. IInv => BufsSound
  BY OwnedOnce, GenHolds, Fed DEF IInv, TypeInv, BufsSound
<1> QED
  BY <1>1, Invariant, PTL

(* A buffer the device may fill is used at the place that the driver will  *)
(* look at, and no skb and no one else has a reference to that place       *)
(* (idpf_rx_can_reuse_page, idpf_rx_buf_adjust_pg), also when pages cannot *)
(* be mapped.                                                              *)
THEOREM UnsharedAlways == Spec => []PostedUnshared
<1>1. IInv => PostedUnshared
  BY Safe
<1> QED
  BY <1>1, Invariant, PTL

(* As long as mapping a page does not fail, what the device may fill is    *)
(* also a live page (idpf_alloc_page, idpf_rx_update_bufq_desc).           *)
THEOREM SafeAlways ==
  ASSUME "nomap" \notin Faults
  PROVE  Spec => []PostedSafe
<1>1. IInv => PostedSafe
  BY Safe DEF PostedSafe
<1> QED
  BY <1>1, Invariant, PTL

(* No packet is given to the stack with a buffer missing or with one of    *)
(* another packet, whatever the budget cuts in two and whichever           *)
(* allocation fails, unless a descriptor of another format was skipped     *)
(* (idpf_rx_splitq_clean).                                                 *)
THEOREM WholeAlways == Spec => []DeliveredWhole
<1>1. IInv => DeliveredWhole
  BY DEF IInv, PacketInv, DeliveredWhole
<1> QED
  BY <1>1, Invariant, PTL

(* If a ring is longer than the stride of the first tail                   *)
(* (idpf_rx_post_init_bufs), a poll without failures never leaves a buffer *)
(* queue without a buffer for the device.  With one stride the first       *)
(* posting announces nothing.                                              *)
THEOREM FedAlways ==
  ASSUME \A c \in Configs : c.stride < c.count
  PROVE  Spec => []DeviceFed
<1>1. IInv => DeviceFed
  <2> SUFFICES ASSUME IInv, pc = "idle", ~ pend, nfault = 0, NEW b \in Queues
               PROVE  ntu[b] # head[b]
    BY DEF DeviceFed
  <2>1. NeverStarves
    BY Fed
  <2>2. conf \in Configs /\ TypeInv
    BY Indices DEF IInv
  <2>3. PICK d \in Nat \ {0}, s \in Nat \ {0} : d = DescCount /\ s = Stride /\ s < d
    BY <2>2, ConfIs DEF DescCount, Stride
  <2>4. PICK h \in 0 .. d - 1, u \in 0 .. d - 1 : h = head[b] /\ u = ntu[b]
    BY <2>2, <2>3, Indices
  <2>5. ((u - h) % d) + s > d - 1
    BY <2>1, <2>3, <2>4 DEF NeverStarves
  <2> SUFFICES ASSUME u = h PROVE FALSE
    BY <2>4
  <2>6. (u - h) % d = 0
    BY <2>3
  <2> QED
    BY <2>3, <2>5, <2>6
<1> QED
  BY <1>1, Invariant, PTL
=============================================================================
