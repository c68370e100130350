---------------------------- MODULE TxSplitqProofs ----------------------------
(***************************************************************************)
(* Proofs about TxSplitq, for every size of the rings, the pool and the    *)
(* counters, any packets and any number of faults: the tags of the stash,  *)
(* the life of an skb, the doorbell, the room in both rings.               *)
(***************************************************************************)
EXTENDS TxSplitq, FiniteSetTheorems, FunctionTheorems, WellFoundedInduction,
        SequenceTheorems, TLAPS

-----------------------------------------------------------------------------
(* Sums                                                                    *)

(* A set of numbers has a least one.                                       *)
LEMMA LeastOf ==
  ASSUME NEW T, T \subseteq Nat, T # {}
  PROVE  \E x \in T : \A y \in T : x <= y
<1>1. PICK x \in T : \A y \in T : ~ (<<y, x>> \in OpToRel(<, Nat))
  BY NatLessThanWellFounded, WFMin
<1>2. \A y \in T : ~ (y < x)
  BY <1>1 DEF OpToRel
<1> QED BY <1>2

(* What begins at 0 and goes on from each number to the next has them all. *)
LEMMA StepByStep ==
  ASSUME NEW m \in Nat, NEW G, 0 \in G, \A k \in 1 .. m : k - 1 \in G => k \in G
  PROVE  \A n \in 0 .. m : n \in G
<1> DEFINE T == (0 .. m) \ G
<1> SUFFICES ASSUME T # {} PROVE FALSE
  OBVIOUS
<1>1. T \subseteq Nat
  OBVIOUS
<1>2. \E x \in T : \A y \in T : x <= y
  <2> HIDE DEF T
  <2> QED BY <1>1, LeastOf
<1>3. PICK k \in 0 .. m : k \notin G /\ \A y \in T : k <= y
  BY <1>2
<1>4. k # 0 /\ k \in 1 .. m /\ k - 1 \in 0 .. m /\ ~ (k <= k - 1)
  BY <1>3
<1>5. k - 1 \in G
  BY <1>3, <1>4
<1> QED BY <1>3, <1>4, <1>5

(* The sums of the prefixes of a sequence exist.                           *)
LEMMA UptoExists ==
  ASSUME NEW s, NEW m \in Nat
  PROVE  \E f : f = [n \in 0 .. m |-> IF n = 0 THEN 0 ELSE f[n - 1] + s[n]]
<1> DEFINE Is(f, k) == f = [n \in 0 .. k |-> IF n = 0 THEN 0 ELSE f[n - 1] + s[n]]
           G == {k \in 0 .. m : \E f : Is(f, k)}
<1>1. 0 \in G
  <2>1. Is([n \in 0 .. 0 |-> 0], 0)
    OBVIOUS
  <2>2. 0 \in 0 .. m
    OBVIOUS
  <2> HIDE DEF Is
  <2> QED BY <2>1, <2>2
<1>2. ASSUME NEW k \in 1 .. m, k - 1 \in G
      PROVE  k \in G
  <2>1. PICK f : Is(f, k - 1)
    BY <1>2
  <2> DEFINE g == [n \in 0 .. k |-> IF n = k THEN f[k - 1] + s[k] ELSE f[n]]
  <2>2. ASSUME NEW n \in 0 .. k
        PROVE  g[n] = IF n = 0 THEN 0 ELSE g[n - 1] + s[n]
    <3>1. CASE n = k
      <4>1. g[k - 1] = f[k - 1]
        OBVIOUS
      <4> QED BY <4>1, <3>1
    <3>2. CASE n # k
      <4>1. n \in 0 .. k - 1 /\ f[n] = IF n = 0 THEN 0 ELSE f[n - 1] + s[n]
        BY <2>1, <3>2
      <4>2. n # 0 => n - 1 \in 0 .. k /\ n - 1 # k
        BY <3>2
      <4> QED BY <4>1, <4>2, <3>2
    <3> QED BY <3>1, <3>2
  <2>3. g = [n \in 0 .. k |-> g[n]]
    OBVIOUS
  <2> HIDE DEF g
  <2>4. Is(g, k)
    BY <2>2, <2>3
  <2> QED BY <2>4
<1>3. \A n \in 0 .. m : n \in G
  <2> HIDE DEF G
  <2> QED BY <1>1, <1>2, StepByStep
<1>4. m \in 0 .. m
  OBVIOUS
<1> QED BY <1>3, <1>4

(* The sums of the prefixes are what their name says.                      *)
LEMMA UptoIs ==
  ASSUME NEW s \in Seq(Nat)
  PROVE  /\ Upto(s)[0] = 0
         /\ \A n \in 1 .. Len(s) : Upto(s)[n] = Upto(s)[n - 1] + s[n]
<1>1. Len(s) \in Nat
  OBVIOUS
<1>2. \E f : f = [n \in 0 .. Len(s) |-> IF n = 0 THEN 0 ELSE f[n - 1] + s[n]]
  BY <1>1, UptoExists
<1> DEFINE u == CHOOSE f : f = [n \in 0 .. Len(s) |-> IF n = 0 THEN 0
                                                        ELSE f[n - 1] + s[n]]
<1>3. u = [n \in 0 .. Len(s) |-> IF n = 0 THEN 0 ELSE u[n - 1] + s[n]]
  BY <1>2
<1>4. Upto(s) = u
  BY DEF Upto
<1> HIDE DEF u
<1>5. u[0] = 0 /\ \A n \in 1 .. Len(s) : u[n] = u[n - 1] + s[n]
  BY <1>1, <1>3
<1> QED BY <1>4, <1>5

(* They are numbers.                                                       *)
LEMMA UptoNat ==
  ASSUME NEW s \in Seq(Nat)
  PROVE  \A n \in 0 .. Len(s) : Upto(s)[n] \in Nat
<1> DEFINE G == {n \in 0 .. Len(s) : Upto(s)[n] \in Nat}
<1>1. Len(s) \in Nat /\ \A i \in 1 .. Len(s) : s[i] \in Nat
  OBVIOUS
<1>2. 0 \in G
  BY <1>1, UptoIs
<1>3. ASSUME NEW k \in 1 .. Len(s), k - 1 \in G
      PROVE  k \in G
  <2>1. Upto(s)[k] = Upto(s)[k - 1] + s[k] /\ s[k] \in Nat /\ Upto(s)[k - 1] \in Nat
    BY <1>1, <1>3, UptoIs
  <2>2. k \in 0 .. Len(s)
    BY <1>1
  <2>3. Upto(s)[k] \in Nat
    BY <2>1
  <2> QED BY <2>2, <2>3
<1>4. \A n \in 0 .. Len(s) : n \in G
  <2> HIDE DEF G
  <2> QED BY <1>1, <1>2, <1>3, StepByStep
<1> QED BY <1>4

(* Sums may be regrouped.                                                  *)
LEMMA PlusAssoc == \A a, b, c \in Nat : (a + b) + c = a + (b + c)
OBVIOUS

(* A sum is at least its first part.                                       *)
LEMMA AtMostPlus == \A a, b, c \in Nat : a <= b => a <= b + c
OBVIOUS

(* Two sequences that agree in a part of them have the same sums in it.    *)
LEMMA UptoSame ==
  ASSUME NEW s \in Seq(Nat), NEW t \in Seq(Nat), NEW m \in Nat, NEW a \in Nat,
         m <= Len(s), m + a <= Len(t), \A i \in 1 .. m : s[i] = t[i + a]
  PROVE  \A n \in 0 .. m : Upto(t)[n + a] = Upto(t)[a] + Upto(s)[n]
<1> DEFINE G == {n \in 0 .. m : Upto(t)[n + a] = Upto(t)[a] + Upto(s)[n]}
<1>1. Len(s) \in Nat /\ Len(t) \in Nat
  OBVIOUS
<1>2. /\ Upto(s)[0] = 0 /\ a \in 0 .. Len(t)
      /\ \A n \in 1 .. Len(s) : Upto(s)[n] = Upto(s)[n - 1] + s[n]
      /\ \A n \in 1 .. Len(t) : Upto(t)[n] = Upto(t)[n - 1] + t[n]
  BY <1>1, UptoIs
<1>3. Upto(t)[a] \in Nat
  BY <1>2, UptoNat
<1>4. 0 \in G
  <2>1. 0 + a = a /\ Upto(t)[a] = Upto(t)[a] + 0
    BY <1>3
  <2> QED BY <1>2, <2>1
<1>5. ASSUME NEW k \in 1 .. m, k - 1 \in G
      PROVE  k \in G
  <2>1. /\ k - 1 \in 0 .. Len(s) /\ k \in 0 .. m /\ k \in 1 .. Len(s)
        /\ k + a \in 1 .. Len(t) /\ (k + a) - 1 = (k - 1) + a
    BY <1>1
  <2>2. Upto(s)[k - 1] \in Nat /\ s[k] \in Nat
    BY SMTT(30), <2>1, UptoNat
  <2>3. Upto(t)[(k - 1) + a] = Upto(t)[a] + Upto(s)[k - 1]
    BY <1>5
  <2>4. Upto(t)[k + a] = Upto(t)[(k - 1) + a] + s[k]
    BY <1>2, <2>1
  <2>5. Upto(s)[k] = Upto(s)[k - 1] + s[k]
    BY <1>2, <2>1
  <2>6. Upto(t)[k + a] = (Upto(t)[a] + Upto(s)[k - 1]) + s[k]
    BY <2>3, <2>4
  <2>7. Upto(t)[k + a] = Upto(t)[a] + (Upto(s)[k - 1] + s[k])
    BY <1>3, <2>2, <2>6, PlusAssoc
  <2>8. Upto(t)[k + a] = Upto(t)[a] + Upto(s)[k]
    BY <2>5, <2>7
  <2> QED BY <2>1, <2>8
<1>6. \A n \in 0 .. m : n \in G
  <2> HIDE DEF G
  <2> QED BY <1>4, <1>5, StepByStep
<1> QED BY <1>6

(* The sum is not less than that of a part.                                *)
LEMMA UptoGrows ==
  ASSUME NEW s \in Seq(Nat), NEW k \in 1 .. Len(s)
  PROVE  Upto(s)[k] <= Sum(s) /\ Sum(s) \in Nat /\ Upto(s)[k] \in Nat
<1> DEFINE m == Len(s)
           G == {d \in 0 .. m - k : Upto(s)[k] <= Upto(s)[k + d]}
<1>1. m \in Nat /\ m - k \in Nat /\ \A i \in 1 .. m : s[i] \in Nat
  OBVIOUS
<1>2. \A d \in 0 .. m - k : k + d \in 1 .. m /\ k + d \in 0 .. m /\ k + d - 1 \in 0 .. m
  BY <1>1
<1>3. \A d \in 0 .. m - k : /\ Upto(s)[k + d] \in Nat /\ Upto(s)[k + d - 1] \in Nat
                            /\ Upto(s)[k + d] = Upto(s)[k + d - 1] + s[k + d]
                            /\ s[k + d] \in Nat
  BY <1>1, <1>2, UptoNat, UptoIs
<1>4. 0 \in 0 .. m - k /\ m - k \in 0 .. m - k /\ k + 0 = k /\ k + (m - k) = m
  BY <1>1
<1>5. Upto(s)[k] \in Nat /\ Upto(s)[m] \in Nat
  BY <1>3, <1>4
<1>6. 0 \in G
  BY <1>4, <1>5
<1>7. ASSUME NEW d \in 1 .. m - k, d - 1 \in G
      PROVE  d \in G
  <2>1. d \in 0 .. m - k /\ k + d - 1 = k + (d - 1)
    BY <1>1
  <2>2. Upto(s)[k] <= Upto(s)[k + (d - 1)]
    BY <1>7
  <2>3. /\ Upto(s)[k + (d - 1)] \in Nat /\ s[k + d] \in Nat
        /\ Upto(s)[k + d] = Upto(s)[k + (d - 1)] + s[k + d]
    BY <1>3, <2>1
  <2>4. Upto(s)[k] <= Upto(s)[k + d]
    BY <1>5, <2>2, <2>3, AtMostPlus
  <2> QED BY <2>1, <2>4
<1>8. \A d \in 0 .. m - k : d \in G
  <2> HIDE DEF G
  <2> QED BY <1>1, <1>6, <1>7, StepByStep
<1> QED BY <1>4, <1>5, <1>8 DEF Sum

(* A sum of numbers is a number.                                           *)
LEMMA SumNat ==
  ASSUME NEW s \in Seq(Nat)
  PROVE  Sum(s) \in Nat
<1>1. Len(s) \in 0 .. Len(s)
  OBVIOUS
<1> QED BY <1>1, UptoNat DEF Sum

(* A packet more at the end, a packet less at the front                    *)
LEMMA SumAppend ==
  ASSUME NEW s \in Seq(Nat), NEW x \in Nat
  PROVE  Sum(Append(s, x)) = Sum(s) + x
<1> DEFINE t == Append(s, x)
           m == Len(s)
<1>1. t \in Seq(Nat) /\ m \in Nat /\ Len(t) = m + 1 /\ t[m + 1] = x
        /\ \A i \in 1 .. m : s[i] = t[i + 0]
  OBVIOUS
<1> HIDE DEF t, m
<1>2. \A n \in 0 .. m : Upto(t)[n + 0] = Upto(t)[0] + Upto(s)[n]
  <2>1. m <= Len(s) /\ m + 0 <= Len(t) /\ 0 \in Nat
    BY <1>1 DEF m
  <2> QED BY <1>1, <2>1, UptoSame
<1>3. Upto(s)[m] \in Nat
  BY <1>1, UptoNat DEF m
<1>4. Upto(t)[0] = 0 /\ \A n \in 1 .. Len(t) : Upto(t)[n] = Upto(t)[n - 1] + t[n]
  BY <1>1, UptoIs
<1>5. m \in 0 .. m /\ m + 1 \in 1 .. Len(t) /\ (m + 1) - 1 = m /\ m + 0 = m
  BY <1>1
<1>6. Upto(t)[m] = 0 + Upto(s)[m]
  BY <1>2, <1>4, <1>5
<1>7. Upto(t)[m + 1] = Upto(t)[m] + x
  BY <1>1, <1>4, <1>5
<1>8. Upto(t)[m + 1] = Upto(s)[m] + x
  BY <1>3, <1>6, <1>7
<1> QED BY <1>1, <1>8 DEF Sum, t, m

(* The sum without the first number                                        *)
LEMMA SumTail ==
  ASSUME NEW s \in Seq(Nat), s # <<>>
  PROVE  Sum(s) = Head(s) + Sum(Tail(s)) /\ Head(s) \in Nat
<1> DEFINE t == Tail(s)
           m == Len(t)
<1>1. t \in Seq(Nat) /\ m \in Nat /\ Len(s) = m + 1 /\ Head(s) = s[1] /\ s[1] \in Nat
        /\ \A i \in 1 .. m : t[i] = s[i + 1]
  OBVIOUS
<1> HIDE DEF t, m
<1>2. \A n \in 0 .. m : Upto(s)[n + 1] = Upto(s)[1] + Upto(t)[n]
  <2>1. m <= Len(t) /\ m + 1 <= Len(s) /\ 1 \in Nat
    BY <1>1 DEF m
  <2> QED BY <1>1, <2>1, UptoSame
<1>3. Upto(s)[1] = s[1]
  <2>1. Upto(s)[0] = 0 /\ \A n \in 1 .. Len(s) : Upto(s)[n] = Upto(s)[n - 1] + s[n]
    BY UptoIs
  <2>2. 1 \in 1 .. Len(s) /\ 1 - 1 = 0
    BY <1>1
  <2>3. Upto(s)[1] = Upto(s)[1 - 1] + s[1]
    BY <2>1, <2>2
  <2> QED BY <2>1, <2>2, <2>3, <1>1
<1>4. m \in 0 .. m
  BY <1>1
<1>5. Upto(s)[m + 1] = s[1] + Upto(t)[m]
  BY <1>2, <1>3, <1>4
<1> QED BY <1>1, <1>4, <1>5 DEF Sum, t, m
-----------------------------------------------------------------------------
(* Numbers modulo the size of a ring                                       *)

(* The remainder of a number less than two laps from the start             *)
LEMMA ModIs ==
  ASSUME NEW N \in Nat \ {0}, NEW x \in Int
  PROVE  /\ x % N \in 0 .. N - 1
         /\ 0 <= x /\ x < N => x % N = x
         /\ N <= x /\ x < N + N => x % N = x - N
         /\ 0 - N <= x /\ x < 0 => x % N = x + N
OBVIOUS

(* A number by its quotient and its remainder                              *)
LEMMA ModQuot ==
  ASSUME NEW N \in Nat \ {0}, NEW x \in Int
  PROVE  x = N * (x \div N) + (x % N) /\ x \div N \in Int
OBVIOUS

(* The remainder is the only one of its size.                              *)
LEMMA ModUnique ==
  ASSUME NEW N \in Nat \ {0}, NEW q \in Int, NEW r \in 0 .. N - 1
  PROVE  (N * q + r) % N = r
OBVIOUS

(* The remainder may be taken before an addition.                          *)
LEMMA ModPlus ==
  ASSUME NEW N \in Nat \ {0}, NEW x \in Int, NEW y \in Int
  PROVE  ((x % N) + y) % N = (x + y) % N
<1> DEFINE q == x \div N
           r == x % N
           z == r + y
           p == z \div N
           s == z % N
<1>1. x = N * q + r /\ q \in Int /\ r \in Int
  BY ModQuot, ModIs
<1> HIDE DEF q, r
<1>5. z = r + y /\ z \in Int
  BY <1>1
<1> HIDE DEF z
<1>6. z = N * p + s /\ p \in Int /\ s \in 0 .. N - 1
  BY <1>5, ModQuot, ModIs
<1> HIDE DEF p, s
<1>2. r + y = N * p + s /\ p \in Int /\ s \in Int
  BY <1>5, <1>6
<1>3. x + y = N * (q + p) + s
  BY <1>1, <1>2
<1>4. (x + y) % N = s
  <2>1. q + p \in Int
    BY <1>1, <1>2
  <2> QED BY <1>6, <1>3, <2>1, ModUnique
<1> QED BY <1>4 DEF r, s, z
-----------------------------------------------------------------------------
(***************************************************************************)
(* The inductive invariants                                                *)
(***************************************************************************)

(* Where the packet under construction began, in both rings                *)
Base    == IF xpc = "map" THEN xm.ntu ELSE ntu
TagBase == IF xpc = "map" THEN xm.rntc ELSE rntc
TagGen  == IF xpc = "map" THEN xm.rflgen ELSE rflgen
Taken   == IF xpc = "map" THEN xm.k ELSE 0

(* Entries of the refill queue from there on: taken, then offered          *)
Held == rntu - TagBase + IF rgen = TagGen THEN 0 ELSE PoolSize
EntryAt(j) == rring[(TagBase + j) % PoolSize]
TagAt(j)   == EntryAt(j).id

BufType == {"EMPTY", "FRAG", "SKB", "SKB_TSTAMP", "MISS", "REINJECT"}
ComplType == {"RE", "RS", "MISS", "REINJECT"}

(* The types of what TypeOK does not speak of                              *)
LocalsOK ==
  /\ xm \in [pkt : Nat, shape : Seq(Nat), ctx : Nat, st : {0, 1}, k : Nat,
             i : Idx, first : Tag, buf : Tag, re : BOOLEAN, ntu : Idx,
             rntc : Tag, rflgen : {0, 1}]
  /\ nc \in [tag : Tag, cleaned : BOOLEAN, budget : 0 .. Budget, ok : BOOLEAN]
  /\ npkt \in 0 .. MaxPkt /\ freed \in [Pkt -> Nat]
  /\ nmiss \in Nat /\ nfault \in Nat
  /\ xpc # "idle" => xm.pkt = npkt + 1 /\ npkt < MaxPkt /\ Len(xm.shape) > 0
  /\ xpc = "map" => xm.k \in 1 .. Len(xm.shape)
  /\ npc = "chain" => nc.budget > 0

DeviceOK ==
  /\ unfetched \in Seq([pkt : Pkt, tag : Tag, end : Idx, n : Nat, re : BOOLEAN])
  /\ complq \in Seq([type : ComplType, tag : Tag, head : Idx])
  /\ inflight \subseteq [pkt : Pkt, tag : Tag] /\ IsFiniteSet(inflight)
  /\ exc \subseteq {Compl(ty, t) : ty \in {"MISS", "REINJECT"}, t \in Tag}
  /\ IsFiniteSet(exc)

Types == TypeOK /\ LocalsOK /\ DeviceOK

(* The tail is where the device is or where some packet ends, and the ring *)
(* is written where the last one ends.                                     *)
PathInv ==
  /\ tail = head \/ \E k \in DOMAIN unfetched : tail = unfetched[k].end
  /\ Base = IF unfetched = <<>> THEN head ELSE unfetched[Len(unfetched)].end

(* The refill queue between the two ends: what lies there is of the lap it *)
(* says, and no tag is there twice.                                        *)
LapOf(j) == IF TagBase + j < PoolSize THEN TagGen ELSE 1 - TagGen
QueueInv ==
  /\ Held \in 1 .. PoolSize /\ Taken < Held
  /\ rntc = (TagBase + Taken) % PoolSize /\ rflgen = LapOf(Taken)
  /\ \A j \in 0 .. Held - 1 : EntryAt(j).gen = LapOf(j)
  /\ \A j, k \in 0 .. Held - 1 : TagAt(j) = TagAt(k) => j = k

(* Whoever holds a tag of the queue does not use it yet, or any more.      *)
OfferInv ==
  /\ \A j \in Taken .. Held - 1 : bufs[TagAt(j)].type = "EMPTY"
  /\ xpc \in {"first", "map"} => Len(xm.shape) < Held
  /\ npc = "chain" => \A j \in 0 .. Held - 1 : j = Held - 1 => TagAt(j) = nc.tag
  /\ nmiss = 0 =>
       \A t \in Tag : bufs[t].type # "EMPTY" \/ \E j \in 0 .. Held - 1 : t = TagAt(j)

(* The buffers of the packet under construction                            *)
BuildInv ==
  xpc = "map" =>
    /\ xm.first = TagAt(0)
    /\ \A j \in 0 .. xm.k - 1 : j = xm.k - 1 => xm.buf = TagAt(j)
    /\ bufs[xm.buf].type = "EMPTY" /\ bufs[xm.first].skb = xm.pkt
    /\ \A j \in 0 .. xm.k - 2 : /\ bufs[TagAt(j)].type = "FRAG"
                                /\ bufs[TagAt(j)].next = TagAt(j + 1)
BuiltTags == {TagAt(j) : j \in 0 .. Taken - 1}

(* The chains of buffers of the other packets                              *)
Linked(t) == /\ t \notin BuiltTags
             /\ bufs[t].type # "EMPTY" \/ (npc = "chain" /\ t = nc.tag)
             /\ bufs[t].next # Null
ChainInv ==
  /\ \A s \in Tag : Linked(s) => /\ bufs[bufs[s].next].type = "FRAG"
                                 /\ bufs[s].next \notin BuiltTags
  /\ \A s, t \in Tag : Linked(s) /\ Linked(t) /\ bufs[s].next = bufs[t].next
       => s = t

(* The tags whose packets are at the device or reported to be sent: in the *)
(* ring, on the wire, in the completion queue, missed                      *)
Waiting  == {t \in Tag : bufs[t].type \in {"SKB", "SKB_TSTAMP", "REINJECT"}}
RingTags == {unfetched[k].tag : k \in DOMAIN unfetched}
WireTags == {p.tag : p \in inflight}
MissTags == {t \in Tag : Compl("MISS", t) \in exc}
Final(c) == c.type \in {"RS", "MISS"}
FinalTags(q) == {q[k].tag : k \in {j \in DOMAIN q : Final(q[j])}}
DoneTags == FinalTags(complq)

OnceIn(s) == \A j, k \in DOMAIN s : s[j].tag = s[k].tag => j = k
FinalOnce(q) ==
  \A j, k \in DOMAIN q : Final(q[j]) /\ Final(q[k]) /\ q[j].tag = q[k].tag => j = k

WaitInv ==
  /\ RingTags \cup WireTags \cup DoneTags \cup MissTags \subseteq Waiting
  /\ RingTags \cap WireTags = {} /\ RingTags \cap DoneTags = {}
  /\ RingTags \cap MissTags = {} /\ WireTags \cap DoneTags = {}
  /\ WireTags \cap MissTags = {} /\ DoneTags \cap MissTags = {}
  /\ OnceIn(unfetched) /\ FinalOnce(complq)
  /\ \A p, q \in inflight : p.tag = q.tag => p = q
  /\ nmiss = 0 => exc = {} /\ \A k \in DOMAIN complq : complq[k].type \in {"RE", "RS"}

(* Who will free an skb                                                    *)
Owner == {t \in Tag : \/ bufs[t].type \in {"SKB", "SKB_TSTAMP", "REINJECT"}
                      \/ bufs[t].type = "MISS" /\ timers[t] = "armed"}
SkbInv ==
  /\ \A t \in Tag : timers[t] # "none" => bufs[t].type = "MISS"
  /\ \A t \in Owner : bufs[t].skb \in 1 .. npkt /\ freed[bufs[t].skb] = 0
  /\ \A s, t \in Owner : bufs[s].skb = bufs[t].skb => s = t
  /\ \A p \in Pkt : freed[p] <= 1 /\ (p > npkt => freed[p] = 0)
  /\ \A p \in inflight : bufs[p.tag].skb = p.pkt
  /\ \A k \in DOMAIN unfetched : bufs[unfetched[k].tag].skb = unfetched[k].pkt

(* Distances along the ring from next_to_clean                             *)
Off(i)   == (i - ntc) % RingSize
Lens(u)  == [k \in DOMAIN u |-> u[k].n]
Lag      == Sum(Lens(unfetched))
Need     == xm.ctx + Sum(xm.shape)
Claim    == IF xpc \in {"first", "map"} THEN Need ELSE 0
Start(k) == IF k = 1 THEN head ELSE unfetched[k - 1].end
LineInv ==
  /\ (head + Lag) % RingSize = Base
  /\ \A k \in DOMAIN unfetched :
       unfetched[k].end = (Start(k) + unfetched[k].n) % RingSize
SpotInv ==
  xpc = "map" =>
    xm.i = (xm.ntu + xm.ctx + xm.st + Upto(xm.shape)[xm.k - 1]) % RingSize

(* As long as no REINJECT completion has moved next_to_clean: what is      *)
(* written and what is to be written fits, and the RE completions are in   *)
(* the order of the ring, up to where the device is.                       *)
Ordered ==
  /\ \A j \in DOMAIN complq : complq[j].type = "RE" =>
       Off(complq[j].head) <= Off(head)
  /\ \A j, k \in DOMAIN complq :
       j < k /\ complq[j].type = "RE" /\ complq[k].type = "RE" =>
       Off(complq[j].head) <= Off(complq[k].head)
RoomInv ==
  ~ moved => Off(head) + Lag + Claim <= RingSize - 1 /\ Ordered

(* What xmit may have promised beyond the threshold, by how far it is      *)
Beyond == IF xpc = "first" \/ (xpc = "map" /\ ~ xm.re) THEN 0
          ELSE IF xpc = "map" THEN 1 ELSE 2
(* What is owed, and what is between two counters                          *)
Load == Owed + (IF xpc = "map" /\ xm.re THEN 1 ELSE 0)
             + (IF npc = "chain" THEN 1 ELSE 0)

(* What xmit has promised less what the poll has seen, as if the counters  *)
(* did not wrap, covers what is owed; a packet on the exception path has   *)
(* two completions and was counted once.                                   *)
CreditInv ==
  \E d, q \in Int :
    /\ pending - compls = d + q * CtrMod
    /\ d <= (ComplqSize \div 2) + Beyond
    /\ Load <= d + nmiss
-----------------------------------------------------------------------------
(* Types                                                                   *)

(* What the assumptions say of the sizes of rings and counters             *)
LEMMA Sizes ==
  /\ RingSize \in Nat \ {0} /\ PoolSize \in Nat \ {0} /\ Budget \in Nat \ {0}
  /\ CtrMod \in Nat \ {0} /\ MaxPkt \in Nat /\ ReGap \in 1 .. RingSize
  /\ \A i \in Int : i % RingSize \in Idx /\ i % PoolSize \in Tag
                    /\ i % CtrMod \in 0 .. CtrMod - 1
  /\ 0 \in Idx /\ 0 \in Tag
<1>1. /\ RingSize \in Nat \ {0} /\ PoolSize \in Nat \ {0} /\ Budget \in Nat \ {0}
      /\ CtrMod \in Nat \ {0} /\ MaxPkt \in Nat /\ ReGap \in 1 .. RingSize
  BY RingAssumption, PacketAssumption, CounterAssumption
<1>2. ASSUME NEW i \in Int
      PROVE  /\ i % RingSize \in 0 .. RingSize - 1
             /\ i % PoolSize \in 0 .. PoolSize - 1
             /\ i % CtrMod \in 0 .. CtrMod - 1
  BY <1>1, ModIs
<1> QED BY <1>1, <1>2 DEF Idx, Tag

(* next_to_use stays an index of the ring.                                 *)
LEMMA BumpIs == \A i \in Idx, n \in Nat : Bump(i, n) \in Idx
<1> SUFFICES ASSUME NEW i \in Idx, NEW n \in Nat PROVE Bump(i, n) \in Idx
  OBVIOUS
<1>1. i + n \in Int
  BY DEF Idx
<1> QED BY <1>1, Sizes DEF Bump

(* The initial state is of its type.                                       *)
LEMMA TypesInit == Init => Types /\ PathInv
<1> SUFFICES ASSUME Init PROVE Types /\ PathInv
  OBVIOUS
<1> USE Sizes DEF Init
<1>1. RingSize - ReGap \in Idx
  BY DEF Idx
<1>2. EmptyBuf \in [type : BufType, skb : Pkt \cup {Null}, next : Tag \cup {Null}, rs : Idx]
  BY DEF EmptyBuf, BufType, Idx
<1>3. TypeOK
  <2>1. {ntu, ntc, last_re, tail, head} \subseteq Idx
    BY <1>1
  <2>2. bufs \in [Tag -> [type : BufType, skb : Pkt \cup {Null}, next : Tag \cup {Null}, rs : Idx]]
    BY <1>2
  <2>3. rring \in [Tag -> [id : Tag, gen : {0, 1}]]
    OBVIOUS
  <2>4. {rntu, rntc} \subseteq Tag /\ {rgen, rflgen} \subseteq {0, 1}
          /\ {pending, compls} \subseteq 0 .. CtrMod - 1
    OBVIOUS
  <2>5. nc.budget \in 0 .. Budget
    BY DEF NoNapi
  <2> QED BY <2>1, <2>2, <2>3, <2>4, <2>5 DEF TypeOK, BufType
<1>4. LocalsOK
  <2>1. NoXmit \in [pkt : Nat, shape : Seq(Nat), ctx : Nat, st : {0, 1}, k : Nat,
             i : Idx, first : Tag, buf : Tag, re : BOOLEAN, ntu : Idx,
             rntc : Tag, rflgen : {0, 1}]
    BY DEF NoXmit
  <2>2. NoNapi \in [tag : Tag, cleaned : BOOLEAN, budget : 0 .. Budget, ok : BOOLEAN]
    BY DEF NoNapi
  <2> QED BY <2>1, <2>2 DEF LocalsOK, Pkt
<1>5. DeviceOK
  BY FS_EmptySet DEF DeviceOK
<1>6. PathInv
  BY DEF PathInv, Base
<1> QED BY <1>3, <1>4, <1>5, <1>6 DEF Types

BufRec == [type : BufType, skb : Pkt \cup {Null}, next : Tag \cup {Null}, rs : Idx]
XmRec == [pkt : Nat, shape : Seq(Nat), ctx : Nat, st : {0, 1}, k : Nat,
          i : Idx, first : Tag, buf : Tag, re : BOOLEAN, ntu : Idx,
          rntc : Tag, rflgen : {0, 1}]
NcRec == [tag : Tag, cleaned : BOOLEAN, budget : 0 .. Budget, ok : BOOLEAN]
UnfRec == [pkt : Pkt, tag : Tag, end : Idx, n : Nat, re : BOOLEAN]
ComplRec == [type : ComplType, tag : Tag, head : Idx]

(* The same, one conjunct for what one kind of action writes               *)
TyRing  == {ntu, ntc, last_re, tail, head} \subseteq Idx
TyRfl   == rring \in [Tag -> [id : Tag, gen : {0, 1}]] /\ rntu \in Tag /\ rgen \in {0, 1}
TyTake  == rntc \in Tag /\ rflgen \in {0, 1}
TyCtr   == pending \in 0 .. CtrMod - 1 /\ compls \in 0 .. CtrMod - 1
TyFlags == {stopped, more, moved} \subseteq BOOLEAN
TyBufs  == bufs \in [Tag -> BufRec]
TyXm    == /\ xpc \in {"idle", "stop", "recheck", "first", "map"}
           /\ xm \in XmRec
           /\ xpc # "idle" => xm.pkt = npkt + 1 /\ npkt < MaxPkt /\ Len(xm.shape) > 0
           /\ xpc = "map" => xm.k \in 1 .. Len(xm.shape)
TyNc    == /\ npc \in {"idle", "loop", "chain", "wake"} /\ nc \in NcRec
           /\ npc = "chain" => nc.budget > 0
TyTimer == timers \in [Tag -> {"none", "armed", "freed"}]
TyPkt   == /\ npkt \in 0 .. MaxPkt /\ freed \in [Pkt -> Nat]
           /\ nmiss \in Nat /\ nfault \in Nat
TyUnf   == unfetched \in Seq(UnfRec)
TyCompl == complq \in Seq(ComplRec)
TyDev   == /\ inflight \subseteq [pkt : Pkt, tag : Tag] /\ IsFiniteSet(inflight)
           /\ exc \subseteq {Compl(ty, t) : ty \in {"MISS", "REINJECT"}, t \in Tag}
           /\ IsFiniteSet(exc)
AllTypes == /\ TyRing /\ TyRfl /\ TyTake /\ TyCtr /\ TyFlags /\ TyBufs /\ TyXm
            /\ TyNc /\ TyTimer /\ TyPkt /\ TyUnf /\ TyCompl /\ TyDev

(* The types of all variables, in groups                                   *)
LEMMA TypesAre == Types <=> AllTypes
<1>1. TypeOK => {nc.budget} \subseteq 0 .. Budget
  BY DEF TypeOK
<1>2. TypeOK <=> /\ TyRing /\ TyRfl /\ TyTake /\ TyCtr /\ TyFlags /\ TyBufs /\ TyTimer
                 /\ xpc \in {"idle", "stop", "recheck", "first", "map"}
                 /\ npc \in {"idle", "loop", "chain", "wake"}
                 /\ nc.budget \in 0 .. Budget
  BY DEF TypeOK, TyRing, TyRfl, TyTake, TyCtr, TyFlags, TyBufs, TyTimer, BufRec, BufType
<1>3. nc \in NcRec => nc.budget \in 0 .. Budget
  BY DEF NcRec
<1>4. LocalsOK <=> /\ xm \in XmRec /\ nc \in NcRec /\ TyPkt
                   /\ xpc # "idle" => xm.pkt = npkt + 1 /\ npkt < MaxPkt /\ Len(xm.shape) > 0
                   /\ xpc = "map" => xm.k \in 1 .. Len(xm.shape)
                   /\ npc = "chain" => nc.budget > 0
  BY DEF LocalsOK, XmRec, NcRec, TyPkt
<1>5. DeviceOK <=> TyUnf /\ TyCompl /\ TyDev
  BY DEF DeviceOK, TyUnf, TyCompl, TyDev, UnfRec, ComplRec
<1> QED BY <1>2, <1>3, <1>4, <1>5 DEF Types, AllTypes, TyXm, TyNc

(* The locals of an idle xmit and an idle poll are of their types.         *)
LEMMA NoXmitIs == NoXmit \in XmRec /\ NoNapi \in NcRec
BY Sizes DEF NoXmit, NoNapi, XmRec, NcRec

(* What the actions are built of                                           *)
LEMMA TakeTypes ==
  ASSUME TyTake, TakeTag
  PROVE  TyTake'
<1>1. rntc + 1 \in Int
  BY DEF TyTake, Tag
<1>2. rntc' \in Tag
  BY <1>1, Sizes DEF TakeTag
<1>3. rflgen' \in {0, 1}
  BY DEF TakeTag, TyTake
<1> QED BY <1>2, <1>3 DEF TyTake

(* idpf_post_buf_refill keeps the refill queue of its type.                *)
LEMMA PostTypes ==
  ASSUME TyRfl, NEW t \in Tag, PostTag(t)
  PROVE  TyRfl'
<1>1. rntu + 1 \in Int
  BY DEF TyRfl, Tag
<1>2. rntu' \in Tag
  BY <1>1, Sizes DEF PostTag
<1>3. rgen' \in {0, 1}
  BY DEF PostTag, TyRfl
<1>4. rring' \in [Tag -> [id : Tag, gen : {0, 1}]]
  BY DEF PostTag, TyRfl
<1> QED BY <1>2, <1>3, <1>4 DEF TyRfl

(* A buffer with another type is a buffer.                                 *)
LEMMA BufSet ==
  ASSUME TyBufs, NEW t \in Tag, NEW ty \in BufType
  PROVE  [bufs EXCEPT ![t].type = ty] \in [Tag -> BufRec]
BY DEF TyBufs, BufRec

(* Freeing an skb keeps the counts numbers.                                *)
LEMMA FreeTypes ==
  ASSUME NEW p, freed \in [Pkt -> Nat], Free(p)
  PROVE  freed' \in [Pkt -> Nat]
<1>1. freed' = [freed EXCEPT ![p] = freed[p] + 1]
  BY DEF Free
<1>2. CASE p \in Pkt
  <2>1. freed[p] + 1 \in Nat
    BY <1>2
  <2> QED BY <1>1, <2>1
<1>3. CASE p \notin Pkt
  <2>1. freed' = freed
    BY <1>1, <1>3
  <2> QED BY <2>1
<1> QED BY <1>2, <1>3

(* Every action keeps the types.                                           *)
LEMMA TypesXmitStart ==
  ASSUME AllTypes, NEW s \in Shapes, NEW c \in Ctx, NEW mr \in BOOLEAN,
         XmitStart(s, c, mr)
  PROVE  AllTypes'
<1> USE DEF AllTypes
<1>1. TyRing' /\ TyRfl' /\ TyTake' /\ TyCtr'
  BY DEF XmitStart, ringVars, rfVars, devVars, TyRing, TyRfl, TyTake, TyCtr
<1>2. TyFlags' /\ TyBufs' /\ TyTimer' /\ TyPkt'
  BY DEF XmitStart, histVars, TyFlags, TyBufs, TyTimer, TyPkt
<1>3. TyNc' /\ TyUnf' /\ TyCompl' /\ TyDev'
  BY DEF XmitStart, napiVars, devVars, TyNc, TyUnf, TyCompl, TyDev
<1>4. TyXm'
  <2>1. s \in Seq(Nat) /\ Len(s) > 0 /\ c \in Nat
    BY PacketAssumption
  <2>2. npkt + 1 \in Nat
    BY DEF TyPkt
  <2>3. [NoXmit EXCEPT !.pkt = npkt + 1, !.shape = s, !.ctx = c] \in XmRec
    BY <2>1, <2>2, NoXmitIs DEF XmRec
  <2>4. /\ xm' = [NoXmit EXCEPT !.pkt = npkt + 1, !.shape = s, !.ctx = c]
        /\ xpc' \in {"first", "stop"} /\ npkt' = npkt /\ npkt < MaxPkt
    BY DEF XmitStart
  <2>5. xm'.pkt = npkt + 1 /\ xm'.shape = s
    BY <2>4 DEF NoXmit
  <2> QED BY <2>1, <2>3, <2>4, <2>5 DEF TyXm
<1> QED BY <1>1, <1>2, <1>3, <1>4

(* A packet that is dropped keeps the types.                               *)
LEMMA TypesXmitRefuse ==
  ASSUME AllTypes, NEW mr \in BOOLEAN, XmitRefuse(mr)
  PROVE  AllTypes'
<1> USE DEF AllTypes
<1>1. TyRing' /\ TyRfl' /\ TyTake' /\ TyCtr'
  BY DEF XmitRefuse, rfVars, devVars, TyRing, TyRfl, TyTake, TyCtr
<1>2. TyFlags' /\ TyBufs' /\ TyTimer'
  BY DEF XmitRefuse, histVars, TyFlags, TyBufs, TyTimer
<1>3. TyNc' /\ TyUnf' /\ TyCompl' /\ TyDev'
  BY DEF XmitRefuse, napiVars, devVars, TyNc, TyUnf, TyCompl, TyDev
<1>4. TyXm'
  BY DEF XmitRefuse, xmitVars, TyXm
<1>5. TyPkt'
  <2>1. npkt + 1 \in Pkt
    BY Sizes DEF XmitRefuse, TyPkt, Pkt
  <2>2. freed' \in [Pkt -> Nat]
    BY <2>1, FreeTypes DEF XmitRefuse, TyPkt
  <2>3. npkt' = npkt + 1 /\ nmiss' = nmiss /\ nfault' = nfault
    BY DEF XmitRefuse, histVars
  <2>4. nmiss \in Nat /\ nfault \in Nat
    BY DEF TyPkt
  <2>5. npkt + 1 \in 0 .. MaxPkt
    BY <2>1 DEF Pkt
  <2> QED BY <2>2, <2>3, <2>4, <2>5 DEF TyPkt
<1> QED BY <1>1, <1>2, <1>3, <1>4, <1>5

(* Stopping the queue keeps the types.                                     *)
LEMMA TypesXmitStop ==
  ASSUME AllTypes, XmitStop
  PROVE  AllTypes'
<1> USE DEF AllTypes
<1>1. TyRing' /\ TyRfl' /\ TyTake' /\ TyCtr'
  BY DEF XmitStop, ringVars, rfVars, devVars, TyRing, TyRfl, TyTake, TyCtr
<1>2. TyFlags' /\ TyBufs' /\ TyTimer' /\ TyPkt'
  BY DEF XmitStop, histVars, TyFlags, TyBufs, TyTimer, TyPkt
<1>3. TyNc' /\ TyUnf' /\ TyCompl' /\ TyDev'
  BY DEF XmitStop, napiVars, devVars, TyNc, TyUnf, TyCompl, TyDev
<1>4. TyXm'
  BY DEF XmitStop, TyXm
<1> QED BY <1>1, <1>2, <1>3, <1>4

(* The second look at the room keeps the types.                            *)
LEMMA TypesXmitRecheck ==
  ASSUME AllTypes, XmitRecheck
  PROVE  AllTypes'
<1> USE DEF AllTypes
<1>1. TyRing' /\ TyRfl' /\ TyTake' /\ TyCtr'
  BY DEF XmitRecheck, rfVars, devVars, TyRing, TyRfl, TyTake, TyCtr
<1>2. TyFlags' /\ TyBufs' /\ TyTimer' /\ TyPkt'
  BY DEF XmitRecheck, histVars, TyFlags, TyBufs, TyTimer, TyPkt
<1>3. TyNc' /\ TyUnf' /\ TyCompl' /\ TyDev'
  BY DEF XmitRecheck, napiVars, devVars, TyNc, TyUnf, TyCompl, TyDev
<1>4. TyXm'
  BY NoXmitIs DEF XmitRecheck, TyXm
<1> QED BY <1>1, <1>2, <1>3, <1>4

(* The types of the locals of xmit                                         *)
LEMMA XmIs ==
  ASSUME xm \in XmRec
  PROVE  /\ xm.pkt \in Nat /\ xm.shape \in Seq(Nat) /\ xm.ctx \in Nat
         /\ xm.st \in {0, 1} /\ xm.k \in Nat /\ xm.i \in Idx /\ xm.first \in Tag
         /\ xm.buf \in Tag /\ xm.re \in BOOLEAN /\ xm.ntu \in Idx
         /\ xm.rntc \in Tag /\ xm.rflgen \in {0, 1}
BY DEF XmRec

(* The first tag of a packet keeps the types.                              *)
LEMMA TypesXmitFirst ==
  ASSUME AllTypes, NEW st \in Stamps, XmitFirst(st)
  PROVE  AllTypes'
<1> USE DEF AllTypes
<1> DEFINE i == Bump(ntu, xm.ctx + st)
           t == rring[rntc].id
<1>1. xm \in XmRec /\ xm.pkt \in Pkt /\ Len(xm.shape) > 0 /\ xm.shape \in Seq(Nat)
        /\ xm.pkt = npkt + 1 /\ npkt < MaxPkt
  <2>1. xpc = "first"
    BY DEF XmitFirst
  <2>2. xm \in XmRec /\ xm.pkt = npkt + 1 /\ npkt < MaxPkt /\ Len(xm.shape) > 0
    BY <2>1 DEF TyXm
  <2>3. npkt + 1 \in Pkt
    BY <2>2, Sizes DEF Pkt, TyPkt
  <2> QED BY <2>2, <2>3, XmIs
<1>2. i \in Idx
  <2>1. st \in {0, 1} /\ xm.ctx \in Nat
    BY <1>1, XmIs, PacketAssumption
  <2>2. xm.ctx + st \in Nat /\ ntu \in Idx
    BY <2>1 DEF TyRing
  <2> QED BY <2>2, BumpIs
<1>3. t \in Tag
  BY DEF TyRfl, TyTake
<1>4. TyRing'
  <2>1. ntu' = i /\ last_re' \in {i, last_re} /\ ntc' = ntc /\ tail' = tail /\ head' = head
    BY DEF XmitFirst, devVars
  <2> HIDE DEF i
  <2> QED BY <1>2, <2>1 DEF TyRing
<1>5. TyRfl' /\ TyTake'
  <2>1. TyRfl' BY DEF XmitFirst, TyRfl
  <2>2. TyTake' BY TakeTypes DEF XmitFirst
  <2> QED BY <2>1, <2>2
<1>6. TyCtr'
  <2>1. pending + 1 \in Int
    BY Sizes DEF TyCtr
  <2>2. pending' \in {pending, (pending + 1) % CtrMod} /\ compls' = compls
    BY DEF XmitFirst
  <2> QED BY <2>1, <2>2, Sizes DEF TyCtr
<1>7. TyFlags' /\ TyTimer' /\ TyPkt' /\ TyNc' /\ TyUnf' /\ TyCompl' /\ TyDev'
  BY DEF XmitFirst, napiVars, devVars, TyFlags, TyTimer, TyPkt, TyNc, TyUnf, TyCompl, TyDev
<1>8. TyBufs'
  <2>1. bufs' = [bufs EXCEPT ![t].skb = xm.pkt]
    BY DEF XmitFirst
  <2> HIDE DEF t
  <2> QED BY <2>1, <1>1, <1>3 DEF TyBufs, BufRec
<1>9. TyXm'
  <2> DEFINE r == NeedRe(i)
             x == [xm EXCEPT !.k = 1, !.i = i, !.first = t, !.buf = t, !.re = r, !.st = st,
                             !.ntu = ntu, !.rntc = rntc, !.rflgen = rflgen]
  <2>1. r \in BOOLEAN
    BY DEF NeedRe
  <2>2. xm' = x /\ xpc' = "map" /\ npkt' = npkt
    BY DEF XmitFirst
  <2>3. st \in {0, 1} /\ ntu \in Idx /\ rntc \in Tag /\ rflgen \in {0, 1}
    BY PacketAssumption DEF TyRing, TyTake
  <2>4. x.pkt = xm.pkt /\ x.shape = xm.shape /\ x.k = 1
    BY <1>1 DEF XmRec
  <2> HIDE DEF r, i, t
  <2>5. x \in XmRec
    BY <2>1, <2>3, <1>1, <1>2, <1>3 DEF XmRec
  <2>6. 1 \in 1 .. Len(xm.shape)
    BY <1>1
  <2> HIDE DEF x
  <2> QED BY <2>2, <2>4, <2>5, <2>6, <1>1 DEF TyXm
<1> QED BY <1>4, <1>5, <1>6, <1>7, <1>8, <1>9

(* A rollback keeps the types.                                             *)
LEMMA TypesXmitFault ==
  ASSUME AllTypes, XmitFault
  PROVE  AllTypes'
<1> USE DEF AllTypes
<1>1. xpc = "map" /\ xm \in XmRec /\ xm.pkt = npkt + 1 /\ npkt < MaxPkt
  BY DEF TyXm, XmitFault
<1>2. TyRing' /\ TyTake'
  BY <1>1, XmIs DEF XmitFault, Rollback, devVars, TyRing, TyTake
<1>3. TyRfl' /\ TyCtr' /\ TyFlags' /\ TyTimer' /\ TyNc' /\ TyUnf' /\ TyCompl' /\ TyDev'
  BY DEF XmitFault, napiVars, devVars, TyRfl, TyCtr, TyFlags, TyTimer, TyNc, TyUnf, TyCompl, TyDev
<1>4. TyBufs'
  <2>1. bufs' = [t \in Tag |-> IF t \in Built THEN EmptyBuf ELSE bufs[t]]
    BY DEF XmitFault, Rollback
  <2>2. EmptyBuf \in BufRec
    BY Sizes DEF EmptyBuf, BufRec, BufType
  <2> QED BY <2>1, <2>2 DEF TyBufs
<1>5. TyXm'
  BY NoXmitIs DEF XmitFault, Rollback, TyXm
<1>6. TyPkt'
  <2>1. npkt + 1 \in Pkt /\ npkt + 1 \in 0 .. MaxPkt
    BY <1>1, Sizes DEF TyPkt, Pkt
  <2>2. freed' \in [Pkt -> Nat]
    BY <1>1, <2>1, FreeTypes DEF XmitFault, Rollback, TyPkt
  <2> QED BY <2>1, <2>2 DEF XmitFault, Rollback, TyPkt
<1> QED BY <1>2, <1>3, <1>4, <1>5, <1>6

(* A buffer of several keeps the types.                                    *)
LEMMA TypesXmitFrag ==
  ASSUME AllTypes, XmitFrag
  PROVE  AllTypes'
<1> USE DEF AllTypes
<1> DEFINE t == rring[rntc].id
           i == Bump(xm.i, xm.shape[xm.k])
<1>1. xpc = "map" /\ xm \in XmRec /\ xm.pkt = npkt + 1 /\ npkt < MaxPkt
        /\ xm.k \in 1 .. Len(xm.shape) /\ xm.k < Len(xm.shape)
  BY DEF TyXm, XmitFrag
<1>2. TyRing' /\ TyRfl' /\ TyCtr' /\ TyFlags' /\ TyTimer' /\ TyPkt'
  BY DEF XmitFrag, ringVars, devVars, histVars, TyRing, TyRfl, TyCtr, TyFlags, TyTimer, TyPkt
<1>3. TyTake'
  BY TakeTypes DEF XmitFrag
<1>4. TyNc' /\ TyUnf' /\ TyCompl' /\ TyDev'
  BY DEF XmitFrag, napiVars, devVars, TyNc, TyUnf, TyCompl, TyDev
<1>5. t \in Tag
  BY DEF TyRfl, TyTake
<1>6. i \in Idx
  <2>1. xm.i \in Idx /\ xm.shape[xm.k] \in Nat
    BY <1>1, XmIs
  <2> QED BY <2>1, BumpIs
<1>7. TyBufs'
  <2>1. bufs' = [bufs EXCEPT ![xm.buf] = [@ EXCEPT !.type = "FRAG", !.next = t]]
    BY DEF XmitFrag
  <2>2. xm.buf \in Tag
    BY <1>1, XmIs
  <2> HIDE DEF t
  <2> QED BY <2>1, <2>2, <1>5 DEF TyBufs, BufRec, BufType
<1>8. TyXm'
  <2> DEFINE x == [xm EXCEPT !.k = xm.k + 1, !.buf = t, !.i = i]
  <2>1. xm' = x /\ xpc' = "map" /\ npkt' = npkt
    BY <1>1 DEF XmitFrag, XmRec
  <2> HIDE DEF t, i
  <2>2. xm.k + 1 \in Nat /\ xm.k + 1 \in 1 .. Len(xm.shape) /\ Len(xm.shape) > 0
    BY <1>1, XmIs
  <2>3. x \in XmRec /\ x.pkt = xm.pkt /\ x.shape = xm.shape /\ x.k = xm.k + 1
    BY <2>2, <1>1, <1>5, <1>6 DEF XmRec
  <2> HIDE DEF x
  <2> QED BY <2>1, <2>2, <2>3, <1>1 DEF TyXm
<1> QED BY <1>2, <1>3, <1>4, <1>7, <1>8

(* The last buffer of a packet keeps the types.                            *)
LEMMA TypesXmitLast ==
  ASSUME AllTypes, XmitLast
  PROVE  AllTypes'
<1> USE DEF AllTypes
<1> DEFINE i == Bump(xm.i, xm.shape[xm.k] - 1)
<1>1. xpc = "map" /\ xm \in XmRec /\ xm.pkt = npkt + 1 /\ npkt < MaxPkt
        /\ xm.k \in 1 .. Len(xm.shape) /\ xm.k = Len(xm.shape)
  BY DEF TyXm, XmitLast
<1>2. i \in Idx /\ Bump(i, 1) \in Idx
  <2>1. xm.i \in Idx /\ xm.shape[xm.k] \in Nat
    BY <1>1, XmIs
  <2>2. xm.i + (xm.shape[xm.k] - 1) \in Int
    BY <2>1 DEF Idx
  <2>3. i \in Idx
    BY <2>2, Sizes DEF Bump
  <2> HIDE DEF i
  <2> QED BY <2>3, BumpIs
<1>3. /\ ntu' = Bump(i, 1) /\ tail' \in {Bump(i, 1), tail} /\ ntc' = ntc
      /\ last_re' = last_re /\ head' = head
      /\ pending' = (pending + 1) % CtrMod /\ compls' = compls
      /\ xpc' = "idle" /\ xm' = NoXmit /\ npkt' = npkt + 1 /\ freed' = freed
      /\ nmiss' = nmiss /\ nfault' = nfault
      /\ unfetched' = Append(unfetched, [pkt |-> xm.pkt, tag |-> xm.first, end |-> Bump(i, 1),
            n |-> xm.ctx + xm.st + Sum(xm.shape), re |-> xm.re])
  BY DEF XmitLast, Doorbell, histVars
<1>4. TyRfl' /\ TyTake' /\ TyFlags' /\ TyTimer'
  BY DEF XmitLast, rfVars, histVars, TyRfl, TyTake, TyFlags, TyTimer
<1>5. TyNc' /\ TyCompl' /\ TyDev'
  BY DEF XmitLast, napiVars, TyNc, TyCompl, TyDev
<1> HIDE DEF i
<1>6. TyRing'
  BY <1>2, <1>3 DEF TyRing
<1>7. TyCtr'
  <2>1. pending + 1 \in Int
    BY Sizes DEF TyCtr
  <2> QED BY <2>1, <1>3, Sizes DEF TyCtr
<1>8. TyXm'
  BY <1>3, NoXmitIs DEF TyXm
<1>9. TyPkt'
  BY <1>1, <1>3, Sizes DEF TyPkt
<1>10. TyUnf'
  <2>1. xm.pkt \in Pkt
    BY <1>1, Sizes DEF TyPkt, Pkt
  <2>2. xm.first \in Tag /\ xm.re \in BOOLEAN /\ xm.shape \in Seq(Nat) /\ xm.ctx \in Nat /\ xm.st \in Nat
    BY <1>1, XmIs
  <2>3. Sum(xm.shape) \in Nat
    BY <2>2, SumNat
  <2>4. xm.ctx + xm.st + Sum(xm.shape) \in Nat
    BY <2>2, <2>3
  <2>5. [pkt |-> xm.pkt, tag |-> xm.first, end |-> Bump(i, 1),
            n |-> xm.ctx + xm.st + Sum(xm.shape), re |-> xm.re] \in UnfRec
    BY <2>1, <2>2, <2>4, <1>2 DEF UnfRec
  <2> QED BY <2>5, <1>3 DEF TyUnf
<1>11. TyBufs'
  <2>1. xm.buf \in Tag /\ xm.first \in Tag
    BY <1>1, XmIs
  <2>2. [bufs EXCEPT ![xm.buf] = [@ EXCEPT !.type = "FRAG", !.next = Null]] \in [Tag -> BufRec]
    BY <2>1 DEF TyBufs, BufRec, BufType
  <2> DEFINE b == [bufs EXCEPT ![xm.buf] = [@ EXCEPT !.type = "FRAG", !.next = Null]]
             ty == IF xm.st = 1 THEN "SKB_TSTAMP" ELSE "SKB"
  <2>3. ty \in BufType
    BY DEF BufType
  <2>4. bufs' = [b EXCEPT ![xm.first] = [@ EXCEPT !.rs = i, !.type = ty]]
    BY DEF XmitLast, i
  <2> HIDE DEF b, ty
  <2>5. b \in [Tag -> BufRec]
    BY <2>2 DEF b
  <2>6. /\ b[xm.first] \in BufRec
        /\ [b[xm.first] EXCEPT !.rs = i, !.type = ty] \in BufRec
    BY <2>1, <2>3, <2>5, <1>2 DEF BufRec
  <2> DEFINE r == [b[xm.first] EXCEPT !.rs = i, !.type = ty]
  <2>7. bufs' = [b EXCEPT ![xm.first] = r]
    BY <2>4
  <2> HIDE DEF r
  <2> QED BY <2>1, <2>5, <2>6, <2>7 DEF TyBufs, r
<1> QED BY <1>4, <1>5, <1>6, <1>7, <1>8, <1>9, <1>10, <1>11

(* The types of the locals of the poll                                     *)
LEMMA NcIs ==
  ASSUME nc \in NcRec
  PROVE  nc.tag \in Tag /\ nc.cleaned \in BOOLEAN /\ nc.budget \in 0 .. Budget /\ nc.ok \in BOOLEAN
BY DEF NcRec

(* The types of a completion                                               *)
LEMMA ComplIs ==
  ASSUME NEW c \in ComplRec
  PROVE  c.type \in ComplType /\ c.tag \in Tag /\ c.head \in Idx
BY DEF ComplRec

(* The end of a turn of the poll keeps the types.                          *)
LEMMA NextComplTypes ==
  ASSUME TyNc, TyCtr, TyRfl, nc.budget > 0, NextCompl
  PROVE  TyNc' /\ compls' \in 0 .. CtrMod - 1 /\ TyRfl'
<1>1. nc \in NcRec /\ nc.budget - 1 \in 0 .. Budget
  <2>1. nc \in NcRec
    BY DEF TyNc
  <2>2. nc.budget \in 0 .. Budget
    BY <2>1, NcIs
  <2>3. Budget \in Nat
    BY Sizes
  <2> QED BY <2>1, <2>2, <2>3
<1>2. TyNc'
  <2> DEFINE n == nc.budget - 1
  <2>1. nc' = [nc EXCEPT !.budget = n] /\ npc' = "loop"
    BY DEF NextCompl
  <2> HIDE DEF n
  <2>2. nc' \in NcRec
    BY <1>1, <2>1 DEF NcRec, n
  <2> QED BY <2>1, <2>2 DEF TyNc
<1>3. compls + 1 \in Int
  BY Sizes DEF TyCtr
<1> QED BY <1>2, <1>3, Sizes DEF NextCompl, TyRfl

(* Cleaning a first buffer keeps the types.                                *)
LEMMA CleanBufsTypes ==
  ASSUME TyNc, TyRfl, TyBufs, freed \in [Pkt -> Nat], NEW t \in Tag, nc.budget > 0,
         CleanBufs(t)
  PROVE  TyNc' /\ TyRfl' /\ TyBufs' /\ freed' \in [Pkt -> Nat] /\ compls' = compls
<1>1. TyNc'
  BY DEF CleanBufs, TyNc, NcRec
<1>2. TyRfl'
  BY PostTypes DEF CleanBufs
<1>3. "EMPTY" \in BufType
  BY DEF BufType
<1>4. TyBufs'
  BY <1>3, BufSet DEF CleanBufs, TyBufs
<1>5. freed' \in [Pkt -> Nat]
  BY FreeTypes DEF CleanBufs
<1> QED BY <1>1, <1>2, <1>4, <1>5 DEF CleanBufs

(* A completion that is read                                               *)
LEMMA HeadIs ==
  ASSUME TyCompl, complq # <<>>
  PROVE  Head(complq) \in ComplRec /\ Tail(complq) \in Seq(ComplRec)
BY DEF TyCompl

(* A completion that is read keeps the types.                              *)
LEMMA TypesNapiCompl ==
  ASSUME AllTypes, NapiCompl
  PROVE  AllTypes'
<1> USE DEF AllTypes
<1> DEFINE c == Head(complq)
<1>1. /\ complq # <<>> /\ nc.budget > 0 /\ complq' = Tail(complq)
      /\ NapiRe(c) \/ NapiRs(c) \/ NapiMiss(c) \/ NapiReinject(c)
      /\ UNCHANGED <<ntu, last_re, tail, rfVars, pending, stopped, xmitVars,
                 devVars, npkt, more, nmiss>>
  BY DEF NapiCompl
<1>2. c \in ComplRec /\ c.type \in ComplType /\ c.tag \in Tag /\ c.head \in Idx
        /\ TyCompl'
  BY <1>1, HeadIs, ComplIs DEF TyCompl
<1> HIDE DEF c
<1>3. TyTake' /\ TyXm' /\ TyUnf' /\ TyDev'
  BY <1>1 DEF rfVars, xmitVars, devVars, TyTake, TyXm, TyUnf, TyDev
<1>4. /\ ntc' \in Idx /\ TyRfl' /\ compls' \in 0 .. CtrMod - 1 /\ TyBufs' /\ TyNc'
      /\ TyTimer' /\ freed' \in [Pkt -> Nat] /\ nfault' \in Nat /\ moved' \in BOOLEAN
  <2>0. /\ ntc \in Idx /\ freed \in [Pkt -> Nat] /\ nfault \in Nat /\ moved \in BOOLEAN
        /\ compls \in 0 .. CtrMod - 1
    BY DEF TyRing, TyPkt, TyFlags, TyCtr
  <2>c. ASSUME CleanBufs(c.tag)
        PROVE  TyNc' /\ TyRfl' /\ TyBufs' /\ freed' \in [Pkt -> Nat] /\ compls' \in 0 .. CtrMod - 1
    BY <2>0, <2>c, <1>1, <1>2, CleanBufsTypes
  <2>n. ASSUME NextCompl
        PROVE  TyNc' /\ compls' \in 0 .. CtrMod - 1 /\ TyRfl'
    BY <2>n, <1>1, NextComplTypes
  <2>1. CASE NapiRe(c)
    <3>1. /\ ntc' = c.head /\ NextCompl /\ bufs' = bufs /\ freed' = freed
          /\ timers' = timers /\ moved' = moved /\ nfault' = nfault
      BY <2>1 DEF NapiRe
    <3> QED BY <3>1, <2>0, <2>n, <1>2 DEF TyBufs, TyTimer
  <2>2. CASE NapiRs(c)
    <3>1. /\ CleanBufs(c.tag) \/ (NextCompl /\ bufs' = bufs /\ freed' = freed)
          /\ ntc' = ntc /\ timers' = timers /\ moved' = moved /\ nfault' = nfault
      BY <2>2 DEF NapiRs
    <3> QED BY <3>1, <2>0, <2>n, <2>c DEF TyBufs, TyTimer
  <2>3. CASE NapiMiss(c)
    <3>1. ntc' = ntc /\ moved' = moved
      BY <2>3 DEF NapiMiss
    <3>2. CASE CleanBufs(c.tag)
      <4>1. timers' = timers \/ timers' = [timers EXCEPT ![c.tag] = "armed"]
        BY <2>3 DEF NapiMiss
      <4>2. nfault' = nfault \/ nfault' = nfault + 1
        BY <2>3 DEF NapiMiss
      <4>3. TyTimer'
        BY <4>1 DEF TyTimer
      <4> QED BY <3>1, <3>2, <4>2, <4>3, <2>0, <2>c
    <3>3. CASE /\ timers' = [timers EXCEPT ![c.tag] = "armed"]
               /\ bufs' = [bufs EXCEPT ![c.tag].type = "MISS"]
               /\ NextCompl
               /\ UNCHANGED <<freed, nfault>>
      <4>1. TyBufs'
        <5>1. "MISS" \in BufType
          BY DEF BufType
        <5> QED BY <5>1, <3>3, <1>2, BufSet DEF TyBufs
      <4>2. TyTimer'
        BY <3>3 DEF TyTimer
      <4> QED BY <3>1, <3>3, <4>1, <4>2, <2>0, <2>n
    <3> QED BY <3>2, <3>3, <2>3 DEF NapiMiss
  <2>4. CASE NapiReinject(c)
    <3>1. NextCompl /\ freed' = freed /\ nfault' = nfault
      BY <2>4 DEF NapiReinject
    <3>2. CASE bufs[c.tag].type = "MISS"
      <4>1. ntc' = ntc /\ moved' = moved /\ timers' = [timers EXCEPT ![c.tag] = "none"]
        BY <2>4, <3>2 DEF NapiReinject
      <4> DEFINE ty == IF timers[c.tag] = "none" THEN bufs[c.tag].type ELSE "EMPTY"
      <4>2. bufs' = [bufs EXCEPT ![c.tag].type = ty]
        BY <2>4, <3>2, <1>2 DEF NapiReinject, TyBufs, BufRec
      <4>3. ty \in BufType
        BY <3>2 DEF BufType
      <4> HIDE DEF ty
      <4>4. TyBufs'
        BY <4>2, <4>3, <1>2, BufSet DEF TyBufs
      <4>5. TyTimer'
        BY <4>1 DEF TyTimer
      <4> QED BY <3>1, <4>1, <4>4, <4>5, <2>0, <2>n
    <3>3. CASE bufs[c.tag].type = "SKB"
      <4>1. /\ ntc' = Bump(bufs[c.tag].rs, 1) /\ moved' = TRUE /\ timers' = timers
            /\ bufs' = [bufs EXCEPT ![c.tag].type = "REINJECT"]
        BY <2>4, <3>3 DEF NapiReinject
      <4>2. bufs[c.tag].rs \in Idx
        BY <1>2 DEF TyBufs, BufRec
      <4>3. ntc' \in Idx
        BY <4>1, <4>2, BumpIs
      <4>4. TyBufs'
        <5>1. "REINJECT" \in BufType
          BY DEF BufType
        <5> QED BY <5>1, <4>1, <1>2, BufSet DEF TyBufs
      <4> QED BY <3>1, <4>1, <4>3, <4>4, <2>0, <2>n DEF TyTimer
    <3>4. CASE bufs[c.tag].type \notin {"MISS", "SKB"}
      <4>1. bufs' = bufs /\ ntc' = ntc /\ timers' = timers /\ moved' = moved
        BY <2>4, <3>4 DEF NapiReinject
      <4> QED BY <3>1, <4>1, <2>0, <2>n DEF TyBufs, TyTimer
    <3> QED BY <3>2, <3>3, <3>4
  <2> QED BY <1>1, <2>1, <2>2, <2>3, <2>4
<1>5. TyRing'
  BY <1>1, <1>4 DEF TyRing, devVars
<1>6. TyCtr' /\ TyFlags' /\ TyPkt'
  BY <1>1, <1>4 DEF TyCtr, TyFlags, TyPkt
<1> QED BY <1>2, <1>3, <1>4, <1>5, <1>6

(* A step along a chain of buffers keeps the types.                        *)
LEMMA TypesNapiChain ==
  ASSUME AllTypes, NapiChain
  PROVE  AllTypes'
<1> USE DEF AllTypes
<1> DEFINE t == nc.tag
           nx == bufs[t].next
           left == IF bufs[t].type = "EMPTY" THEN [bufs EXCEPT ![t] = EmptyBuf] ELSE bufs
<1>1. npc = "chain" /\ nc \in NcRec /\ t \in Tag /\ nc.budget > 0
  BY NcIs DEF NapiChain, TyNc
<1>2. TyRing' /\ TyTake' /\ TyFlags' /\ TyXm' /\ TyTimer' /\ TyPkt' /\ TyUnf' /\ TyCompl' /\ TyDev'
  BY DEF NapiChain, ringVars, rfVars, xmitVars, devVars, histVars, TyRing, TyTake, TyFlags,
         TyXm, TyTimer, TyPkt, TyUnf, TyCompl, TyDev
<1>3. left \in [Tag -> BufRec]
  <2>1. EmptyBuf \in BufRec
    BY Sizes DEF EmptyBuf, BufRec, BufType
  <2> QED BY <2>1 DEF TyBufs
<1>4. pending' = pending
  BY DEF NapiChain
<1>5. CASE nx = Null
  <2>1. /\ bufs' = left /\ compls' = (compls + 1) % CtrMod /\ npc' = "loop"
        /\ nc' = [nc EXCEPT !.budget = nc.budget - 1]
        /\ rring' = rring /\ rntu' = rntu /\ rgen' = rgen
    <3>1. \/ /\ nx = Null
             /\ bufs' = left
             /\ compls' = (compls + 1) % CtrMod
             /\ nc' = [nc EXCEPT !.budget = @ - 1]
             /\ npc' = "loop"
             /\ UNCHANGED <<rring, rntu, rgen>>
          \/ nx # Null
      BY DEF NapiChain
    <3> QED BY <3>1, <1>5
  <2> HIDE DEF left
  <2>2. TyBufs' /\ TyRfl'
    BY <2>1, <1>3 DEF TyBufs, TyRfl
  <2>3. NextCompl
    BY <2>1 DEF NextCompl
  <2>4. TyNc' /\ compls' \in 0 .. CtrMod - 1
    BY <2>3, <1>1, NextComplTypes
  <2> QED BY <2>2, <2>4, <1>2, <1>4 DEF TyCtr
<1>6. CASE nx # Null
  <2>1. /\ bufs' = [left EXCEPT ![nx].type = "EMPTY"] /\ PostTag(nx)
        /\ nc' = [nc EXCEPT !.tag = nx] /\ compls' = compls /\ npc' = npc
    <3>1. \/ nx = Null
          \/ /\ nx # Null
             /\ bufs' = [left EXCEPT ![nx].type = "EMPTY"]
             /\ PostTag(nx)
             /\ nc' = [nc EXCEPT !.tag = nx]
             /\ UNCHANGED <<compls, npc>>
      BY DEF NapiChain
    <3> QED BY <3>1, <1>6
  <2>2. nx \in Tag
    BY <1>1, <1>6 DEF TyBufs, BufRec
  <2> HIDE DEF left, nx
  <2>3. TyBufs'
    BY <2>1, <2>2, <1>3 DEF TyBufs, BufRec, BufType
  <2>4. TyRfl'
    BY <2>1, <2>2, PostTypes
  <2>5. nc' \in NcRec /\ nc'.budget = nc.budget
    BY <1>1, <2>1, <2>2 DEF NcRec
  <2> QED BY <2>1, <2>3, <2>4, <2>5, <1>1, <1>2, <1>4 DEF TyCtr, TyNc
<1> QED BY <1>5, <1>6

(* The end of the loop of the poll keeps the types.                        *)
LEMMA TypesNapiOut ==
  ASSUME AllTypes, NapiOut
  PROVE  AllTypes'
<1> USE DEF AllTypes
<1>1. TyRing' /\ TyRfl' /\ TyTake' /\ TyCtr' /\ TyFlags' /\ TyBufs' /\ TyTimer' /\ TyPkt'
  BY DEF NapiOut, ringVars, rfVars, devVars, histVars, TyRing, TyRfl, TyTake, TyCtr, TyFlags, TyBufs,
         TyTimer, TyPkt
<1>2. TyXm' /\ TyUnf' /\ TyCompl' /\ TyDev'
  BY DEF NapiOut, xmitVars, devVars, TyXm, TyUnf, TyCompl, TyDev
<1>3. TyNc'
  <2> DEFINE ok == ComplqOk
  <2>1. nc' = [nc EXCEPT !.ok = ok] /\ npc' = "wake" /\ ok \in BOOLEAN
    BY DEF NapiOut, ComplqOk
  <2> HIDE DEF ok
  <2>2. nc' \in NcRec
    BY <2>1 DEF TyNc, NcRec
  <2> QED BY <2>1, <2>2 DEF TyNc
<1> QED BY <1>1, <1>2, <1>3

(* The end of the poll keeps the types.                                    *)
LEMMA TypesNapiWake ==
  ASSUME AllTypes, NapiWake
  PROVE  AllTypes'
<1> USE DEF AllTypes
<1>1. TyRing' /\ TyRfl' /\ TyTake' /\ TyCtr' /\ TyBufs' /\ TyTimer' /\ TyPkt'
  BY DEF NapiWake, ringVars, rfVars, devVars, histVars, TyRing, TyRfl, TyTake, TyCtr, TyBufs,
         TyTimer, TyPkt
<1>2. TyXm' /\ TyUnf' /\ TyCompl' /\ TyDev'
  BY DEF NapiWake, xmitVars, devVars, TyXm, TyUnf, TyCompl, TyDev
<1>3. TyNc'
  BY NoXmitIs DEF NapiWake, TyNc
<1>4. TyFlags'
  <2>1. stopped' \in BOOLEAN
    BY DEF NapiWake, TyFlags
  <2> QED BY <2>1 DEF NapiWake, histVars, TyFlags
<1> QED BY <1>1, <1>2, <1>3, <1>4

(* A timer that expires keeps the types.                                   *)
LEMMA TypesTimerExpire ==
  ASSUME AllTypes, NEW t \in Tag, TimerExpire(t)
  PROVE  AllTypes'
<1> USE DEF AllTypes
<1>1. TyRing' /\ TyRfl' /\ TyTake' /\ TyCtr' /\ TyFlags' /\ TyBufs'
  BY DEF TimerExpire, ringVars, rfVars, devVars, histVars, TyRing, TyRfl, TyTake, TyCtr, TyFlags, TyBufs
<1>2. TyXm' /\ TyNc' /\ TyUnf' /\ TyCompl' /\ TyDev'
  BY DEF TimerExpire, xmitVars, napiVars, devVars, TyXm, TyNc, TyUnf, TyCompl, TyDev
<1>3. TyTimer'
  BY DEF TimerExpire, TyTimer
<1>4. TyPkt'
  <2>1. freed' \in [Pkt -> Nat]
    BY FreeTypes DEF TimerExpire, TyPkt
  <2> QED BY <2>1 DEF TimerExpire, histVars, TyPkt
<1> QED BY <1>1, <1>2, <1>3, <1>4

(* What the device does not write                                          *)
LEMMA DriverTypes ==
  ASSUME AllTypes, UNCHANGED driverVars, nmiss' \in Nat
  PROVE  /\ head' \in Idx => TyRing'
         /\ TyRfl' /\ TyTake' /\ TyCtr' /\ TyFlags' /\ TyBufs' /\ TyTimer' /\ TyPkt'
         /\ TyXm' /\ TyNc'
<1> USE DEF AllTypes, driverVars
<1>1. head' \in Idx => TyRing'
  BY DEF ringVars, TyRing
<1>2. TyRfl' /\ TyTake' /\ TyCtr' /\ TyFlags' /\ TyBufs' /\ TyTimer' /\ TyPkt'
  BY DEF rfVars, TyRfl, TyTake, TyCtr, TyFlags, TyBufs, TyTimer, TyPkt
<1>3. TyXm' /\ TyNc'
  BY DEF xmitVars, napiVars, TyXm, TyNc
<1> QED BY <1>1, <1>2, <1>3

(* The tail lies at the end of a packet that the ring holds.               *)
LEMMA SomeUnfetched ==
  ASSUME AllTypes, PathInv, head # tail
  PROVE  /\ unfetched # <<>> /\ Head(unfetched) = unfetched[1]
         /\ unfetched[1] \in UnfRec
         /\ Tail(unfetched) \in Seq(UnfRec)
         /\ Len(Tail(unfetched)) = Len(unfetched) - 1
         /\ Len(unfetched) \in Nat \ {0}
         /\ \A k \in DOMAIN Tail(unfetched) :
              k + 1 \in DOMAIN unfetched /\ Tail(unfetched)[k] = unfetched[k + 1]
<1>1. unfetched \in Seq(UnfRec)
  BY DEF AllTypes, TyUnf
<1>2. unfetched # <<>>
  <2>1. \E k \in DOMAIN unfetched : tail = unfetched[k].end
    BY DEF PathInv
  <2> QED BY <2>1
<1> QED BY <1>1, <1>2

(* The types of a packet in the ring                                       *)
LEMMA UnfIs ==
  ASSUME NEW p \in UnfRec
  PROVE  p.pkt \in Pkt /\ p.tag \in Tag /\ p.end \in Idx /\ p.n \in Nat /\ p.re \in BOOLEAN
BY DEF UnfRec

(* The device fetches what is there, and the types are kept.               *)
LEMMA TypesHwFetch ==
  ASSUME AllTypes, PathInv, HwFetch
  PROVE  AllTypes'
<1> DEFINE p == unfetched[1]
<1>1. p \in UnfRec /\ p.pkt \in Pkt /\ p.tag \in Tag /\ p.end \in Idx
  BY SomeUnfetched, UnfIs DEF HwFetch
<1>2. /\ head' = p.end /\ unfetched' = Tail(unfetched)
      /\ inflight' = inflight \cup {[pkt |-> p.pkt, tag |-> p.tag]}
      /\ complq' \in {complq, Append(complq, [type |-> "RE", tag |-> p.tag, head |-> p.end])}
      /\ exc' = exc /\ nmiss' = nmiss /\ UNCHANGED driverVars
  BY SomeUnfetched DEF HwFetch
<1>3. Tail(unfetched) \in Seq(UnfRec)
  BY SomeUnfetched DEF HwFetch
<1> HIDE DEF p
<1>4. nmiss' \in Nat
  BY <1>2 DEF AllTypes, TyPkt
<1>5. /\ TyRing' /\ TyRfl' /\ TyTake' /\ TyCtr' /\ TyFlags' /\ TyBufs' /\ TyTimer' /\ TyPkt'
      /\ TyXm' /\ TyNc'
  BY <1>1, <1>2, <1>4, DriverTypes
<1>6. TyUnf'
  BY <1>2, <1>3 DEF TyUnf
<1>7. TyCompl'
  <2>1. [type |-> "RE", tag |-> p.tag, head |-> p.end] \in ComplRec
    BY <1>1 DEF ComplRec, ComplType
  <2> QED BY <2>1, <1>2 DEF AllTypes, TyCompl
<1>8. TyDev'
  <2> DEFINE q == [pkt |-> p.pkt, tag |-> p.tag]
  <2>2. inflight' = inflight \cup {q} /\ IsFiniteSet(inflight)
    BY <1>2 DEF AllTypes, TyDev
  <2> HIDE DEF q
  <2>1. IsFiniteSet(inflight')
    BY <2>2, FS_AddElement
  <2> USE DEF q
  <2> QED BY <2>1, <1>1, <1>2 DEF AllTypes, TyDev
<1> QED BY <1>5, <1>6, <1>7, <1>8 DEF AllTypes

(* A packet that has been sent keeps the types.                            *)
LEMMA TypesHwDone ==
  ASSUME AllTypes, NEW p \in inflight, HwDone(p)
  PROVE  AllTypes'
<1> USE DEF AllTypes
<1>1. p.tag \in Tag
  BY DEF TyDev
<1>2. /\ TyRing' /\ TyRfl' /\ TyTake' /\ TyCtr' /\ TyFlags' /\ TyBufs' /\ TyTimer' /\ TyPkt'
      /\ TyXm' /\ TyNc'
  <2>1. nmiss' \in Nat /\ head' \in Idx /\ UNCHANGED driverVars
    BY DEF HwDone, TyPkt, TyRing
  <2> QED BY <2>1, DriverTypes
<1>3. TyUnf'
  BY DEF HwDone, TyUnf
<1>4. TyCompl'
  <2>1. Compl("RS", p.tag) \in ComplRec
    BY <1>1, Sizes DEF Compl, ComplRec, ComplType
  <2> QED BY <2>1 DEF HwDone, TyCompl
<1>5. TyDev'
  <2>1. IsFiniteSet(inflight \ {p})
    BY FS_RemoveElement DEF TyDev
  <2> QED BY <2>1 DEF HwDone, TyDev
<1> QED BY <1>2, <1>3, <1>4, <1>5

(* A packet on the exception path keeps the types.                         *)
LEMMA TypesHwMiss ==
  ASSUME AllTypes, NEW p \in inflight, NEW ty \in {"MISS", "REINJECT"}, HwMiss(p, ty)
  PROVE  AllTypes'
<1> USE DEF AllTypes
<1>1. p.tag \in Tag
  BY DEF TyDev
<1>2. /\ TyRing' /\ TyRfl' /\ TyTake' /\ TyCtr' /\ TyFlags' /\ TyBufs' /\ TyTimer' /\ TyPkt'
      /\ TyXm' /\ TyNc'
  <2>1. nmiss' \in Nat /\ head' \in Idx /\ UNCHANGED driverVars
    BY DEF HwMiss, TyPkt, TyRing
  <2> QED BY <2>1, DriverTypes
<1>3. TyUnf'
  BY DEF HwMiss, TyUnf
<1>4. TyCompl'
  <2>1. Compl(ty, p.tag) \in ComplRec
    BY <1>1, Sizes DEF Compl, ComplRec, ComplType
  <2> QED BY <2>1 DEF HwMiss, TyCompl
<1>5. TyDev'
  <2> DEFINE o == IF ty = "MISS" THEN "REINJECT" ELSE "MISS"
  <2>1. IsFiniteSet(inflight \ {p})
    BY FS_RemoveElement DEF TyDev
  <2>2. o \in {"MISS", "REINJECT"} /\ exc' = exc \cup {Compl(o, p.tag)}
    BY DEF HwMiss
  <2> HIDE DEF o
  <2>3. IsFiniteSet(exc')
    BY <2>2, FS_AddElement DEF TyDev
  <2>4. exc' \subseteq {Compl(y, t) : y \in {"MISS", "REINJECT"}, t \in Tag}
    BY <2>2, <1>1 DEF TyDev
  <2> QED BY <2>1, <2>3, <2>4 DEF HwMiss, TyDev
<1> QED BY <1>2, <1>3, <1>4, <1>5

(* The second completion of such a packet keeps the types.                 *)
LEMMA TypesHwExc ==
  ASSUME AllTypes, NEW c \in exc, HwExc(c)
  PROVE  AllTypes'
<1> USE DEF AllTypes
<1>1. c \in ComplRec
  <2>1. PICK ty \in {"MISS", "REINJECT"}, t \in Tag : c = [type |-> ty, tag |-> t, head |-> 0]
    BY DEF TyDev, Compl
  <2>2. 0 \in Idx /\ ty \in ComplType
    BY Sizes DEF ComplType
  <2> QED BY <2>1, <2>2 DEF ComplRec
<1>2. /\ TyRing' /\ TyRfl' /\ TyTake' /\ TyCtr' /\ TyFlags' /\ TyBufs' /\ TyTimer' /\ TyPkt'
      /\ TyXm' /\ TyNc'
  <2>1. nmiss' \in Nat /\ head' \in Idx /\ UNCHANGED driverVars
    BY DEF HwExc, TyPkt, TyRing
  <2> QED BY <2>1, DriverTypes
<1>3. TyUnf'
  BY DEF HwExc, TyUnf
<1>4. TyCompl'
  BY <1>1 DEF HwExc, TyCompl
<1>5. TyDev'
  <2>1. IsFiniteSet(exc \ {c})
    BY FS_RemoveElement DEF TyDev
  <2> QED BY <2>1 DEF HwExc, TyDev
<1> QED BY <1>2, <1>3, <1>4, <1>5

(* The steps of a behaviour, one by one                                    *)
Steps ==
  \/ \E s \in Shapes, c \in Ctx, mr \in BOOLEAN : XmitStart(s, c, mr)
  \/ \E mr \in BOOLEAN : XmitRefuse(mr)
  \/ XmitStop \/ XmitRecheck
  \/ \E st \in Stamps : XmitFirst(st)
  \/ XmitFault \/ XmitFrag \/ XmitLast
  \/ NapiCompl \/ NapiChain \/ NapiOut \/ NapiWake
  \/ \E t \in Tag : TimerExpire(t)
  \/ HwFetch
  \/ \E p \in inflight : HwDone(p)
  \/ \E p \in inflight, ty \in {"MISS", "REINJECT"} : HwMiss(p, ty)
  \/ \E c \in exc : HwExc(c)

(* The next-state relation as one list of actions                          *)
LEMMA NextIs == Next => Steps
BY DEF Next, Steps, Xmit, XmitStep, Napi, Device

(* Every step keeps the types.                                             *)
LEMMA AllTypesNext == AllTypes /\ PathInv /\ Next => AllTypes'
BY NextIs, TypesXmitStart, TypesXmitRefuse, TypesXmitStop, TypesXmitRecheck, TypesXmitFirst,
   TypesXmitFault, TypesXmitFrag, TypesXmitLast, TypesNapiCompl, TypesNapiChain,
   TypesNapiOut, TypesNapiWake, TypesTimerExpire, TypesHwFetch, TypesHwDone, TypesHwMiss,
   TypesHwExc DEF Steps

(* So does a stutter.                                                      *)
LEMMA AllTypesStutter == AllTypes /\ UNCHANGED vars => AllTypes'
<1> SUFFICES ASSUME AllTypes, UNCHANGED vars PROVE AllTypes'
  OBVIOUS
<1>1. UNCHANGED driverVars /\ nmiss' = nmiss /\ UNCHANGED devVars /\ complq' = complq
  BY DEF vars, driverVars, histVars
<1>2. head' \in Idx /\ nmiss' \in Nat
  BY <1>1 DEF AllTypes, TyRing, TyPkt, devVars
<1>3. TyUnf' /\ TyCompl' /\ TyDev'
  BY <1>1 DEF AllTypes, devVars, TyUnf, TyCompl, TyDev
<1> QED BY <1>1, <1>2, <1>3, DriverTypes DEF AllTypes

(* Nothing but xmit writes the ring, nothing but the device reads it.      *)
LEMMA PathSame ==
  ASSUME TyUnf, PathInv, head' = head, unfetched' = unfetched, Base' = Base, tail' \in {tail, Base}
  PROVE  PathInv'
<1>1. tail' = head \/ \E k \in DOMAIN unfetched : tail' = unfetched[k].end
  <2>1. CASE tail' = tail
    BY <2>1 DEF PathInv
  <2>2. CASE tail' = Base /\ unfetched = <<>>
    BY <2>2 DEF PathInv
  <2>3. CASE tail' = Base /\ unfetched # <<>> 
    <3>1. tail' = unfetched[Len(unfetched)].end
      BY <2>3 DEF PathInv
    <3>2. Len(unfetched) \in DOMAIN unfetched
      BY <2>3 DEF TyUnf
    <3> QED BY <3>1, <3>2
  <2> QED BY <2>1, <2>2, <2>3
<1> QED BY <1>1 DEF PathInv

(* A packet is appended where the ring is written.                         *)
LEMMA PathXmitLast ==
  ASSUME AllTypes, PathInv, XmitLast
  PROVE  PathInv'
<1> DEFINE e == Bump(Bump(xm.i, xm.shape[xm.k] - 1), 1)
           p == [pkt |-> xm.pkt, tag |-> xm.first, end |-> e,
                 n |-> xm.ctx + xm.st + Sum(xm.shape), re |-> xm.re]
<1>1. /\ unfetched' = Append(unfetched, p) /\ ntu' = e /\ tail' \in {e, tail}
      /\ head' = head /\ xpc' = "idle"
  BY DEF XmitLast, Doorbell
<1>2. p.end = e
  OBVIOUS
<1>3. unfetched \in Seq(UnfRec)
  BY DEF AllTypes, TyUnf
<1> HIDE DEF e, p
<1>4. /\ Len(unfetched') = Len(unfetched) + 1 /\ unfetched'[Len(unfetched) + 1] = p
      /\ Len(unfetched) \in Nat /\ unfetched' # <<>>
      /\ \A k \in DOMAIN unfetched : k \in DOMAIN unfetched' /\ unfetched'[k] = unfetched[k]
      /\ Len(unfetched) + 1 \in DOMAIN unfetched'
  BY <1>1, <1>3
<1>5. Base' = e
  BY <1>1 DEF Base
<1>6. tail' = head' \/ \E k \in DOMAIN unfetched' : tail' = unfetched'[k].end
  BY <1>1, <1>2, <1>4 DEF PathInv
<1> QED BY <1>2, <1>4, <1>5, <1>6 DEF PathInv

(* The device moves from the end of one packet to the next.                *)
LEMMA PathHwFetch ==
  ASSUME AllTypes, PathInv, HwFetch
  PROVE  PathInv'
<1>1. /\ unfetched # <<>> /\ head' = unfetched[1].end /\ unfetched' = Tail(unfetched)
      /\ tail' = tail /\ Base' = Base /\ head # tail
  BY SomeUnfetched DEF HwFetch, driverVars, ringVars, xmitVars, Base
<1>2. /\ Len(unfetched') = Len(unfetched) - 1 /\ Len(unfetched) \in Nat \ {0}
      /\ \A k \in DOMAIN unfetched' :
           k + 1 \in DOMAIN unfetched /\ unfetched'[k] = unfetched[k + 1]
  BY <1>1, SomeUnfetched
<1>3. unfetched' \in Seq(UnfRec)
  BY <1>1, SomeUnfetched
<1>4. PICK k \in DOMAIN unfetched : tail = unfetched[k].end
  BY <1>1 DEF PathInv
<1>5. k = 1 \/ (k - 1 \in DOMAIN unfetched' /\ (k - 1) + 1 = k)
  BY <1>2, <1>3, <1>4, SomeUnfetched DEF AllTypes, TyUnf
<1>6. tail' = head' \/ \E j \in DOMAIN unfetched' : tail' = unfetched'[j].end
  BY <1>1, <1>2, <1>4, <1>5
<1>7. Base' = IF unfetched' = <<>> THEN head' ELSE unfetched'[Len(unfetched')].end
  <2>1. Base = unfetched[Len(unfetched)].end
    BY <1>1 DEF PathInv
  <2>2. CASE unfetched' = <<>>
    <3>1. Len(unfetched) = 1
      BY <2>2, <1>2
    <3> QED BY <3>1, <2>1, <2>2, <1>1
  <2>3. CASE unfetched' # <<>>
    <3>1. Len(unfetched') \in DOMAIN unfetched'
      BY <2>3, <1>3
    <3>2. Len(unfetched') + 1 = Len(unfetched)
      BY <1>2
    <3> QED BY <3>1, <3>2, <2>1, <2>3, <1>1, <1>2
  <2> QED BY <2>2, <2>3
<1> QED BY <1>6, <1>7 DEF PathInv

(* Every step keeps the ring a path from the device to next_to_use.        *)
LEMMA PathNext ==
  ASSUME AllTypes, PathInv, Next
  PROVE  PathInv'
<1> USE DEF Base
<1>0. TyUnf
  BY DEF AllTypes
<1>1. ASSUME NEW s \in Shapes, NEW c \in Ctx, NEW mr \in BOOLEAN, XmitStart(s, c, mr)
      PROVE  PathInv'
  BY <1>0, <1>1, PathSame DEF XmitStart, ringVars, devVars
<1>2. ASSUME NEW mr \in BOOLEAN, XmitRefuse(mr)
      PROVE  PathInv'
  BY <1>0, <1>2, PathSame DEF XmitRefuse, devVars, xmitVars
<1>3. ASSUME XmitStop
      PROVE  PathInv'
  BY <1>0, <1>3, PathSame DEF XmitStop, ringVars, devVars
<1>4. ASSUME XmitRecheck
      PROVE  PathInv'
  BY <1>0, <1>4, PathSame DEF XmitRecheck, devVars
<1>5. ASSUME NEW st \in Stamps, XmitFirst(st)
      PROVE  PathInv'
  <2>1. xm \in XmRec
    BY <1>5 DEF AllTypes, TyXm, XmitFirst
  <2>2. Base' = ntu
    BY <1>5, <2>1 DEF XmitFirst, XmRec
  <2>3. Base = ntu /\ head' = head /\ unfetched' = unfetched /\ tail' = tail
    BY <1>5 DEF XmitFirst, devVars
  <2> QED BY <1>0, <2>2, <2>3, PathSame
<1>6. ASSUME XmitFault
      PROVE  PathInv'
  BY <1>0, <1>6, PathSame DEF XmitFault, Rollback, devVars
<1>7. ASSUME XmitFrag
      PROVE  PathInv'
  <2>1. xm \in XmRec
    BY <1>7 DEF AllTypes, TyXm, XmitFrag
  <2>2. xm'.ntu = xm.ntu /\ xpc' = xpc
    BY <1>7, <2>1 DEF XmitFrag, XmRec
  <2>3. Base' = Base /\ head' = head /\ unfetched' = unfetched /\ tail' = tail
    BY <1>7, <2>2 DEF XmitFrag, ringVars, devVars
  <2> QED BY <1>0, <2>3, PathSame
<1>8. ASSUME NapiCompl \/ NapiChain \/ NapiOut \/ NapiWake \/ \E t \in Tag : TimerExpire(t)
      PROVE  PathInv'
  <2>1. ntu' = ntu /\ tail' = tail /\ UNCHANGED xmitVars /\ UNCHANGED devVars
    BY <1>8 DEF NapiCompl, NapiChain, NapiOut, NapiWake, TimerExpire, ringVars
  <2> QED BY <1>0, <2>1, PathSame DEF xmitVars, devVars
<1>9. ASSUME UNCHANGED driverVars, UNCHANGED <<head, unfetched>>
      PROVE  PathInv'
  BY <1>0, <1>9, PathSame DEF driverVars, ringVars, xmitVars
<1>10. ASSUME NEW p \in inflight, HwDone(p)
       PROVE  PathInv'
  BY <1>9, <1>10 DEF HwDone
<1>11. ASSUME NEW p \in inflight, NEW ty \in {"MISS", "REINJECT"}, HwMiss(p, ty)
       PROVE  PathInv'
  BY <1>9, <1>11 DEF HwMiss
<1>12. ASSUME NEW c \in exc, HwExc(c)
       PROVE  PathInv'
  BY <1>9, <1>12 DEF HwExc
<1> QED BY <1>1, <1>2, <1>3, <1>4, <1>5, <1>6, <1>7, <1>8, <1>10, <1>11, <1>12,
           PathXmitLast, PathHwFetch, NextIs DEF Steps

(* So does a stutter.                                                      *)
LEMMA PathStutter == PathInv /\ UNCHANGED vars => PathInv'
BY DEF PathInv, Base, vars, ringVars, devVars, xmitVars

(* Types and path together are inductive.                                  *)
LEMMA TypesNext == AllTypes /\ PathInv /\ [Next]_vars => AllTypes' /\ PathInv'
BY AllTypesNext, AllTypesStutter, PathNext, PathStutter

(* What the threads and the device handle is of its type, and the tail is  *)
(* never but at the end of a packet (idpf_tx_buf_hw_update, idpf_tx_splitq_*)
(* pkt_err_unmap).                                                         *)
THEOREM SpecTypes == Spec => [](AllTypes /\ PathInv)
<1>1. Init => AllTypes /\ PathInv
  BY TypesInit, TypesAre
<1> QED BY <1>1, TypesNext, PTL DEF Spec

-----------------------------------------------------------------------------
(***************************************************************************)
(* The tail                                                                *)
(***************************************************************************)

(* Every way out of xmit writes the tail (idpf_tx_buf_hw_update).          *)
LEMMA BellNext == DoorbellRung /\ [Next]_vars => DoorbellRung'
<1> SUFFICES ASSUME DoorbellRung, [Next]_vars PROVE DoorbellRung'
  OBVIOUS
<1> USE DEF DoorbellRung
<1>1. ASSUME NEW s \in Shapes, NEW c \in Ctx, NEW mr \in BOOLEAN, XmitStart(s, c, mr)
      PROVE  DoorbellRung'
  BY <1>1 DEF XmitStart
<1>2. ASSUME NEW mr \in BOOLEAN, XmitRefuse(mr)
      PROVE  DoorbellRung'
  BY <1>2 DEF XmitRefuse
<1>3. ASSUME XmitStop
      PROVE  DoorbellRung'
  BY <1>3 DEF XmitStop
<1>4. ASSUME XmitRecheck
      PROVE  DoorbellRung'
  BY <1>4 DEF XmitRecheck
<1>5. ASSUME NEW st \in Stamps, XmitFirst(st)
      PROVE  DoorbellRung'
  BY <1>5 DEF XmitFirst
<1>6. ASSUME XmitFault
      PROVE  DoorbellRung'
  BY <1>6 DEF XmitFault, Rollback
<1>7. ASSUME XmitFrag
      PROVE  DoorbellRung'
  BY <1>7 DEF XmitFrag
<1>8. ASSUME XmitLast
      PROVE  DoorbellRung'
  BY <1>8 DEF XmitLast, Doorbell
<1>9. ASSUME UNCHANGED <<ntu, tail, xpc, more>>
      PROVE  DoorbellRung'
  BY <1>9
<1>10. ASSUME NapiCompl \/ NapiChain \/ NapiOut \/ NapiWake \/ \E t \in Tag : TimerExpire(t)
       PROVE  DoorbellRung'
  BY <1>9, <1>10 DEF NapiCompl, NapiChain, NapiOut, NapiWake, TimerExpire, ringVars, xmitVars
<1>11. ASSUME UNCHANGED driverVars
       PROVE  DoorbellRung'
  BY <1>9, <1>11 DEF driverVars, ringVars, xmitVars
<1>12. ASSUME \/ HwFetch \/ \E p \in inflight : HwDone(p)
              \/ \E p \in inflight, ty \in {"MISS", "REINJECT"} : HwMiss(p, ty)
              \/ \E c \in exc : HwExc(c)
       PROVE  DoorbellRung'
  BY <1>11, <1>12 DEF HwFetch, HwDone, HwMiss, HwExc
<1>13. ASSUME UNCHANGED vars
       PROVE  DoorbellRung'
  BY <1>9, <1>13 DEF vars, ringVars, xmitVars
<1> QED BY <1>1, <1>2, <1>3, <1>4, <1>5, <1>6, <1>7, <1>8, <1>10, <1>12, <1>13, NextIs DEF Steps

(* Whichever way ndo_start_xmit ends, when no other packet is promised the *)
(* device knows of every descriptor (idpf_tx_buf_hw_update, idpf_tx_drop_  *)
(* skb, idpf_tx_splitq_pkt_err_unmap).                                     *)
THEOREM SpecDoorbellRung == Spec => []DoorbellRung
<1>1. Init => DoorbellRung
  BY DEF Init, DoorbellRung
<1> QED BY <1>1, BellNext, PTL DEF Spec

-----------------------------------------------------------------------------
(***************************************************************************)
(* The refill queue                                                        *)
(***************************************************************************)

(* Remainders by the size of the pool                                      *)
LEMMA PoolMod ==
  \A x \in Int : /\ x % PoolSize \in Tag
                 /\ 0 <= x /\ x < PoolSize => x % PoolSize = x
                 /\ PoolSize <= x /\ x < PoolSize + PoolSize => x % PoolSize = x - PoolSize
BY Sizes, ModIs DEF Tag

(* ... may be taken before an addition.                                    *)
LEMMA PoolPlus ==
  \A x, y \in Int : ((x % PoolSize) + y) % PoolSize = (x + y) % PoolSize
BY Sizes, ModPlus

(* The types of the ends of the refill queue                               *)
LEMMA BaseTypes ==
  ASSUME AllTypes
  PROVE  /\ TagBase \in Tag /\ TagGen \in {0, 1} /\ Taken \in Nat
         /\ TagBase \in Int /\ TagBase >= 0 /\ TagBase < PoolSize
         /\ rntu \in Int /\ rntu >= 0 /\ rntu < PoolSize /\ rgen \in {0, 1}
         /\ PoolSize \in Nat /\ PoolSize > 0 /\ Held \in Int
         /\ rntc \in Int /\ rflgen \in {0, 1}
         /\ \A j \in Int : EntryAt(j) \in [id : Tag, gen : {0, 1}] /\ TagAt(j) \in Tag
<1>1. TagBase \in Tag /\ TagGen \in {0, 1} /\ Taken \in Nat
  <2>1. xpc = "map" => xm \in XmRec
    BY DEF AllTypes, TyXm
  <2> QED BY <2>1, XmIs DEF AllTypes, TyTake, TagBase, TagGen, Taken
<1>2. PoolSize \in Nat /\ PoolSize > 0
  BY Sizes
<1>3. rntu \in Int /\ rntu >= 0 /\ rntu < PoolSize /\ rgen \in {0, 1} /\ rntc \in Int
  BY <1>2 DEF AllTypes, TyRfl, TyTake, Tag
<1>4. TagBase \in Int /\ TagBase >= 0 /\ TagBase < PoolSize
  BY <1>1, <1>2 DEF Tag
<1>5. Held \in Int
  BY <1>2, <1>3, <1>4 DEF Held
<1>6. ASSUME NEW j \in Int
      PROVE  EntryAt(j) \in [id : Tag, gen : {0, 1}]
  <2>1. TagBase + j \in Int
    BY <1>4
  <2>2. (TagBase + j) % PoolSize \in Tag
    BY <2>1, PoolMod
  <2> QED BY <2>2 DEF EntryAt, AllTypes, TyRfl
<1>7. ASSUME NEW j \in Int
      PROVE  TagAt(j) \in Tag
  BY <1>6 DEF TagAt
<1> QED BY <1>1, <1>2, <1>3, <1>4, <1>5, <1>6, <1>7 DEF AllTypes, TyTake

(* What is offered is what lies between the ends less what is taken.       *)
LEMMA NumFreeIs ==
  ASSUME AllTypes, QueueInv
  PROVE  /\ NumFree = Held - Taken
         /\ Taken = 0 => FreeBufs = Held - 1
<1>1. /\ TagBase \in Int /\ TagBase >= 0 /\ TagBase < PoolSize
      /\ rntu \in Int /\ rntu >= 0 /\ rntu < PoolSize /\ rgen \in {0, 1}
      /\ PoolSize \in Nat /\ PoolSize > 0 /\ TagGen \in {0, 1} /\ Taken \in Nat
      /\ Held \in Int /\ Held <= PoolSize /\ Held >= 1 /\ Taken < Held
  BY BaseTypes DEF QueueInv
<1>2. rntc = (TagBase + Taken) % PoolSize
        /\ rflgen = IF TagBase + Taken < PoolSize THEN TagGen ELSE 1 - TagGen
  BY DEF QueueInv, LapOf
<1>3. Held = rntu - TagBase + IF rgen = TagGen THEN 0 ELSE PoolSize
  BY DEF Held
<1>4. CASE TagBase + Taken < PoolSize
  <2>1. rntc = TagBase + Taken
    BY <1>1, <1>2, <1>4, PoolMod
  <2> HIDE DEF Held, TagBase, TagGen, Taken
  <2> QED BY <2>1, <1>1, <1>2, <1>3, <1>4 DEF NumFree, FreeBufs
<1>5. CASE TagBase + Taken >= PoolSize
  <2>1. rntc = TagBase + Taken - PoolSize
    BY <1>1, <1>2, <1>5, PoolMod
  <2>2. rgen # TagGen
    BY <1>1, <1>3, <1>5
  <2> QED BY <2>1, <2>2, <1>1, <1>2, <1>3, <1>5 DEF NumFree, FreeBufs
<1> QED BY <1>1, <1>4, <1>5

(* The entry at next_to_clean and those behind it                          *)
LEMMA FreeAt ==
  ASSUME AllTypes, QueueInv
  PROVE  /\ \A j \in Nat : rring[(rntc + j) % PoolSize] = EntryAt(Taken + j)
         /\ rring[rntc] = EntryAt(Taken) /\ HasTag
<1>1. TagBase \in Int /\ Taken \in Nat /\ rntc = (TagBase + Taken) % PoolSize
        /\ rflgen = LapOf(Taken) /\ Held \in Int /\ Taken \in 0 .. Held - 1
  BY BaseTypes DEF QueueInv
<1>2. ASSUME NEW j \in Nat
      PROVE  rring[(rntc + j) % PoolSize] = EntryAt(Taken + j)
  <2>1. (((TagBase + Taken) % PoolSize) + j) % PoolSize = ((TagBase + Taken) + j) % PoolSize
    BY <1>1, PoolPlus
  <2>2. (TagBase + Taken) + j = TagBase + (Taken + j)
    BY <1>1
  <2> QED BY <2>1, <2>2, <1>1 DEF EntryAt
<1>3. rring[rntc] = EntryAt(Taken)
  BY <1>1 DEF EntryAt
<1>4. EntryAt(Taken).gen = LapOf(Taken)
  BY <1>1 DEF QueueInv
<1> QED BY <1>1, <1>2, <1>3, <1>4 DEF HasTag

(* A set that is numbered has as many elements as there are numbers.       *)
LEMMA Numbered ==
  ASSUME NEW n \in Nat, NEW f, \A j, k \in 0 .. n - 1 : f[j] = f[k] => j = k
  PROVE  IsFiniteSet({f[j] : j \in 0 .. n - 1}) /\ Cardinality({f[j] : j \in 0 .. n - 1}) = n
<1> DEFINE S == {f[j] : j \in 0 .. n - 1}
           g == [i \in 1 .. n |-> f[i - 1]]
<1>1. g \in [1 .. n -> S]
  BY DEF S, g
<1>2. \A i, j \in 1 .. n : g[i] = g[j] => i = j
  BY DEF g
<1>3. \A x \in S : \E i \in 1 .. n : g[i] = x
  <2> SUFFICES ASSUME NEW j \in 0 .. n - 1 PROVE \E i \in 1 .. n : g[i] = f[j]
    BY DEF S
  <2>1. j + 1 \in 1 .. n /\ g[j + 1] = f[j]
    BY DEF g
  <2> QED BY <2>1
<1> HIDE DEF S, g
<1>4. g \in Bijection(1 .. n, S)
  BY <1>1, <1>2, <1>3 DEF Bijection, Injection, Surjection, IsInjective
<1>5. ExistsBijection(1 .. n, S)
  BY <1>4 DEF ExistsBijection
<1> QED BY <1>5, FS_CountingElements, FS_NatBijection DEF S

(* A tag that is not in the queue finds room there.                        *)
LEMMA RoomForTag ==
  ASSUME AllTypes, QueueInv, NEW t \in Tag, \A j \in 0 .. Held - 1 : TagAt(j) # t
  PROVE  Held < PoolSize
<1> DEFINE n == Held
           f == [j \in 0 .. n - 1 |-> TagAt(j)]
           S == {f[j] : j \in 0 .. n - 1}
<1>1. n \in Nat /\ n <= PoolSize /\ PoolSize \in Nat
  BY BaseTypes DEF QueueInv
<1>2. \A j, k \in 0 .. n - 1 : f[j] = f[k] => j = k
  BY DEF QueueInv
<1>3. IsFiniteSet(S) /\ Cardinality(S) = n
  <2> HIDE DEF f, n
  <2> QED BY <1>1, <1>2, Numbered
<1>4. S \subseteq Tag /\ t \notin S
  BY BaseTypes
<1>5. IsFiniteSet(Tag) /\ Cardinality(Tag) = PoolSize
  <2>1. 0 \in Int /\ PoolSize - 1 \in Int /\ ~ (0 > PoolSize - 1) /\ (PoolSize - 1) - 0 + 1 = PoolSize
    BY Sizes
  <2> QED BY <2>1, FS_Interval DEF Tag
<1> HIDE DEF S, n
<1>6. Cardinality(S) <= Cardinality(Tag) /\ (Cardinality(Tag) = Cardinality(S) => Tag = S)
  BY <1>4, <1>5, FS_Subset
<1>7. n # PoolSize
  BY <1>3, <1>4, <1>5, <1>6
<1> QED BY <1>1, <1>7 DEF n

(* The queue, seen from where the packet under construction began, stays.  *)
SameQueue == /\ TagBase' = TagBase /\ TagGen' = TagGen
             /\ rring' = rring /\ rntu' = rntu /\ rgen' = rgen

(* A step that leaves the refill queue leaves what is read off it.         *)
LEMMA SameQueueIs ==
  ASSUME SameQueue
  PROVE  /\ Held' = Held
         /\ \A j : LapOf(j)' = LapOf(j) /\ EntryAt(j)' = EntryAt(j) /\ TagAt(j)' = TagAt(j)
BY DEF SameQueue, Held, LapOf, EntryAt, TagAt

(* ... and its invariant.                                                  *)
LEMMA QueueSame ==
  ASSUME QueueInv, SameQueue, Taken' = Taken, rntc' = rntc, rflgen' = rflgen
  PROVE  QueueInv'
BY SameQueueIs DEF QueueInv, SameQueue

(* idpf_tx_get_free_buf_id takes the oldest tag.                           *)
LEMMA QueueTake ==
  ASSUME AllTypes, QueueInv, SameQueue, Taken' = Taken + 1, TakeTag, Taken + 1 < Held
  PROVE  QueueInv'
<1>1. /\ TagBase \in Int /\ TagBase >= 0 /\ TagBase < PoolSize
      /\ PoolSize \in Nat /\ PoolSize > 0 /\ TagGen \in {0, 1} /\ Taken \in Nat
      /\ Held \in Int /\ Held <= PoolSize /\ Held >= 1
      /\ rntc = (TagBase + Taken) % PoolSize /\ rflgen = LapOf(Taken)
  BY BaseTypes DEF QueueInv
<1>2. rntc' = (TagBase' + Taken') % PoolSize
  <2>1. rntc' = (((TagBase + Taken) % PoolSize) + 1) % PoolSize
    BY <1>1 DEF TakeTag
  <2>2. rntc' = ((TagBase + Taken) + 1) % PoolSize
    BY <2>1, <1>1, PoolPlus
  <2>3. (TagBase + Taken) + 1 = TagBase + (Taken + 1)
    BY <1>1
  <2> QED BY <2>2, <2>3 DEF SameQueue
<1>3. rflgen' = LapOf(Taken + 1)
  <2>1. rflgen' = IF rntc + 1 = PoolSize THEN 1 - rflgen ELSE rflgen
    BY DEF TakeTag
  <2>2. CASE TagBase + Taken < PoolSize
    <3>1. rntc = TagBase + Taken
      BY <1>1, <2>2, PoolMod
    <3> HIDE DEF TagBase, TagGen, Taken, Held
    <3> QED BY <3>1, <2>1, <2>2, <1>1 DEF LapOf
  <2>3. CASE ~ (TagBase + Taken < PoolSize)
    <3>1. rntc = TagBase + Taken - PoolSize
      BY <1>1, <2>3, PoolMod
    <3> HIDE DEF TagBase, TagGen, Taken, Held
    <3> QED BY <3>1, <2>1, <2>3, <1>1 DEF LapOf
  <2> QED BY <2>2, <2>3
<1> QED BY <1>2, <1>3, SameQueueIs DEF QueueInv

(* idpf_post_buf_refill, seen from there                                   *)
LEMMA QueuePost ==
  ASSUME AllTypes, QueueInv, TagBase' = TagBase, TagGen' = TagGen, Taken' = Taken,
         rntc' = rntc, rflgen' = rflgen,
         NEW t \in Tag, PostTag(t), \A j \in 0 .. Held - 1 : TagAt(j) # t
  PROVE  /\ QueueInv' /\ Held' = Held + 1
         /\ \A j \in Int : j = Held => TagAt(j)' = t
         /\ \A j \in 0 .. Held - 1 : TagAt(j)' = TagAt(j)
<1>1. /\ TagBase \in Int /\ TagBase >= 0 /\ TagBase < PoolSize
      /\ rntu \in Int /\ rntu >= 0 /\ rntu < PoolSize /\ rgen \in {0, 1}
      /\ PoolSize \in Nat /\ PoolSize > 0 /\ TagGen \in {0, 1} /\ Taken \in Nat
      /\ Held \in Int /\ Held >= 1 /\ Taken < Held
      /\ Held < PoolSize
      /\ Held = rntu - TagBase + IF rgen = TagGen THEN 0 ELSE PoolSize
  BY BaseTypes, RoomForTag DEF QueueInv, Held
<1>2. /\ rring' = [rring EXCEPT ![rntu] = [id |-> t, gen |-> rgen]]
      /\ rntu' = (rntu + 1) % PoolSize
      /\ rgen' = IF rntu + 1 = PoolSize THEN 1 - rgen ELSE rgen
  BY DEF PostTag
<1>3. \A j : LapOf(j)' = LapOf(j)
  BY DEF LapOf
<1>4. Held' = rntu' - TagBase + IF rgen' = TagGen THEN 0 ELSE PoolSize
  BY DEF Held
<1> DEFINE h == Held
           b == TagBase
           g == TagGen
<1>5. Held' = h + 1
  <2>1. rntu' = IF rntu + 1 = PoolSize THEN 0 ELSE rntu + 1
    BY <1>1, <1>2, PoolMod
  <2> HIDE DEF Held, TagBase, TagGen, Taken
  <2> QED BY <2>1, <1>1, <1>2, <1>4
<1>6. (b + h) % PoolSize = rntu /\ rgen = LapOf(h)
  <2>1. CASE rgen = TagGen
    <3>1. b + h = rntu
      BY <1>1, <2>1
    <3> QED BY <3>1, <1>1, <2>1, PoolMod DEF LapOf
  <2>2. CASE rgen # TagGen
    <3>1. b + h = rntu + PoolSize
      BY <1>1, <2>2
    <3>2. (b + h) % PoolSize = rntu
      BY <3>1, <1>1, PoolMod
    <3>3. ~ (b + h < PoolSize) /\ rgen = 1 - TagGen
      BY <3>1, <1>1, <2>2
    <3> QED BY <3>2, <3>3 DEF LapOf
  <2> QED BY <2>1, <2>2
<1>7. ASSUME NEW j \in Int, j = h
      PROVE  EntryAt(j)' = [id |-> t, gen |-> rgen]
  <2>0. (b + j) % PoolSize = rntu
    BY <1>6, <1>7
  <2>1. EntryAt(j)' = rring'[rntu]
    BY <2>0 DEF EntryAt
  <2> QED BY <2>1, <1>2 DEF AllTypes, TyRfl
<1>8. ASSUME NEW j \in 0 .. h - 1
      PROVE  EntryAt(j)' = EntryAt(j) /\ TagAt(j)' = TagAt(j)
  <2> DEFINE i == (b + j) % PoolSize
  <2>1. b + j \in Int /\ i \in Tag
    BY <1>1, PoolMod
  <2>2. i # rntu
    <3>1. b + j < PoolSize => i = b + j
      BY <1>1, <2>1, PoolMod
    <3>2. b + j >= PoolSize => i = b + j - PoolSize
      BY <1>1, <2>1, PoolMod
    <3>3. b + h < PoolSize => rntu = b + h
      BY <1>1, <1>6, PoolMod
    <3>4. b + h >= PoolSize => rntu = b + h - PoolSize
      BY <1>1, <1>6, PoolMod
    <3> HIDE DEF i, Held, TagBase
    <3> QED BY <3>1, <3>2, <3>3, <3>4, <1>1
  <2>3. EntryAt(j) = rring[i] /\ EntryAt(j)' = rring'[i]
    BY DEF EntryAt
  <2> HIDE DEF i
  <2>4. EntryAt(j)' = EntryAt(j)
    BY <2>1, <2>2, <2>3, <1>2 DEF AllTypes, TyRfl
  <2> QED BY <2>4 DEF TagAt
<1>9. \A j \in Int : j = h => TagAt(j)' = t /\ EntryAt(j)'.gen = rgen
  BY <1>7 DEF TagAt
<1>10. QueueInv'
  <2>1. Held' \in 1 .. PoolSize /\ Taken' < Held'
    BY <1>1, <1>5
  <2>2. rntc' = (TagBase' + Taken') % PoolSize /\ rflgen' = LapOf(Taken)'
    BY <1>3 DEF QueueInv
  <2> HIDE DEF h
  <2>3. ASSUME NEW j \in 0 .. Held' - 1
        PROVE  j \in 0 .. h - 1 \/ j = h
    BY <1>1, <1>5 DEF h
  <2>4. ASSUME NEW j \in 0 .. Held' - 1
        PROVE  EntryAt(j)'.gen = LapOf(j)'
    <3>1. CASE j \in 0 .. h - 1
      BY <3>1, <1>3, <1>8 DEF QueueInv, h
    <3>2. CASE j = h
      BY <3>2, <1>3, <1>6, <1>9
    <3> QED BY <2>3, <3>1, <3>2
  <2>5. ASSUME NEW j \in 0 .. Held' - 1, NEW k \in 0 .. Held' - 1, TagAt(j)' = TagAt(k)'
        PROVE  j = k
    BY <2>3, <2>5, <1>8, <1>9 DEF QueueInv, h
  <2> QED BY <2>1, <2>2, <2>4, <2>5 DEF QueueInv
<1> QED BY <1>5, <1>8, <1>9, <1>10

(* A packet is done: the next one begins where its tags end.               *)
LEMMA QueueShift ==
  ASSUME AllTypes, QueueInv, TagBase' = rntc, TagGen' = rflgen, Taken' = 0,
         rntc' = rntc, rflgen' = rflgen, rring' = rring, rntu' = rntu, rgen' = rgen
  PROVE  /\ QueueInv' /\ Held' = Held - Taken
         /\ \A j \in Nat : TagAt(j)' = TagAt(Taken + j)
<1>1. /\ TagBase \in Int /\ TagBase >= 0 /\ TagBase < PoolSize
      /\ rntu \in Int /\ rntu >= 0 /\ rntu < PoolSize /\ rgen \in {0, 1}
      /\ PoolSize \in Nat /\ PoolSize > 0 /\ TagGen \in {0, 1} /\ Taken \in Nat
      /\ Held \in Int /\ Held <= PoolSize /\ Held >= 1 /\ Taken < Held
      /\ rntc = (TagBase + Taken) % PoolSize /\ rflgen = LapOf(Taken)
      /\ rntc \in Int /\ rflgen \in {0, 1}
  BY BaseTypes DEF QueueInv
<1>2. /\ TagBase + Taken < PoolSize => rntc = TagBase + Taken
      /\ TagBase + Taken >= PoolSize => rntc = TagBase + Taken - PoolSize
  BY <1>1, PoolMod
<1>3. Held' = Held - Taken
  <2>1. NumFree = Held - Taken
    BY NumFreeIs
  <2>2. Held' = NumFree
    BY DEF Held, NumFree
  <2> QED BY <2>1, <2>2
<1>4. ASSUME NEW j \in Nat
      PROVE  EntryAt(j)' = EntryAt(Taken + j) /\ TagAt(j)' = TagAt(Taken + j)
  <2>1. EntryAt(j)' = rring[(rntc + j) % PoolSize]
    BY DEF EntryAt
  <2>2. rring[(rntc + j) % PoolSize] = EntryAt(Taken + j)
    BY FreeAt
  <2> QED BY <2>1, <2>2 DEF TagAt
<1>5. ASSUME NEW j \in Nat, Taken + j < Held
      PROVE  LapOf(j)' = LapOf(Taken + j)
  <2>1. LapOf(j)' = IF rntc + j < PoolSize THEN rflgen ELSE 1 - rflgen
    BY DEF LapOf
  <2>2. rflgen = IF TagBase + Taken < PoolSize THEN TagGen ELSE 1 - TagGen
    BY <1>1 DEF LapOf
  <2>3. LapOf(Taken + j) = IF TagBase + (Taken + j) < PoolSize THEN TagGen ELSE 1 - TagGen
    BY DEF LapOf
  <2> DEFINE b == TagBase
             g == TagGen
             k == Taken
             h == Held
  <2>4. /\ b \in Int /\ b >= 0 /\ b < PoolSize /\ PoolSize \in Nat /\ g \in {0, 1} /\ k \in Nat
        /\ h \in Int /\ h <= PoolSize /\ k + j < h /\ rntc \in Int
    BY <1>1, <1>5
  <2>5. /\ b + k < PoolSize => rntc = b + k
        /\ b + k >= PoolSize => rntc = b + k - PoolSize
    BY <1>2
  <2>6. (IF rntc + j < PoolSize THEN rflgen ELSE 1 - rflgen)
          = IF b + (k + j) < PoolSize THEN g ELSE 1 - g
    <3>1. rflgen = IF b + k < PoolSize THEN g ELSE 1 - g
      BY <2>2
    <3> HIDE DEF b, g, k, h
    <3> QED BY <2>4, <2>5, <3>1
  <2> QED BY <2>1, <2>3, <2>6
<1>6. QueueInv'
  <2>1. Held' \in 1 .. PoolSize /\ Taken' < Held'
    BY <1>1, <1>3
  <2>2. rntc' = (TagBase' + Taken') % PoolSize
    <3>1. rntc + 0 = rntc /\ 0 <= rntc /\ rntc < PoolSize
      BY <1>1, PoolMod DEF Tag
    <3> QED BY <3>1, <1>1, PoolMod
  <2>3. rflgen' = LapOf(Taken)'
    <3>1. LapOf(Taken)' = IF rntc + 0 < PoolSize THEN rflgen ELSE 1 - rflgen
      BY DEF LapOf
    <3>2. rntc + 0 < PoolSize
      BY <1>1, <1>2
    <3> QED BY <3>1, <3>2
  <2>4. ASSUME NEW j \in 0 .. Held' - 1
        PROVE  j \in Nat /\ Taken + j < Held /\ Taken + j \in 0 .. Held - 1
    BY <1>1, <1>3
  <2>5. ASSUME NEW j \in 0 .. Held' - 1
        PROVE  EntryAt(j)'.gen = LapOf(j)'
    BY <2>4, <1>4, <1>5 DEF QueueInv
  <2>6. ASSUME NEW j \in 0 .. Held' - 1, NEW k \in 0 .. Held' - 1, TagAt(j)' = TagAt(k)'
        PROVE  j = k
    <3>1. TagAt(Taken + j) = TagAt(Taken + k)
      BY <2>4, <2>6, <1>4
    <3>2. Taken + j = Taken + k
      BY <3>1, <2>4 DEF QueueInv
    <3> QED BY <3>2, <2>4, <1>1
  <2> QED BY <2>1, <2>2, <2>3, <2>5, <2>6 DEF QueueInv
<1> QED BY <1>3, <1>4, <1>6

(* A packet is given up: its tags are offered again.                       *)
LEMMA QueueBack ==
  ASSUME AllTypes, QueueInv, SameQueue, Taken' = 0, rntc' = TagBase, rflgen' = TagGen
  PROVE  QueueInv'
<1>1. /\ TagBase \in Int /\ TagBase >= 0 /\ TagBase < PoolSize
      /\ Held \in Int /\ Held >= 1
  BY BaseTypes DEF QueueInv
<1>2. rntc' = (TagBase' + Taken') % PoolSize
  <2>1. TagBase + 0 = TagBase
    BY <1>1
  <2> QED BY <2>1, <1>1, PoolMod DEF SameQueue
<1>3. rflgen' = LapOf(Taken)'
  <2>1. LapOf(Taken)' = IF TagBase + 0 < PoolSize THEN TagGen ELSE 1 - TagGen
    BY DEF LapOf, SameQueue
  <2>2. TagBase + 0 < PoolSize
    BY <1>1
  <2> QED BY <2>1, <2>2
<1>4. Taken' < Held'
  BY <1>1, SameQueueIs
<1> QED BY <1>2, <1>3, <1>4, SameQueueIs DEF QueueInv

-----------------------------------------------------------------------------
(* What the invariants say of the tags                                     *)

(* The inductive invariants imply the property of the runs.                *)
LEMMA TagsFromInvs ==
  ASSUME AllTypes, QueueInv, OfferInv, BuildInv
  PROVE  TagsSound
<1>1. /\ Taken \in Nat /\ Held \in Nat /\ Taken < Held /\ NumFree = Held - Taken
      /\ NumFree \in Nat
  BY BaseTypes, NumFreeIs DEF QueueInv
<1> DEFINE n == NumFree
           f == [j \in 0 .. n - 1 |-> TagAt(Taken + j)]
<1>2. FreeTags = {f[j] : j \in 0 .. n - 1}
  <2>1. \A j \in 0 .. n - 1 : rring[(rntc + j) % PoolSize].id = f[j]
    BY <1>1, FreeAt DEF TagAt
  <2> QED BY <2>1 DEF FreeTags
<1>3. \A j \in 0 .. n - 1 : Taken + j \in Taken .. Held - 1 /\ Taken + j \in 0 .. Held - 1
  BY <1>1
<1>4. \A j, k \in 0 .. n - 1 : f[j] = f[k] => j = k
  <2> SUFFICES ASSUME NEW j \in 0 .. n - 1, NEW k \in 0 .. n - 1, f[j] = f[k] PROVE j = k
    OBVIOUS
  <2>1. TagAt(Taken + j) = TagAt(Taken + k)
    OBVIOUS
  <2>2. Taken + j = Taken + k
    BY <2>1, <1>3 DEF QueueInv
  <2> QED BY <2>2, <1>1
<1>5. Cardinality(FreeTags) = NumFree
  <2>1. n \in Nat
    BY <1>1
  <2> HIDE DEF f, n
  <2>2. /\ IsFiniteSet({f[j] : j \in 0 .. n - 1})
        /\ Cardinality({f[j] : j \in 0 .. n - 1}) = n
    BY <2>1, <1>4, Numbered
  <2> QED BY <2>2, <1>2 DEF n
<1>6. \A j \in Taken .. Held - 1 : TagAt(j) \in FreeTags
  <2> SUFFICES ASSUME NEW j \in Taken .. Held - 1 PROVE TagAt(j) \in FreeTags
    OBVIOUS
  <2>1. j - Taken \in 0 .. n - 1 /\ Taken + (j - Taken) = j
    BY <1>1
  <2>2. f[j - Taken] = TagAt(j)
    BY <2>1
  <2> HIDE DEF f, n
  <2> QED BY <2>1, <2>2, <1>2
<1>7. \A t \in FreeTags : \E j \in Taken .. Held - 1 : t = TagAt(j)
  <2>1. \A j \in 0 .. n - 1 : f[j] = TagAt(Taken + j)
    OBVIOUS
  <2> HIDE DEF f, n
  <2> QED BY <2>1, <1>2, <1>3
<1> HIDE DEF f, n
<1>8. xpc = "map" => \E j \in 0 .. Taken - 1 : j = Taken - 1 /\ xm.buf = TagAt(j)
  <2> SUFFICES ASSUME xpc = "map" PROVE \E j \in 0 .. Taken - 1 : j = Taken - 1 /\ xm.buf = TagAt(j)
    OBVIOUS
  <2>1. Taken = xm.k /\ xm.k \in 1 .. Len(xm.shape) /\ Len(xm.shape) \in Nat
    BY XmIs DEF Taken, AllTypes, TyXm
  <2>2. xm.k - 1 \in 0 .. xm.k - 1
    BY <2>1
  <2>3. xm.buf = TagAt(xm.k - 1)
    BY <2>2 DEF BuildInv
  <2> QED BY <2>1, <2>2, <2>3
<1>9. FreeTags \cap BusyTags = {}
  <2> SUFFICES ASSUME NEW t \in FreeTags, t \in BusyTags PROVE FALSE
    OBVIOUS
  <2>1. PICK j \in Taken .. Held - 1 : t = TagAt(j)
    BY <1>7
  <2>2. bufs[t].type = "EMPTY"
    BY <2>1 DEF OfferInv
  <2>3. xpc = "map" /\ t = xm.buf
    BY <2>2 DEF BusyTags
  <2>4. PICK k \in 0 .. Taken - 1 : t = TagAt(k)
    BY <2>3, <1>8
  <2>5. j \in 0 .. Held - 1 /\ k \in 0 .. Held - 1
    BY <1>1
  <2>6. j = k
    BY <2>1, <2>4, <2>5 DEF QueueInv
  <2> QED BY <2>6, <1>1
<1>10. ASSUME nmiss = 0
       PROVE  FreeTags \cup BusyTags = Tag
  <2>1. FreeTags \subseteq Tag
    <3>1. \A j \in Taken .. Held - 1 : j \in Int
      BY <1>1
    <3> QED BY <3>1, <1>7, BaseTypes
  <2>2. BusyTags \subseteq Tag
    BY XmIs DEF BusyTags, AllTypes, TyXm
  <2>3. ASSUME NEW t \in Tag, bufs[t].type = "EMPTY", t \notin FreeTags
        PROVE  t \in BusyTags
    <3>1. PICK j \in 0 .. Held - 1 : t = TagAt(j)
      BY <2>3, <1>10 DEF OfferInv
    <3>2. j < Taken
      BY <3>1, <2>3, <1>1, <1>6
    <3>3. xpc = "map" /\ Taken = xm.k
      BY <3>2, <1>1 DEF Taken
    <3>4. ~ (j \in 0 .. xm.k - 2)
      BY <3>1, <2>3, <3>3 DEF BuildInv
    <3>5. xm.buf = TagAt(j)
      BY <3>2, <3>3, <3>4, <1>1, <1>8
    <3> QED BY <3>1, <3>3, <3>5 DEF BusyTags
  <2>4. \A t \in Tag : bufs[t].type # "EMPTY" => t \in BusyTags
    BY DEF BusyTags
  <2> QED BY <2>1, <2>2, <2>3, <2>4
<1>11. ASSUME npc = "chain"
       PROVE  nc.tag \in FreeTags
  <2>1. Held - 1 \in Taken .. Held - 1 /\ Held - 1 \in 0 .. Held - 1
    BY <1>1
  <2>2. TagAt(Held - 1) = nc.tag
    BY <2>1, <1>11 DEF OfferInv
  <2> QED BY <2>1, <2>2, <1>6
<1>12. HasTag
  BY FreeAt
<1> QED BY <1>5, <1>9, <1>10, <1>11, <1>12 DEF TagsSound, TagsOwnedOnce, LastTagKept

-----------------------------------------------------------------------------
(***************************************************************************)
(* The tags of the packets on their way                                    *)
(***************************************************************************)

(* A sequence with an element more                                         *)
LEMMA AppendIs ==
  ASSUME NEW S, NEW s \in Seq(S), NEW x
  PROVE  /\ DOMAIN Append(s, x) = DOMAIN s \cup {Len(s) + 1}
         /\ Append(s, x)[Len(s) + 1] = x /\ Len(s) + 1 \notin DOMAIN s
         /\ \A k \in DOMAIN s : Append(s, x)[k] = s[k]
         /\ DOMAIN s = 1 .. Len(s) /\ Len(s) \in Nat /\ Len(Append(s, x)) = Len(s) + 1
<1>1. Len(s) \in Nat /\ DOMAIN s = 1 .. Len(s)
  OBVIOUS
<1>2. Len(Append(s, x)) = Len(s) + 1 /\ DOMAIN Append(s, x) = 1 .. Len(s) + 1
  <2>1. s \in Seq(S \cup {x})
    OBVIOUS
  <2> QED BY <2>1
<1>3. Append(s, x)[Len(s) + 1] = x /\ \A k \in 1 .. Len(s) : Append(s, x)[k] = s[k]
  <2>1. s \in Seq(S \cup {x}) /\ x \in S \cup {x}
    OBVIOUS
  <2> QED BY <2>1
<1>4. 1 .. Len(s) + 1 = (1 .. Len(s)) \cup {Len(s) + 1} /\ Len(s) + 1 \notin 1 .. Len(s)
  BY <1>1
<1> QED BY <1>1, <1>2, <1>3, <1>4

(* A sequence without its first element                                    *)
LEMMA TailIs ==
  ASSUME NEW S, NEW s \in Seq(S), s # <<>>
  PROVE  /\ Head(s) = s[1] /\ 1 \in DOMAIN s /\ Len(s) \in Nat \ {0} /\ s[1] \in S
         /\ Len(Tail(s)) = Len(s) - 1 /\ Tail(s) \in Seq(S)
         /\ DOMAIN Tail(s) = 1 .. Len(s) - 1 /\ DOMAIN s = 1 .. Len(s)
         /\ \A k \in DOMAIN Tail(s) : k + 1 \in DOMAIN s /\ Tail(s)[k] = s[k + 1] /\ k + 1 # 1
         /\ \A k \in DOMAIN s : k = 1 \/ (k - 1 \in DOMAIN Tail(s) /\ Tail(s)[k - 1] = s[k])
OBVIOUS

(* A packet with a new tag keeps the tags of the ring distinct.            *)
LEMMA TagsAppend ==
  ASSUME NEW s \in Seq(UnfRec), NEW p \in UnfRec, OnceIn(s),
         \A k \in DOMAIN s : s[k].tag # p.tag
  PROVE  OnceIn(Append(s, p))
<1> DEFINE t == Append(s, p)
<1>1. /\ DOMAIN t = DOMAIN s \cup {Len(s) + 1} /\ t[Len(s) + 1] = p
      /\ \A k \in DOMAIN s : t[k] = s[k]
  BY AppendIs
<1> HIDE DEF t
<1>2. OnceIn(t)
  BY <1>1 DEF OnceIn
<1> QED BY <1>2 DEF t

(* A completion more                                                       *)
LEMMA FinalAppend ==
  ASSUME NEW q \in Seq(ComplRec), NEW c, FinalOnce(q), Final(c) => c.tag \notin FinalTags(q)
  PROVE  /\ FinalTags(Append(q, c)) = FinalTags(q) \cup (IF Final(c) THEN {c.tag} ELSE {})
         /\ FinalOnce(Append(q, c))
<1> DEFINE t == Append(q, c)
<1>1. /\ DOMAIN t = DOMAIN q \cup {Len(q) + 1} /\ t[Len(q) + 1] = c
      /\ \A k \in DOMAIN q : t[k] = q[k]
  BY AppendIs
<1> HIDE DEF t
<1>2. FinalTags(t) = FinalTags(q) \cup (IF Final(c) THEN {c.tag} ELSE {})
  BY <1>1 DEF FinalTags
<1>3. FinalOnce(t)
  BY <1>1 DEF FinalOnce, FinalTags
<1> QED BY <1>2, <1>3 DEF t

(* A completion less                                                       *)
LEMMA FinalTail ==
  ASSUME NEW q \in Seq(ComplRec), q # <<>>, FinalOnce(q)
  PROVE  /\ FinalTags(Tail(q)) = FinalTags(q) \ (IF Final(Head(q)) THEN {Head(q).tag} ELSE {})
         /\ Final(Head(q)) => Head(q).tag \in FinalTags(q)
         /\ FinalOnce(Tail(q))
<1> DEFINE t == Tail(q)
           c == Head(q)
<1>1. /\ c = q[1] /\ 1 \in DOMAIN q
      /\ \A k \in DOMAIN t : k \in Int /\ k + 1 \in DOMAIN q /\ t[k] = q[k + 1] /\ k + 1 # 1
      /\ \A k \in DOMAIN q : k = 1 \/ (k - 1 \in DOMAIN t /\ t[k - 1] = q[k])
  BY TailIs
<1> HIDE DEF t, c
<1>2. ASSUME NEW x \in FinalTags(t)
      PROVE  x \in FinalTags(q) /\ (Final(c) => x # c.tag)
  <2>1. PICK k \in DOMAIN t : Final(t[k]) /\ x = t[k].tag
    BY <1>2 DEF FinalTags
  <2>2. k + 1 \in DOMAIN q /\ q[k + 1] = t[k] /\ k + 1 # 1
    BY <1>1, <2>1
  <2>3. x \in FinalTags(q)
    BY <2>1, <2>2 DEF FinalTags
  <2>4. Final(c) => x # c.tag
    BY <2>1, <2>2, <1>1 DEF FinalOnce
  <2> QED BY <2>3, <2>4
<1>3. ASSUME NEW x \in FinalTags(q), ~ (Final(c) /\ x = c.tag)
      PROVE  x \in FinalTags(t)
  <2>1. PICK k \in DOMAIN q : Final(q[k]) /\ x = q[k].tag
    BY <1>3 DEF FinalTags
  <2>2. k # 1
    BY <2>1, <1>1, <1>3
  <2>3. k - 1 \in DOMAIN t /\ t[k - 1] = q[k]
    BY <2>2, <1>1
  <2> QED BY <2>1, <2>3 DEF FinalTags
<1>4. Final(c) => c.tag \in FinalTags(q)
  BY <1>1 DEF FinalTags
<1>5. FinalOnce(t)
  <2> SUFFICES ASSUME NEW j \in DOMAIN t, NEW k \in DOMAIN t, Final(t[j]), Final(t[k]),
                      t[j].tag = t[k].tag
               PROVE  j = k
    BY DEF FinalOnce
  <2>1. /\ j + 1 \in DOMAIN q /\ k + 1 \in DOMAIN q
        /\ q[j + 1] = t[j] /\ q[k + 1] = t[k]
    BY <1>1
  <2>2. j + 1 = k + 1
    BY <2>1 DEF FinalOnce
  <2> QED BY <2>2, <1>1
<1>6. FinalTags(t) = FinalTags(q) \ (IF Final(c) THEN {c.tag} ELSE {})
  BY <1>2, <1>3
<1> QED BY <1>4, <1>5, <1>6 DEF t, c

(* A packet less in the ring                                               *)
LEMMA RingTail ==
  ASSUME NEW s \in Seq(UnfRec), s # <<>>, OnceIn(s)
  PROVE  /\ OnceIn(Tail(s))
         /\ {Tail(s)[k].tag : k \in DOMAIN Tail(s)} = {s[k].tag : k \in DOMAIN s} \ {s[1].tag}
<1> DEFINE t == Tail(s)
<1>1. /\ 1 \in DOMAIN s
      /\ \A k \in DOMAIN t : k \in Int /\ k + 1 \in DOMAIN s /\ t[k] = s[k + 1] /\ k + 1 # 1
      /\ \A k \in DOMAIN s : k = 1 \/ (k - 1 \in DOMAIN t /\ t[k - 1] = s[k])
  BY TailIs
<1> HIDE DEF t
<1>2. OnceIn(t)
  <2> SUFFICES ASSUME NEW j \in DOMAIN t, NEW k \in DOMAIN t, t[j].tag = t[k].tag
               PROVE  j = k
    BY DEF OnceIn
  <2>1. s[j + 1] = t[j] /\ s[k + 1] = t[k] /\ j + 1 \in DOMAIN s /\ k + 1 \in DOMAIN s
    BY <1>1
  <2>2. j + 1 = k + 1
    BY <2>1 DEF OnceIn
  <2> QED BY <2>2, <1>1
<1>3. ASSUME NEW k \in DOMAIN t
      PROVE  t[k].tag \in {s[j].tag : j \in DOMAIN s} \ {s[1].tag}
  BY <1>1 DEF OnceIn
<1>4. ASSUME NEW k \in DOMAIN s, s[k].tag # s[1].tag
      PROVE  s[k].tag \in {t[j].tag : j \in DOMAIN t}
  BY <1>1, <1>4
<1> QED BY <1>2, <1>3, <1>4 DEF t

(* A step that no device sees keeps the account of the tags at it.         *)
LEMMA WaitSame ==
  ASSUME WaitInv, Waiting \subseteq Waiting', nmiss' = nmiss,
         UNCHANGED <<unfetched, inflight, complq, exc>>
  PROVE  WaitInv'
BY DEF WaitInv, RingTags, WireTags, DoneTags, MissTags

-----------------------------------------------------------------------------
(***************************************************************************)
(* The tags, action by action                                              *)
(***************************************************************************)

TagsInv == QueueInv /\ OfferInv /\ BuildInv /\ ChainInv

(* The steps that leave the queue and the packet under construction alone, *)
(* and change no buffer but the type of one that is not part of it         *)
Retyped ==
  \A s \in Tag :
    /\ bufs'[s].next = bufs[s].next
    /\ s \in BuiltTags => bufs'[s].skb = bufs[s].skb
    /\ \/ bufs'[s].type = bufs[s].type
       \/ /\ bufs[s].type \notin {"EMPTY", "FRAG"} /\ bufs'[s].type # "FRAG"
          /\ bufs'[s].type = "EMPTY" => nmiss' # 0

(* A step that changes types of busy buffers only                          *)
LEMMA TagsRetyped ==
  ASSUME AllTypes, TagsInv, Retyped,
         SameQueue, Taken' = Taken, rntc' = rntc, rflgen' = rflgen,
         xpc' = "map" => xpc = "map" /\ xm' = xm, xpc = "map" => xpc' = "map",
         xpc' = "first" => Len(xm'.shape) < Held,
         npc' = "chain" => npc = "chain" /\ nc'.tag = nc.tag,
         nmiss' = 0 => nmiss = 0
  PROVE  TagsInv'
<1> USE DEF TagsInv
<1>1. QueueInv'
  BY QueueSame
<1>2. Held' = Held /\ (\A j : TagAt(j)' = TagAt(j)) /\ Taken' = Taken
  BY SameQueueIs
<1>t. \A j \in Int : TagAt(j) \in Tag
  BY BaseTypes
<1>h. Held \in Int /\ Taken \in Nat
  BY BaseTypes
<1>3. OfferInv'
  <2>1. ASSUME NEW j \in Taken .. Held - 1
        PROVE  bufs'[TagAt(j)].type = "EMPTY"
    BY <1>t, <1>h DEF OfferInv, Retyped
  <2>2. xpc' \in {"first", "map"} => Len(xm'.shape) < Held
    BY DEF OfferInv
  <2>3. npc' = "chain" => \A j \in 0 .. Held - 1 : j = Held - 1 => TagAt(j) = nc'.tag
    BY DEF OfferInv
  <2>4. ASSUME nmiss' = 0, NEW t \in Tag, bufs'[t].type = "EMPTY"
        PROVE  \E j \in 0 .. Held - 1 : t = TagAt(j)
    BY <2>4 DEF OfferInv, Retyped
  <2> QED BY <1>2, <2>1, <2>2, <2>3, <2>4 DEF OfferInv
<1>4. BuildInv'
  <2> SUFFICES ASSUME xpc' = "map" PROVE BuildInv'
    BY DEF BuildInv
  <2>1. xpc = "map" /\ xm' = xm
    OBVIOUS
  <2>2. xm.k \in Nat /\ xm.buf \in Tag /\ xm.first \in Tag
    BY <2>1, XmIs DEF AllTypes, TyXm
  <2>3. \A j \in 0 .. xm.k - 2 : TagAt(j) \in Tag /\ TagAt(j + 1) \in Tag
    BY <1>t, <2>2
  <2>4. \A j \in 0 .. xm.k - 2 : /\ bufs'[TagAt(j)].type = "FRAG"
                                 /\ bufs'[TagAt(j)].next = TagAt(j + 1)
    BY <2>1, <2>3 DEF BuildInv, Retyped
  <2>6. xm.first \in BuiltTags
    <3>1. 0 \in 0 .. Taken - 1
      BY <2>1, XmIs DEF AllTypes, TyXm, Taken
    <3> QED BY <2>1, <3>1 DEF BuildInv, BuiltTags
  <2>5. bufs'[xm.buf].type = "EMPTY" /\ bufs'[xm.first].skb = xm.pkt
    BY <2>1, <2>2, <2>6 DEF BuildInv, Retyped
  <2> QED BY <2>1, <2>4, <2>5, <1>2 DEF BuildInv
<1>5. ChainInv'
  <2>1. BuiltTags' = BuiltTags
    BY <1>2 DEF BuiltTags
  <2>2. \A s \in Tag : Linked(s)' => Linked(s)
    BY <2>1 DEF Linked, Retyped
  <2>3. \A s \in Tag : Linked(s) => bufs[s].next \in Tag
    BY DEF Linked, AllTypes, TyBufs, BufRec
  <2>4. ASSUME NEW s \in Tag, Linked(s)'
        PROVE  bufs'[bufs'[s].next].type = "FRAG" /\ bufs'[s].next \notin BuiltTags'
    BY <2>1, <2>2, <2>3, <2>4 DEF ChainInv, Retyped
  <2>5. ASSUME NEW s \in Tag, NEW t \in Tag, Linked(s)', Linked(t)', bufs'[s].next = bufs'[t].next
        PROVE  s = t
    BY <2>2, <2>5 DEF ChainInv, Retyped
  <2> QED BY <2>4, <2>5 DEF ChainInv
<1> QED BY <1>1, <1>3, <1>4, <1>5

(* A step that leaves the buffers alone is one of these.                   *)
LEMMA RetypedSame == bufs' = bufs => Retyped
BY DEF Retyped

(* So is one that changes the type of one busy buffer.                     *)
LEMMA RetypedOne ==
  ASSUME AllTypes, NEW t \in Tag, NEW ty, bufs' = [bufs EXCEPT ![t].type = ty],
         bufs[t].type \notin {"EMPTY", "FRAG"}, ty # "FRAG", ty = "EMPTY" => nmiss' # 0
  PROVE  /\ Retyped /\ bufs'[t].type = ty
         /\ \A s \in Tag : s # t => bufs'[s] = bufs[s]
<1>1. bufs \in [Tag -> BufRec] /\ bufs[t] \in BufRec
  BY DEF AllTypes, TyBufs
<1> DEFINE r == [bufs[t] EXCEPT !.type = ty]
<1>2. bufs' = [bufs EXCEPT ![t] = r]
  OBVIOUS
<1>3. r.type = ty /\ r.next = bufs[t].next /\ r.skb = bufs[t].skb
  BY <1>1 DEF BufRec
<1> HIDE DEF r
<1>4. bufs'[t] = r /\ \A s \in Tag : s # t => bufs'[s] = bufs[s]
  BY <1>1, <1>2
<1> QED BY <1>3, <1>4 DEF Retyped

(* What a step of xmit that is not about buffers leaves alone              *)
LEMMA TagsXmitStart ==
  ASSUME AllTypes, TagsInv, NEW s \in Shapes, NEW c \in Ctx, NEW mr \in BOOLEAN,
         XmitStart(s, c, mr)
  PROVE  TagsInv'
<1>1. xpc = "idle" /\ xpc' \in {"first", "stop"} /\ bufs' = bufs /\ rring' = rring /\ rntu' = rntu
        /\ rgen' = rgen /\ rntc' = rntc /\ rflgen' = rflgen /\ npc' = npc /\ nc' = nc /\ nmiss' = nmiss
  BY DEF XmitStart, rfVars, napiVars, histVars
<1>2. SameQueue /\ Taken' = Taken /\ Taken = 0
  BY <1>1 DEF SameQueue, TagBase, TagGen, Taken
<1>3. xpc' = "first" => Len(xm'.shape) < Held
  <2>1. xpc' = "first" => FreeBufs >= Len(xm'.shape)
    <3>1. xpc' = "first" => HasRoom(xm')
      BY DEF XmitStart
    <3> QED BY <3>1 DEF HasRoom
  <2>2. FreeBufs = Held - 1
    BY <1>2, NumFreeIs DEF TagsInv
  <2>3. xm'.shape = s /\ Len(s) \in Nat
    BY PacketAssumption DEF XmitStart, NoXmit
  <2> QED BY <2>1, <2>2, <2>3, BaseTypes
<1> QED BY <1>1, <1>2, <1>3, RetypedSame, TagsRetyped

(* The second look at the room finds the tags it needs.                    *)
LEMMA TagsXmitRecheck ==
  ASSUME AllTypes, TagsInv, XmitRecheck
  PROVE  TagsInv'
<1>1. xpc = "recheck" /\ xpc' \in {"first", "idle"} /\ bufs' = bufs /\ rring' = rring /\ rntu' = rntu
        /\ rgen' = rgen /\ rntc' = rntc /\ rflgen' = rflgen /\ npc' = npc /\ nc' = nc /\ nmiss' = nmiss
  BY DEF XmitRecheck, rfVars, napiVars, histVars
<1>2. SameQueue /\ Taken' = Taken /\ Taken = 0
  BY <1>1 DEF SameQueue, TagBase, TagGen, Taken
<1>3. xpc' = "first" => Len(xm'.shape) < Held
  <2>1. xpc' = "first" => FreeBufs >= Len(xm.shape) /\ xm' = xm
    BY DEF XmitRecheck, HasRoom
  <2>2. FreeBufs = Held - 1
    BY <1>2, NumFreeIs DEF TagsInv
  <2>3. Len(xm.shape) \in Nat
    BY XmIs DEF AllTypes, TyXm
  <2> QED BY <2>1, <2>2, <2>3, BaseTypes
<1> QED BY <1>1, <1>2, <1>3, RetypedSame, TagsRetyped

(* Steps that are not about tags                                           *)
LEMMA TagsQuiet ==
  ASSUME AllTypes, TagsInv, bufs' = bufs, UNCHANGED <<rring, rntu, rgen, rfVars>>,
         \/ UNCHANGED xmitVars
         \/ XmitStop,
         npc' = "chain" => npc = "chain" /\ nc' = nc, nmiss' = 0 => nmiss = 0
  PROVE  TagsInv'
<1>1. xpc' = "first" => Len(xm'.shape) < Held
  <2>1. xpc' = "first" => xpc = "first" /\ xm' = xm
    BY DEF XmitStop, xmitVars
  <2> QED BY <2>1 DEF TagsInv, OfferInv
<1>2. SameQueue /\ Taken' = Taken
  BY DEF SameQueue, TagBase, TagGen, Taken, xmitVars, rfVars, XmitStop
<1>3. (xpc' = "map" => xpc = "map" /\ xm' = xm) /\ (xpc = "map" => xpc' = "map")
  BY DEF xmitVars, XmitStop
<1> QED BY <1>1, <1>2, <1>3, RetypedSame, TagsRetyped DEF rfVars

(* The tag at next_to_clean is the first of those offered.                 *)
LEMMA NextTag ==
  ASSUME AllTypes, TagsInv, xpc \in {"first", "map"},
         xpc = "map" => xm.k < Len(xm.shape)
  PROVE  /\ rring[rntc] = EntryAt(Taken) /\ rring[rntc].id = TagAt(Taken)
         /\ Taken + 1 < Held /\ Taken \in Nat /\ Held \in Nat /\ TagAt(Taken) \in Tag
         /\ bufs[TagAt(Taken)].type = "EMPTY"
         /\ \A j \in 0 .. Held - 1 : TagAt(j) = TagAt(Taken) => j = Taken
         /\ npc = "chain" => TagAt(Taken) # nc.tag
<1> USE DEF TagsInv
<1>1. rring[rntc] = EntryAt(Taken) /\ rring[rntc].id = TagAt(Taken)
  BY FreeAt DEF TagAt
<1>2. Taken \in Nat /\ Held \in Nat /\ Taken < Held /\ TagAt(Taken) \in Tag
  BY BaseTypes DEF QueueInv
<1>3. Taken + 1 < Held
  <2>1. Len(xm.shape) < Held /\ Len(xm.shape) \in Nat /\ Len(xm.shape) > 0 /\ xm.k \in Nat
    BY XmIs DEF OfferInv, AllTypes, TyXm
  <2>2. Taken + 1 <= Len(xm.shape)
    BY <2>1 DEF Taken
  <2> QED BY <2>1, <2>2, <1>2
<1>4. Taken \in Taken .. Held - 1 /\ Taken \in 0 .. Held - 1
  BY <1>2
<1>5. bufs[TagAt(Taken)].type = "EMPTY"
  BY <1>4 DEF OfferInv
<1>6. \A j \in 0 .. Held - 1 : TagAt(j) = TagAt(Taken) => j = Taken
  BY <1>4 DEF QueueInv
<1>7. npc = "chain" => TagAt(Taken) # nc.tag
  <2>1. Held - 1 \in 0 .. Held - 1 /\ Held - 1 # Taken
    BY <1>2, <1>3
  <2>2. npc = "chain" => TagAt(Held - 1) = nc.tag
    BY <2>1 DEF OfferInv
  <2> QED BY <2>1, <2>2, <1>6
<1> QED BY <1>1, <1>2, <1>3, <1>5, <1>6, <1>7

(* The first tag was offered and is now under construction.                *)
LEMMA TagsXmitFirst ==
  ASSUME AllTypes, TagsInv, NEW st \in Stamps, XmitFirst(st)
  PROVE  TagsInv'
<1> USE DEF TagsInv
<1> DEFINE t == rring[rntc].id
           i == Bump(ntu, xm.ctx + st)
<1>1. /\ xpc = "first" /\ TakeTag /\ bufs' = [bufs EXCEPT ![t].skb = xm.pkt]
      /\ xpc' = "map" /\ rring' = rring /\ rntu' = rntu /\ rgen' = rgen
      /\ npc' = npc /\ nc' = nc /\ nmiss' = nmiss
      /\ xm' = [xm EXCEPT !.k = 1, !.i = i, !.first = t, !.buf = t, !.re = NeedRe(i),
                          !.st = st, !.ntu = ntu, !.rntc = rntc, !.rflgen = rflgen]
  BY DEF XmitFirst, napiVars
<1>2. xm \in XmRec
  BY <1>1 DEF AllTypes, TyXm
<1>3. Taken = 0 /\ TagBase = rntc /\ TagGen = rflgen
  BY <1>1 DEF Taken, TagBase, TagGen
<1>4. /\ xm'.k = 1 /\ xm'.first = t /\ xm'.buf = t /\ xm'.rntc = rntc /\ xm'.rflgen = rflgen
      /\ xm'.shape = xm.shape /\ xm'.pkt = xm.pkt
  BY <1>1, <1>2 DEF XmRec
<1>5. Taken' = Taken + 1 /\ SameQueue
  BY <1>1, <1>3, <1>4 DEF Taken, TagBase, TagGen, SameQueue
<1>6. /\ t = TagAt(0) /\ 1 < Held /\ Held \in Nat /\ t \in Tag /\ bufs[t].type = "EMPTY"
      /\ npc = "chain" => t # nc.tag
  BY <1>1, <1>3, NextTag
<1> HIDE DEF t, i
<1>7. QueueInv'
  BY <1>1, <1>3, <1>5, <1>6, QueueTake
<1>8. Held' = Held /\ \A j : TagAt(j)' = TagAt(j)
  BY <1>5, SameQueueIs
<1>9. \A s \in Tag : bufs'[s].type = bufs[s].type /\ bufs'[s].next = bufs[s].next
  BY <1>1 DEF AllTypes, TyBufs, BufRec
<1>t. \A j \in Int : TagAt(j) \in Tag
  BY BaseTypes
<1>10. OfferInv'
  <2>1. ASSUME NEW j \in Taken' .. Held' - 1
        PROVE  bufs'[TagAt(j)'].type = "EMPTY"
    <3>1. j \in Taken .. Held - 1 /\ j \in Int
      BY <1>3, <1>5, <1>6, <1>8
    <3> QED BY <3>1, <1>8, <1>9, <1>t DEF OfferInv
  <2>2. xpc' \in {"first", "map"} => Len(xm'.shape) < Held'
    BY <1>1, <1>4, <1>8 DEF OfferInv
  <2>3. npc' = "chain" => \A j \in 0 .. Held' - 1 : j = Held' - 1 => TagAt(j)' = nc'.tag
    BY <1>1, <1>8 DEF OfferInv
  <2>4. ASSUME nmiss' = 0, NEW s \in Tag, bufs'[s].type = "EMPTY"
        PROVE  \E j \in 0 .. Held' - 1 : s = TagAt(j)'
    BY <2>4, <1>1, <1>8, <1>9 DEF OfferInv
  <2> QED BY <2>1, <2>2, <2>3, <2>4 DEF OfferInv
<1>11. BuildInv'
  <2>1. bufs'[t].skb = xm.pkt
    BY <1>1, <1>6 DEF AllTypes, TyBufs, BufRec
  <2>2. \A j \in 0 .. xm'.k - 1 : j = 0
    BY <1>4
  <2>3. 0 .. xm'.k - 2 = {}
    BY <1>4
  <2>4. xm'.first = TagAt(0)' /\ \A j \in 0 .. xm'.k - 1 : xm'.buf = TagAt(j)'
    BY <1>4, <1>6, <1>8, <2>2
  <2>5. bufs'[t].type = "EMPTY"
    BY <1>6, <1>9
  <2> QED BY <2>1, <2>3, <2>4, <2>5, <1>4 DEF BuildInv
<1>12. ChainInv'
  <2>1. BuiltTags = {}
    BY <1>3 DEF BuiltTags
  <2>2. BuiltTags' = {t}
    <3>1. 0 .. Taken' - 1 = {0}
      BY <1>3, <1>5
    <3> QED BY <3>1, <1>6, <1>8 DEF BuiltTags
  <2>3. \A s \in Tag : Linked(s)' => Linked(s)
    BY <2>1, <1>1, <1>9 DEF Linked
  <2>4. \A s \in Tag : Linked(s) => bufs[s].next \in Tag
    BY DEF Linked, AllTypes, TyBufs, BufRec
  <2>5. ASSUME NEW s \in Tag, Linked(s)'
        PROVE  bufs'[bufs'[s].next].type = "FRAG" /\ bufs'[s].next \notin BuiltTags'
    <3>1. bufs[bufs[s].next].type = "FRAG" /\ bufs[s].next \in Tag
      BY <2>3, <2>4, <2>5 DEF ChainInv
    <3>2. bufs[s].next # t
      BY <3>1, <1>6
    <3> QED BY <3>1, <3>2, <2>2, <1>9
  <2>6. ASSUME NEW s \in Tag, NEW u \in Tag, Linked(s)', Linked(u)', bufs'[s].next = bufs'[u].next
        PROVE  s = u
    BY <2>3, <2>6, <1>9 DEF ChainInv
  <2> QED BY <2>5, <2>6 DEF ChainInv
<1> QED BY <1>7, <1>10, <1>11, <1>12

(* A further tag is linked to the one before it.                           *)
LEMMA TagsXmitFrag ==
  ASSUME AllTypes, TagsInv, XmitFrag
  PROVE  TagsInv'
<1> USE DEF TagsInv
<1> DEFINE t == rring[rntc].id
           i == Bump(xm.i, xm.shape[xm.k])
<1>1. /\ xpc = "map" /\ TakeTag /\ xm.k < Len(xm.shape)
      /\ bufs' = [bufs EXCEPT ![xm.buf] = [bufs[xm.buf] EXCEPT !.type = "FRAG", !.next = t]]
      /\ xpc' = "map" /\ rring' = rring /\ rntu' = rntu /\ rgen' = rgen
      /\ npc' = npc /\ nc' = nc /\ nmiss' = nmiss
      /\ xm' = [xm EXCEPT !.k = xm.k + 1, !.buf = t, !.i = i]
  BY DEF XmitFrag, napiVars, histVars
<1>2. xm \in XmRec /\ xm.k \in Nat /\ xm.k >= 1 /\ Len(xm.shape) \in Nat /\ xm.buf \in Tag
        /\ xm.first \in Tag
  BY <1>1, XmIs DEF AllTypes, TyXm
<1>3. Taken = xm.k /\ TagBase = xm.rntc /\ TagGen = xm.rflgen
  BY <1>1 DEF Taken, TagBase, TagGen
<1>4. /\ xm'.k = xm.k + 1 /\ xm'.first = xm.first /\ xm'.buf = t /\ xm'.rntc = xm.rntc
      /\ xm'.rflgen = xm.rflgen /\ xm'.shape = xm.shape /\ xm'.pkt = xm.pkt
  BY <1>1, <1>2 DEF XmRec
<1>5. Taken' = Taken + 1 /\ SameQueue
  BY <1>1, <1>3, <1>4 DEF Taken, TagBase, TagGen, SameQueue
<1>6. /\ t = TagAt(xm.k) /\ xm.k + 1 < Held /\ Held \in Nat /\ t \in Tag /\ bufs[t].type = "EMPTY"
      /\ npc = "chain" => t # nc.tag
  BY <1>1, <1>3, NextTag
<1> HIDE DEF t, i
<1>7. QueueInv'
  BY <1>1, <1>3, <1>5, <1>6, QueueTake
<1>8. Held' = Held /\ \A j : TagAt(j)' = TagAt(j)
  BY <1>5, SameQueueIs
<1>t. \A j \in Int : TagAt(j) \in Tag
  BY BaseTypes
<1>b. xm.k - 1 \in 0 .. xm.k - 1 /\ xm.k - 1 \in 0 .. Held - 1 /\ xm.buf = TagAt(xm.k - 1)
        /\ bufs[xm.buf].type = "EMPTY"
  <2>1. xm.k - 1 \in 0 .. xm.k - 1 /\ xm.k - 1 \in 0 .. Held - 1
    BY <1>2, <1>6
  <2> QED BY <2>1, <1>1 DEF BuildInv
<1>9. /\ bufs'[xm.buf].type = "FRAG" /\ bufs'[xm.buf].next = t
      /\ bufs'[xm.buf].skb = bufs[xm.buf].skb
      /\ \A s \in Tag : s # xm.buf => bufs'[s] = bufs[s]
  <2>1. bufs \in [Tag -> BufRec] /\ bufs[xm.buf] \in BufRec
    BY <1>2 DEF AllTypes, TyBufs
  <2> DEFINE r == [bufs[xm.buf] EXCEPT !.type = "FRAG", !.next = t]
  <2>2. r.type = "FRAG" /\ r.next = t /\ r.skb = bufs[xm.buf].skb
    BY <2>1 DEF BufRec
  <2>3. bufs' = [bufs EXCEPT ![xm.buf] = r]
    BY <1>1
  <2> HIDE DEF r
  <2>4. bufs'[xm.buf] = r /\ \A s \in Tag : s # xm.buf => bufs'[s] = bufs[s]
    BY <2>1, <2>3, <1>2
  <2> QED BY <2>2, <2>4
<1>d. \A j \in 0 .. Held - 1 : j # xm.k - 1 => TagAt(j) # xm.buf
  BY <1>b DEF QueueInv
<1>10. OfferInv'
  <2>1. ASSUME NEW j \in Taken' .. Held' - 1
        PROVE  bufs'[TagAt(j)'].type = "EMPTY"
    <3>1. j \in Taken .. Held - 1 /\ j \in Int /\ j \in 0 .. Held - 1 /\ j # xm.k - 1
      BY <1>2, <1>3, <1>5, <1>6, <1>8
    <3>2. bufs[TagAt(j)].type = "EMPTY" /\ TagAt(j) # xm.buf /\ TagAt(j) \in Tag
      BY <3>1, <1>d, <1>t DEF OfferInv
    <3> QED BY <3>2, <1>8, <1>9
  <2>2. xpc' \in {"first", "map"} => Len(xm'.shape) < Held'
    BY <1>1, <1>4, <1>8 DEF OfferInv
  <2>3. npc' = "chain" => \A j \in 0 .. Held' - 1 : j = Held' - 1 => TagAt(j)' = nc'.tag
    BY <1>1, <1>8 DEF OfferInv
  <2>4. ASSUME nmiss' = 0, NEW s \in Tag, bufs'[s].type = "EMPTY"
        PROVE  \E j \in 0 .. Held' - 1 : s = TagAt(j)'
    <3>1. s # xm.buf
      BY <2>4, <1>9
    <3>2. bufs[s].type = "EMPTY"
      BY <2>4, <3>1, <1>9
    <3> QED BY <2>4, <3>2, <1>1, <1>8 DEF OfferInv
  <2> QED BY <2>1, <2>2, <2>3, <2>4 DEF OfferInv
<1>11. BuildInv'
  <2>1. xm'.first = TagAt(0)' /\ bufs'[xm'.first].skb = xm'.pkt
    <3>1. xm.first = TagAt(0) /\ bufs[xm.first].skb = xm.pkt
      BY <1>1 DEF BuildInv
    <3> QED BY <3>1, <1>2, <1>4, <1>8, <1>9
  <2>2. \A j \in 0 .. xm'.k - 1 : j = xm'.k - 1 => xm'.buf = TagAt(j)'
    <3>1. xm'.k - 1 = xm.k
      BY <1>2, <1>4
    <3> QED BY <3>1, <1>4, <1>6, <1>8
  <2>3. bufs'[xm'.buf].type = "EMPTY"
    <3>1. xm.k \in 0 .. Held - 1 /\ xm.k # xm.k - 1
      BY <1>2, <1>6
    <3>2. t # xm.buf
      BY <3>1, <1>6, <1>d
    <3> QED BY <3>2, <1>4, <1>6, <1>9
  <2>4. ASSUME NEW j \in 0 .. xm'.k - 2
        PROVE  bufs'[TagAt(j)'].type = "FRAG" /\ bufs'[TagAt(j)'].next = TagAt(j + 1)'
    <3>1. j \in 0 .. xm.k - 1 /\ j \in 0 .. Held - 1 /\ j \in Int
      BY <1>2, <1>4, <1>6
    <3>2. CASE j = xm.k - 1
      <4>1. TagAt(j)' = xm.buf
        BY <3>2, <1>8, <1>b
      <4>2. j + 1 = xm.k
        BY <3>2, <1>2
      <4>3. TagAt(j + 1)' = t
        BY <4>2, <1>6, <1>8
      <4> QED BY <4>1, <4>3, <1>9
    <3>3. CASE j # xm.k - 1
      <4>1. j \in 0 .. xm.k - 2
        BY <3>1, <3>3, <1>2
      <4>2. bufs[TagAt(j)].type = "FRAG" /\ bufs[TagAt(j)].next = TagAt(j + 1)
        BY <4>1, <1>1 DEF BuildInv
      <4>3. TagAt(j) # xm.buf /\ TagAt(j) \in Tag
        BY <3>1, <3>3, <1>d, <1>t
      <4> QED BY <4>2, <4>3, <1>8, <1>9
    <3> QED BY <3>2, <3>3
  <2> QED BY <2>1, <2>2, <2>3, <2>4 DEF BuildInv
<1>12. ChainInv'
  <2>1. BuiltTags' = BuiltTags \cup {t}
    <3>1. 0 .. Taken' - 1 = (0 .. Taken - 1) \cup {xm.k}
      BY <1>2, <1>3, <1>5
    <3> QED BY <3>1, <1>6, <1>8 DEF BuiltTags
  <2>2. xm.buf \in BuiltTags
    BY <1>3, <1>b DEF BuiltTags
  <2>3. \A s \in Tag : Linked(s)' => Linked(s) /\ s # xm.buf
    BY <2>1, <2>2, <1>1, <1>9 DEF Linked
  <2>4. \A s \in Tag : Linked(s) => bufs[s].next \in Tag
    BY DEF Linked, AllTypes, TyBufs, BufRec
  <2>5. ASSUME NEW s \in Tag, Linked(s)'
        PROVE  bufs'[bufs'[s].next].type = "FRAG" /\ bufs'[s].next \notin BuiltTags'
    <3>1. /\ bufs[bufs[s].next].type = "FRAG" /\ bufs[s].next \in Tag
          /\ bufs[s].next \notin BuiltTags
      BY <2>3, <2>4, <2>5 DEF ChainInv
    <3>2. bufs[s].next # t /\ bufs[s].next # xm.buf
      BY <3>1, <1>6, <2>2
    <3> QED BY <3>1, <3>2, <2>1, <2>3, <2>5, <1>9
  <2>6. ASSUME NEW s \in Tag, NEW u \in Tag, Linked(s)', Linked(u)', bufs'[s].next = bufs'[u].next
        PROVE  s = u
    BY <2>3, <2>6, <1>9 DEF ChainInv
  <2> QED BY <2>5, <2>6 DEF ChainInv
<1> QED BY <1>7, <1>10, <1>11, <1>12

(* The chain of the packet is closed.                                      *)
LEMMA TagsXmitLast ==
  ASSUME AllTypes, TagsInv, XmitLast
  PROVE  TagsInv'
<1> USE DEF TagsInv
<1> DEFINE i == Bump(xm.i, xm.shape[xm.k] - 1)
           ty == IF xm.st = 1 THEN "SKB_TSTAMP" ELSE "SKB"
           b == [bufs EXCEPT ![xm.buf] = [bufs[xm.buf] EXCEPT !.type = "FRAG", !.next = Null]]
           k == xm.k
<1>1. /\ xpc = "map" /\ xm.k = Len(xm.shape)
      /\ bufs' = [b EXCEPT ![xm.first] = [b[xm.first] EXCEPT !.rs = i, !.type = ty]]
      /\ xpc' = "idle" /\ rring' = rring /\ rntu' = rntu /\ rgen' = rgen
      /\ rntc' = rntc /\ rflgen' = rflgen /\ npc' = npc /\ nc' = nc /\ nmiss' = nmiss
  BY DEF XmitLast, napiVars, rfVars, histVars
<1>2. xm \in XmRec /\ k \in Nat /\ k >= 1 /\ xm.buf \in Tag /\ xm.first \in Tag
  BY <1>1, XmIs DEF AllTypes, TyXm
<1>3. Taken = k /\ Taken' = 0 /\ TagBase' = rntc /\ TagGen' = rflgen
  BY <1>1 DEF Taken, TagBase, TagGen
<1> HIDE DEF i
<1>4. QueueInv' /\ Held' = Held - k /\ \A j \in Nat : TagAt(j)' = TagAt(k + j)
  BY <1>1, <1>3, QueueShift
<1>t. \A j \in Int : TagAt(j) \in Tag
  BY BaseTypes
<1>h. Held \in Nat /\ k < Held
  BY <1>3, BaseTypes DEF QueueInv
<1>5. /\ xm.first = TagAt(0) /\ xm.buf = TagAt(k - 1) /\ bufs[xm.buf].type = "EMPTY"
      /\ k - 1 \in 0 .. Held - 1 /\ 0 \in 0 .. Held - 1
      /\ \A j \in 0 .. k - 2 : bufs[TagAt(j)].type = "FRAG" /\ bufs[TagAt(j)].next = TagAt(j + 1)
  <2>1. k - 1 \in 0 .. k - 1 /\ k - 1 \in 0 .. Held - 1 /\ 0 \in 0 .. Held - 1
    BY <1>2, <1>h
  <2> QED BY <2>1, <1>1 DEF BuildInv
<1>6. /\ bufs'[xm.first].type = ty
      /\ xm.buf # xm.first => bufs'[xm.buf].type = "FRAG"
      /\ bufs'[xm.buf].next = Null
      /\ \A s \in Tag : /\ s # xm.buf => bufs'[s].next = bufs[s].next
                        /\ s # xm.buf /\ s # xm.first => bufs'[s].type = bufs[s].type
  <2> HIDE DEF ty, k
  <2>1. bufs \in [Tag -> BufRec] /\ bufs[xm.buf] \in BufRec
    BY <1>2 DEF AllTypes, TyBufs
  <2> DEFINE r == [bufs[xm.buf] EXCEPT !.type = "FRAG", !.next = Null]
  <2>2. r.type = "FRAG" /\ r.next = Null /\ r \in BufRec
    BY <2>1 DEF BufRec, BufType
  <2> HIDE DEF r
  <2>3. b = [bufs EXCEPT ![xm.buf] = r] /\ b \in [Tag -> BufRec]
    BY <2>1, <2>2, <1>2 DEF r
  <2>4. b[xm.buf] = r /\ \A s \in Tag : s # xm.buf => b[s] = bufs[s]
    BY <2>1, <2>3, <1>2
  <2> HIDE DEF b
  <2> DEFINE q == [b[xm.first] EXCEPT !.rs = i, !.type = ty]
  <2>5. q.type = ty /\ q.next = b[xm.first].next
    <3>1. b[xm.first] \in BufRec
      BY <2>3, <1>2
    <3> QED BY <3>1 DEF BufRec
  <2>6. bufs' = [b EXCEPT ![xm.first] = q]
    BY <1>1
  <2> HIDE DEF q
  <2>7. bufs'[xm.first] = q /\ \A s \in Tag : s # xm.first => bufs'[s] = b[s]
    BY <2>3, <2>6, <1>2
  <2> QED BY <2>2, <2>4, <2>5, <2>7, <1>2
<1>7. ty \in {"SKB_TSTAMP", "SKB"}
  OBVIOUS
<1> HIDE DEF b, ty, k
<1>8. \A j \in 0 .. Held - 1 : /\ TagAt(j) = xm.first => j = 0
                               /\ TagAt(j) = xm.buf => j = k - 1
  BY <1>5 DEF QueueInv
<1>9. \A s \in Tag : bufs'[s].type = "EMPTY" => bufs[s].type = "EMPTY" /\ s # xm.first /\ s # xm.buf
  BY <1>6, <1>7
<1>10. OfferInv'
  <2>1. ASSUME NEW j \in Taken' .. Held' - 1
        PROVE  bufs'[TagAt(j)'].type = "EMPTY"
    <3>1. j \in Nat /\ k + j \in Taken .. Held - 1 /\ k + j \in 0 .. Held - 1 /\ k + j # 0 /\ k + j # k - 1
            /\ k + j \in Int
      BY <1>2, <1>3, <1>4, <1>h
    <3>2. bufs[TagAt(k + j)].type = "EMPTY" /\ TagAt(k + j) \in Tag
      BY <3>1, <1>t DEF OfferInv
    <3>3. TagAt(k + j) # xm.first /\ TagAt(k + j) # xm.buf
      BY <3>1, <1>8
    <3> QED BY <3>1, <3>2, <3>3, <1>4, <1>6
  <2>2. xpc' \notin {"first", "map"}
    BY <1>1
  <2>3. ASSUME npc' = "chain", NEW j \in 0 .. Held' - 1, j = Held' - 1
        PROVE  TagAt(j)' = nc'.tag
    <3>1. j \in Nat /\ k + j \in 0 .. Held - 1 /\ k + j = Held - 1
      BY <1>2, <1>4, <1>h, <2>3
    <3> QED BY <3>1, <2>3, <1>1, <1>4 DEF OfferInv
  <2>4. ASSUME nmiss' = 0, NEW s \in Tag, bufs'[s].type = "EMPTY"
        PROVE  \E j \in 0 .. Held' - 1 : s = TagAt(j)'
    <3>1. bufs[s].type = "EMPTY" /\ s # xm.buf
      BY <2>4, <1>9
    <3>2. PICK j \in 0 .. Held - 1 : s = TagAt(j)
      BY <2>4, <3>1, <1>1 DEF OfferInv
    <3>3. ~ (j \in 0 .. k - 2) /\ j # k - 1
      BY <3>1, <3>2, <1>5
    <3>4. PICK n \in Nat : k + n = j /\ n \in 0 .. Held' - 1
      <4>1. j - k \in Nat /\ j - k \in 0 .. Held' - 1 /\ k + (j - k) = j
        BY <3>2, <3>3, <1>2, <1>4, <1>h
      <4> QED BY <4>1
    <3>5. TagAt(n)' = s
      BY <3>2, <3>4, <1>4
    <3> QED BY <3>4, <3>5
  <2> QED BY <2>1, <2>2, <2>3, <2>4 DEF OfferInv
<1>11. BuildInv'
  BY <1>1 DEF BuildInv
<1>12. ChainInv'
  <2>1. BuiltTags' = {}
    BY <1>3 DEF BuiltTags
  <2>2. BuiltTags = {TagAt(j) : j \in 0 .. k - 1}
    BY <1>3 DEF BuiltTags
  <2>3. \A s \in BuiltTags : s = xm.buf \/ \E j \in 0 .. k - 2 : s = TagAt(j)
    <3>1. \A j \in 0 .. k - 1 : j = k - 1 \/ j \in 0 .. k - 2
      BY <1>2
    <3> QED BY <3>1, <2>2, <1>5
  <2>4. xm.buf \in BuiltTags /\ xm.first \in BuiltTags
    <3>1. k - 1 \in 0 .. k - 1 /\ 0 \in 0 .. k - 1
      BY <1>2
    <3> QED BY <3>1, <2>2, <1>5
  <2>5. \A s \in Tag : Linked(s) => bufs[s].next \in Tag
    BY DEF Linked, AllTypes, TyBufs, BufRec
  <2>6. ASSUME NEW s \in Tag, Linked(s)'
        PROVE  \/ Linked(s) /\ s \notin BuiltTags /\ bufs'[s].next = bufs[s].next
               \/ \E j \in 0 .. k - 2 : s = TagAt(j) /\ bufs'[s].next = TagAt(j + 1)
    <3>0. s # xm.buf /\ bufs'[s].next = bufs[s].next
      BY <2>6, <1>6 DEF Linked
    <3>1. CASE s \in BuiltTags
      BY <3>0, <3>1, <2>3, <1>5
    <3>2. CASE s \notin BuiltTags
      <4>1. bufs'[s].type = bufs[s].type
        BY <3>2, <2>4, <1>6
      <4> QED BY <4>1, <3>0, <3>2, <2>6, <1>1 DEF Linked
    <3> QED BY <3>1, <3>2
  <2>7. \A j \in 0 .. k - 2 : j + 1 \in 0 .. k - 1 /\ TagAt(j + 1) \in BuiltTags
    <3>1. \A j \in 0 .. k - 2 : j + 1 \in 0 .. k - 1
      BY <1>2
    <3> QED BY <3>1, <2>2
  <2>8. ASSUME NEW j \in 0 .. k - 2
        PROVE  TagAt(j + 1) \in Tag /\ bufs'[TagAt(j + 1)].type = "FRAG"
    <3>1. j + 1 \in 0 .. Held - 1 /\ j + 1 # 0 /\ j + 1 \in Int /\ j + 1 \in 0 .. k - 1
      BY <1>2, <1>h
    <3>2. TagAt(j + 1) # xm.first /\ TagAt(j + 1) \in Tag
      BY <3>1, <1>8, <1>t
    <3>3. CASE j + 1 = k - 1
      BY <3>2, <3>3, <1>5, <1>6
    <3>4. CASE j + 1 # k - 1
      <4>1. j + 1 \in 0 .. k - 2
        BY <3>1, <3>4, <1>2
      <4>2. bufs[TagAt(j + 1)].type = "FRAG"
        BY <4>1, <1>5
      <4>3. TagAt(j + 1) # xm.buf
        BY <3>1, <3>4, <1>8
      <4> QED BY <4>2, <4>3, <3>2, <1>6
    <3> QED BY <3>3, <3>4
  <2>9. ASSUME NEW s \in Tag, Linked(s)'
        PROVE  bufs'[bufs'[s].next].type = "FRAG" /\ bufs'[s].next \notin BuiltTags'
    <3>1. CASE Linked(s) /\ s \notin BuiltTags /\ bufs'[s].next = bufs[s].next
      <4>1. /\ bufs[bufs[s].next].type = "FRAG" /\ bufs[s].next \in Tag
            /\ bufs[s].next \notin BuiltTags
        BY <3>1, <2>5 DEF ChainInv
      <4>2. bufs'[bufs[s].next].type = "FRAG"
        BY <4>1, <2>4, <1>6
      <4> QED BY <4>1, <4>2, <3>1, <2>1
    <3>2. CASE \E j \in 0 .. k - 2 : s = TagAt(j) /\ bufs'[s].next = TagAt(j + 1)
      BY <3>2, <2>8, <2>1
    <3> QED BY <2>6, <2>9, <3>1, <3>2
  <2>10. ASSUME NEW s \in Tag, NEW u \in Tag, Linked(s)', Linked(u)', bufs'[s].next = bufs'[u].next
         PROVE  s = u
    <3> DEFINE Old(x) == Linked(x) /\ x \notin BuiltTags /\ bufs'[x].next = bufs[x].next
               New(x) == \E j \in 0 .. k - 2 : x = TagAt(j) /\ bufs'[x].next = TagAt(j + 1)
    <3>1. (Old(s) \/ New(s)) /\ (Old(u) \/ New(u))
      BY <2>6, <2>10
    <3>2. ASSUME NEW x \in Tag, Old(x)
          PROVE  bufs'[x].next \notin BuiltTags
      BY <3>2 DEF ChainInv
    <3>3. ASSUME NEW x \in Tag, New(x)
          PROVE  bufs'[x].next \in BuiltTags
      BY <3>3, <2>7
    <3>4. CASE Old(s) /\ Old(u)
      BY <3>4, <2>10 DEF ChainInv
    <3>5. CASE New(s) /\ New(u)
      <4>1. PICK j \in 0 .. k - 2 : s = TagAt(j) /\ bufs'[s].next = TagAt(j + 1)
        BY <3>5
      <4>2. PICK l \in 0 .. k - 2 : u = TagAt(l) /\ bufs'[u].next = TagAt(l + 1)
        BY <3>5
      <4>3. j + 1 \in 0 .. Held - 1 /\ l + 1 \in 0 .. Held - 1
        BY <1>2, <1>h
      <4>4. j + 1 = l + 1
        BY <4>1, <4>2, <4>3, <2>10 DEF QueueInv
      <4>5. j = l
        BY <4>4
      <4> QED BY <4>1, <4>2, <4>5
    <3> HIDE DEF Old, New
    <3> QED BY <3>1, <3>2, <3>3, <3>4, <3>5, <2>10
  <2> QED BY <2>9, <2>10 DEF ChainInv
<1> QED BY <1>4, <1>10, <1>11, <1>12

(* idpf_tx_splitq_pkt_err_unmap finds the buffers of the packet along      *)
(* their links.                                                            *)
LEMMA BuiltIs ==
  ASSUME AllTypes, BuildInv, xpc = "map"
  PROVE  Built = {TagAt(j) : j \in 0 .. xm.k - 1}
<1> DEFINE k == xm.k
           Is(f) == f = [j \in 1 .. k |-> IF j = 1 THEN xm.first ELSE bufs[f[j - 1]].next]
           g == [j \in 1 .. k |-> TagAt(j - 1)]
           c == CHOOSE f : Is(f)
<1>1. k \in Nat /\ k >= 1
  BY XmIs DEF AllTypes, TyXm
<1>2. Is(g)
  <2>1. ASSUME NEW j \in 1 .. k
        PROVE  g[j] = IF j = 1 THEN xm.first ELSE bufs[g[j - 1]].next
    <3>1. CASE j = 1
      <4>1. j - 1 = 0
        BY <3>1
      <4> QED BY <4>1, <3>1 DEF BuildInv
    <3>2. CASE j # 1
      <4>1. j - 2 \in 0 .. k - 2 /\ (j - 2) + 1 = j - 1 /\ j - 1 \in 1 .. k /\ (j - 1) - 1 = j - 2
        BY <3>2, <1>1
      <4>2. bufs[TagAt(j - 2)].next = TagAt((j - 2) + 1)
        BY <4>1 DEF BuildInv
      <4>3. g[j - 1] = TagAt(j - 2) /\ g[j] = TagAt(j - 1)
        BY <4>1
      <4> QED BY <4>1, <4>2, <4>3, <3>2
    <3> QED BY <3>1, <3>2
  <2>2. g = [j \in 1 .. k |-> g[j]]
    OBVIOUS
  <2> HIDE DEF g
  <2> QED BY <2>1, <2>2
<1>3. Is(c)
  <2> HIDE DEF g, Is
  <2> QED BY <1>2
<1>4. Built = {c[j] : j \in 1 .. k}
  BY DEF Built
<1> HIDE DEF c
<1>5. /\ c[1] = xm.first
      /\ \A j \in 1 .. k : j # 1 => c[j] = bufs[c[j - 1]].next
  BY <1>1, <1>3
<1> DEFINE G == {n \in 0 .. k - 1 : c[n + 1] = TagAt(n)}
<1>6. 0 \in G
  BY <1>1, <1>5 DEF BuildInv
<1>7. ASSUME NEW n \in 1 .. k - 1, n - 1 \in G
      PROVE  n \in G
  <2>1. n - 1 \in 0 .. k - 2 /\ (n - 1) + 1 = n /\ n + 1 \in 1 .. k /\ n + 1 # 1 /\ (n + 1) - 1 = n
          /\ n \in 0 .. k - 1
    BY <1>1
  <2>2. c[n] = TagAt(n - 1)
    BY <1>7, <2>1
  <2>3. bufs[TagAt(n - 1)].next = TagAt(n)
    BY <2>1 DEF BuildInv
  <2>4. c[n + 1] = TagAt(n)
    BY <2>1, <2>2, <2>3, <1>5
  <2> QED BY <2>1, <2>4
<1>8. \A n \in 0 .. k - 1 : n \in G
  <2> HIDE DEF G
  <2>1. k - 1 \in Nat
    BY <1>1
  <2> QED BY <2>1, <1>6, <1>7, StepByStep
<1>9. \A j \in 1 .. k : j - 1 \in 0 .. k - 1 /\ (j - 1) + 1 = j
  BY <1>1
<1>10. \A j \in 0 .. k - 1 : j + 1 \in 1 .. k
  BY <1>1
<1>11. \A n \in 0 .. k - 1 : c[n + 1] = TagAt(n)
  BY <1>8
<1> HIDE DEF G
<1>12. \A j \in 1 .. k : c[j] = TagAt(j - 1)
  BY <1>9, <1>11
<1> QED BY <1>4, <1>9, <1>10, <1>11, <1>12

(* A rollback puts next_to_clean of the refill queue back.                 *)
LEMMA TagsXmitFault ==
  ASSUME AllTypes, TagsInv, XmitFault
  PROVE  TagsInv'
<1> USE DEF TagsInv
<1> DEFINE k == xm.k
<1>1. /\ xpc = "map" /\ bufs' = [t \in Tag |-> IF t \in Built THEN EmptyBuf ELSE bufs[t]]
      /\ xpc' = "idle" /\ rring' = rring /\ rntu' = rntu /\ rgen' = rgen
      /\ rntc' = xm.rntc /\ rflgen' = xm.rflgen /\ npc' = npc /\ nc' = nc /\ nmiss' = nmiss
  BY DEF XmitFault, Rollback, napiVars
<1>2. xm \in XmRec /\ k \in Nat /\ k >= 1
  BY <1>1, XmIs DEF AllTypes, TyXm
<1>3. Taken = k /\ Taken' = 0 /\ TagBase = xm.rntc /\ TagGen = xm.rflgen /\ SameQueue
  BY <1>1 DEF Taken, TagBase, TagGen, SameQueue
<1>4. QueueInv'
  BY <1>1, <1>3, QueueBack
<1>5. Held' = Held /\ \A j : TagAt(j)' = TagAt(j)
  BY <1>3, SameQueueIs
<1>t. \A j \in Int : TagAt(j) \in Tag
  BY BaseTypes
<1>h. Held \in Nat /\ k < Held
  BY <1>3, BaseTypes DEF QueueInv
<1>6. Built = BuiltTags /\ BuiltTags = {TagAt(j) : j \in 0 .. k - 1}
  BY <1>1, <1>3, BuiltIs DEF BuiltTags
<1>7. \A s \in Tag : /\ s \in BuiltTags => bufs'[s].type = "EMPTY" /\ bufs'[s].next = Null
                     /\ s \notin BuiltTags => bufs'[s] = bufs[s]
  BY <1>1, <1>6 DEF EmptyBuf
<1> HIDE DEF k
<1>8. OfferInv'
  <2>1. ASSUME NEW j \in Taken' .. Held' - 1
        PROVE  bufs'[TagAt(j)'].type = "EMPTY"
    <3>1. TagAt(j)' = TagAt(j) /\ TagAt(j) \in Tag /\ j \in 0 .. Held - 1
      BY <1>3, <1>5, <1>t
    <3>2. CASE j \in 0 .. k - 1
      BY <3>1, <3>2, <1>6, <1>7
    <3>3. CASE ~ (j \in 0 .. k - 1)
      <4>1. j \in Taken .. Held - 1
        BY <3>1, <3>3, <1>2, <1>3, <1>h
      <4>2. bufs[TagAt(j)].type = "EMPTY"
        BY <4>1 DEF OfferInv
      <4> QED BY <4>2, <3>1, <1>7
    <3> QED BY <3>2, <3>3
  <2>2. xpc' \notin {"first", "map"}
    BY <1>1
  <2>3. npc' = "chain" => \A j \in 0 .. Held' - 1 : j = Held' - 1 => TagAt(j)' = nc'.tag
    BY <1>1, <1>5 DEF OfferInv
  <2>4. ASSUME nmiss' = 0, NEW s \in Tag, bufs'[s].type = "EMPTY"
        PROVE  \E j \in 0 .. Held' - 1 : s = TagAt(j)'
    <3>1. CASE s \in BuiltTags
      <4>1. PICK j \in 0 .. k - 1 : s = TagAt(j)
        BY <3>1, <1>6
      <4>2. j \in 0 .. Held - 1
        BY <1>2, <1>h
      <4> QED BY <4>1, <4>2, <1>5
    <3>2. CASE s \notin BuiltTags
      BY <3>2, <2>4, <1>1, <1>5, <1>7 DEF OfferInv
    <3> QED BY <3>1, <3>2
  <2> QED BY <2>1, <2>2, <2>3, <2>4 DEF OfferInv
<1>9. BuildInv'
  BY <1>1 DEF BuildInv
<1>10. ChainInv'
  <2>1. BuiltTags' = {}
    BY <1>3 DEF BuiltTags
  <2>2. \A s \in Tag : Linked(s)' => Linked(s) /\ s \notin BuiltTags
    BY <1>1, <1>7 DEF Linked
  <2>3. \A s \in Tag : Linked(s) => bufs[s].next \in Tag
    BY DEF Linked, AllTypes, TyBufs, BufRec
  <2>4. ASSUME NEW s \in Tag, Linked(s)'
        PROVE  bufs'[bufs'[s].next].type = "FRAG" /\ bufs'[s].next \notin BuiltTags'
    BY <2>1, <2>2, <2>3, <2>4, <1>7 DEF ChainInv
  <2>5. ASSUME NEW s \in Tag, NEW t \in Tag, Linked(s)', Linked(t)', bufs'[s].next = bufs'[t].next
        PROVE  s = t
    BY <2>2, <2>5, <1>7 DEF ChainInv
  <2> QED BY <2>4, <2>5 DEF ChainInv
<1> QED BY <1>4, <1>8, <1>9, <1>10

(* The tags of the queue are those of EMPTY buffers and of the fragments   *)
(* of the packet under construction.                                       *)
LEMMA HeldKinds ==
  ASSUME AllTypes, TagsInv, NEW j \in 0 .. Held - 1
  PROVE  /\ bufs[TagAt(j)].type \in {"EMPTY", "FRAG"} /\ TagAt(j) \in Tag
         /\ bufs[TagAt(j)].type = "FRAG" => TagAt(j) \in BuiltTags
<1> USE DEF TagsInv
<1>1. Held \in Nat /\ Taken \in Nat /\ TagAt(j) \in Tag
  BY BaseTypes DEF QueueInv
<1>2. CASE j \in Taken .. Held - 1
  BY <1>1, <1>2 DEF OfferInv
<1>3. CASE ~ (j \in Taken .. Held - 1)
  <2>1. j \in 0 .. Taken - 1 /\ xpc = "map" /\ Taken = xm.k
    BY <1>1, <1>3 DEF Taken
  <2>2. TagAt(j) \in BuiltTags
    BY <2>1 DEF BuiltTags
  <2>3. j \in 0 .. xm.k - 2 \/ j = xm.k - 1
    BY <2>1, <1>1
  <2>4. bufs[TagAt(j)].type \in {"EMPTY", "FRAG"}
    BY <2>1, <2>3 DEF BuildInv
  <2> QED BY <1>1, <2>2, <2>4
<1> QED BY <1>2, <1>3

(* A tag is given back while its buffer becomes EMPTY.                     *)
LEMMA OfferPost ==
  ASSUME AllTypes, TagsInv, NEW t \in Tag, PostTag(t),
         \A j \in 0 .. Held - 1 : TagAt(j) # t,
         UNCHANGED <<xmitVars, rfVars, nmiss>>,
         npc' = "chain", nc'.tag = t,
         bufs'[t].type = "EMPTY",
         \A s \in Tag : s # t => bufs'[s].type = bufs[s].type
  PROVE  QueueInv' /\ OfferInv' /\ (\A j \in 0 .. Held - 1 : TagAt(j)' = TagAt(j))
<1> USE DEF TagsInv
<1>1. /\ TagBase' = TagBase /\ TagGen' = TagGen /\ Taken' = Taken
      /\ rntc' = rntc /\ rflgen' = rflgen /\ xpc' = xpc /\ xm' = xm /\ nmiss' = nmiss
  BY DEF xmitVars, rfVars, TagBase, TagGen, Taken
<1>2. /\ QueueInv' /\ Held' = Held + 1
      /\ \A j \in Int : j = Held => TagAt(j)' = t
      /\ \A j \in 0 .. Held - 1 : TagAt(j)' = TagAt(j)
  BY <1>1, QueuePost
<1>3. Held \in Nat /\ Taken \in Nat /\ Taken < Held /\ \A j \in Int : TagAt(j) \in Tag
  BY BaseTypes DEF QueueInv
<1>4. OfferInv'
  <2>1. ASSUME NEW j \in Taken' .. Held' - 1
        PROVE  bufs'[TagAt(j)'].type = "EMPTY"
    <3>1. CASE j = Held
      BY <3>1, <1>2, <1>3
    <3>2. CASE j # Held
      <4>1. j \in 0 .. Held - 1 /\ j \in Taken .. Held - 1 /\ j \in Int
        BY <3>2, <1>1, <1>2, <1>3
      <4> QED BY <4>1, <1>2, <1>3 DEF OfferInv
    <3> QED BY <3>1, <3>2
  <2>2. xpc' \in {"first", "map"} => Len(xm'.shape) < Held'
    <3>1. xpc \in {"first", "map"} => Len(xm.shape) < Held /\ Len(xm.shape) \in Nat
      BY XmIs DEF OfferInv, AllTypes, TyXm
    <3> QED BY <3>1, <1>1, <1>2, <1>3
  <2>3. ASSUME NEW j \in 0 .. Held' - 1, j = Held' - 1
        PROVE  TagAt(j)' = nc'.tag
    <3>1. j = Held /\ j \in Int
      BY <2>3, <1>2, <1>3
    <3> QED BY <3>1, <1>2
  <2>4. ASSUME nmiss' = 0, NEW s \in Tag, bufs'[s].type = "EMPTY"
        PROVE  \E j \in 0 .. Held' - 1 : s = TagAt(j)'
    <3>1. CASE s = t
      <4>1. Held \in 0 .. Held' - 1
        BY <1>2, <1>3
      <4>2. PICK j \in 0 .. Held' - 1 : j = Held
        BY <4>1
      <4> QED BY <4>2, <3>1, <1>2
    <3>2. CASE s # t
      <4>1. PICK j \in 0 .. Held - 1 : s = TagAt(j)
        BY <3>2, <2>4, <1>1 DEF OfferInv
      <4>2. j \in 0 .. Held' - 1
        BY <1>2, <1>3
      <4> QED BY <4>1, <4>2, <1>2
    <3> QED BY <3>1, <3>2
  <2> QED BY <2>1, <2>2, <2>3, <2>4 DEF OfferInv
<1> QED BY <1>2, <1>4

(* The rest of a step that gives a tag back                                *)
LEMMA BuildPost ==
  ASSUME AllTypes, TagsInv, NEW t \in Tag, t \notin BuiltTags,
         xpc = "map" => t # xm.buf,
         UNCHANGED xmitVars,
         \A j \in 0 .. Held - 1 : TagAt(j)' = TagAt(j),
         \A s \in Tag : s # t => \/ bufs'[s] = bufs[s]
                                 \/ s \notin BuiltTags /\ (xpc = "map" => s # xm.buf)
  PROVE  BuildInv' /\ BuiltTags' = BuiltTags
<1> USE DEF TagsInv
<1>1. Held \in Nat /\ Taken \in Nat /\ Taken < Held /\ (\A j \in Int : TagAt(j) \in Tag)
        /\ xpc' = xpc /\ xm' = xm /\ Taken' = Taken
  BY BaseTypes DEF QueueInv, xmitVars, Taken
<1>2. BuiltTags' = BuiltTags
  <2>1. \A j \in 0 .. Taken - 1 : j \in 0 .. Held - 1
    BY <1>1
  <2> QED BY <2>1, <1>1 DEF BuiltTags
<1>3. BuildInv'
  <2> SUFFICES ASSUME xpc = "map" PROVE BuildInv'
    BY <1>1 DEF BuildInv
  <2>1. Taken = xm.k /\ xm.k \in Nat /\ xm.k >= 1 /\ xm.buf \in Tag /\ xm.first \in Tag
    BY XmIs DEF Taken, AllTypes, TyXm
  <2>2. \A j \in 0 .. xm.k - 1 : TagAt(j)' = TagAt(j) /\ TagAt(j) \in BuiltTags
    BY <2>1, <1>1 DEF BuiltTags
  <2>3. /\ xm.first = TagAt(0) /\ bufs[xm.buf].type = "EMPTY" /\ bufs[xm.first].skb = xm.pkt
        /\ \A j \in 0 .. xm.k - 1 : j = xm.k - 1 => xm.buf = TagAt(j)
        /\ \A j \in 0 .. xm.k - 2 : /\ bufs[TagAt(j)].type = "FRAG"
                                    /\ bufs[TagAt(j)].next = TagAt(j + 1)
    BY DEF BuildInv
  <2>4. 0 \in 0 .. xm.k - 1
    BY <2>1
  <2>5. xm.first \in BuiltTags
    BY <2>2, <2>3, <2>4
  <2>6. bufs'[xm.first] = bufs[xm.first] /\ bufs'[xm.buf] = bufs[xm.buf]
    BY <2>1, <2>5
  <2>7. \A j \in 0 .. xm.k - 2 : /\ j \in 0 .. xm.k - 1 /\ j + 1 \in 0 .. xm.k - 1 /\ j \in Int
    BY <2>1
  <2>8. \A j \in 0 .. xm.k - 2 : bufs'[TagAt(j)] = bufs[TagAt(j)]
    BY <2>2, <2>7, <1>1
  <2>9. TagAt(0)' = TagAt(0)
    BY <2>2, <2>4
  <2>10. \A j \in 0 .. xm.k - 1 : j = xm.k - 1 => xm.buf = TagAt(j)'
    BY <2>2, <2>3
  <2>11. \A j \in 0 .. xm.k - 2 : /\ bufs'[TagAt(j)'].type = "FRAG"
                                  /\ bufs'[TagAt(j)'].next = TagAt(j + 1)'
    BY <2>2, <2>3, <2>7, <2>8
  <2> QED BY <2>3, <2>6, <2>9, <2>10, <2>11, <1>1 DEF BuildInv
<1> QED BY <1>2, <1>3

(* The first tag of a packet that was sent is given back.                  *)
LEMMA TagsCleanBufs ==
  ASSUME AllTypes, TagsInv, NEW t \in Tag, CleanBufs(t), npc # "chain",
         bufs[t].type \notin {"EMPTY", "FRAG"},
         UNCHANGED <<xmitVars, rfVars, nmiss>>
  PROVE  TagsInv'
<1> USE DEF TagsInv
<1>1. /\ bufs' = [bufs EXCEPT ![t].type = "EMPTY"] /\ PostTag(t) /\ npc' = "chain"
      /\ nc'.tag = t
  BY NcIs DEF CleanBufs, AllTypes, TyNc, NcRec
<1>2. bufs'[t].type = "EMPTY" /\ bufs'[t].next = bufs[t].next
        /\ \A s \in Tag : s # t => bufs'[s] = bufs[s]
  <2>1. bufs \in [Tag -> BufRec] /\ bufs[t] \in BufRec
    BY DEF AllTypes, TyBufs
  <2> QED BY <2>1, <1>1 DEF BufRec
<1>3. \A j \in 0 .. Held - 1 : TagAt(j) # t
  BY HeldKinds
<1>4. QueueInv' /\ OfferInv' /\ (\A j \in 0 .. Held - 1 : TagAt(j)' = TagAt(j))
  BY <1>1, <1>2, <1>3, OfferPost
<1>5. t \notin BuiltTags /\ (xpc = "map" => t # xm.buf)
  <2>1. \A j \in 0 .. Taken - 1 : j \in 0 .. Held - 1
    BY BaseTypes DEF QueueInv
  <2>2. xpc = "map" => bufs[xm.buf].type = "EMPTY"
    BY DEF BuildInv
  <2> QED BY <2>1, <2>2, <1>3 DEF BuiltTags
<1>6. BuildInv' /\ BuiltTags' = BuiltTags
  BY <1>2, <1>4, <1>5, BuildPost
<1>7. ChainInv'
  <2>1. \A s \in Tag : Linked(s)' => Linked(s) /\ bufs'[s].next = bufs[s].next
    BY <1>1, <1>2, <1>6 DEF Linked
  <2>2. \A s \in Tag : Linked(s) => bufs[s].next \in Tag
    BY DEF Linked, AllTypes, TyBufs, BufRec
  <2>3. ASSUME NEW s \in Tag, Linked(s)'
        PROVE  bufs'[bufs'[s].next].type = "FRAG" /\ bufs'[s].next \notin BuiltTags'
    <3>1. /\ bufs[bufs[s].next].type = "FRAG" /\ bufs[s].next \in Tag
          /\ bufs[s].next \notin BuiltTags
      BY <2>1, <2>2, <2>3 DEF ChainInv
    <3>2. bufs[s].next # t
      BY <3>1
    <3> QED BY <3>1, <3>2, <2>1, <2>3, <1>2, <1>6
  <2>4. ASSUME NEW s \in Tag, NEW u \in Tag, Linked(s)', Linked(u)', bufs'[s].next = bufs'[u].next
        PROVE  s = u
    BY <2>1, <2>4 DEF ChainInv
  <2> QED BY <2>3, <2>4 DEF ChainInv
<1> QED BY <1>4, <1>6, <1>7

(* A further tag is given back.                                            *)
LEMMA TagsNapiChain ==
  ASSUME AllTypes, TagsInv, NapiChain
  PROVE  TagsInv' /\ Waiting' = Waiting
<1> USE DEF TagsInv
<1> DEFINE t == nc.tag
           nx == bufs[t].next
           left == IF bufs[t].type = "EMPTY" THEN [bufs EXCEPT ![t] = EmptyBuf] ELSE bufs
<1>1. npc = "chain" /\ nc \in NcRec /\ t \in Tag
  BY NcIs DEF NapiChain, AllTypes, TyNc
<1>2. UNCHANGED xmitVars /\ UNCHANGED rfVars /\ nmiss' = nmiss
  BY DEF NapiChain, histVars
<1>3. Held \in Nat /\ Taken \in Nat /\ Taken < Held /\ (\A j \in Int : TagAt(j) \in Tag)
  BY BaseTypes DEF QueueInv
<1>4. Held - 1 \in Taken .. Held - 1 /\ Held - 1 \in 0 .. Held - 1 /\ TagAt(Held - 1) = t
        /\ bufs[t].type = "EMPTY"
  <2>1. Held - 1 \in Taken .. Held - 1 /\ Held - 1 \in 0 .. Held - 1
    BY <1>3
  <2>2. TagAt(Held - 1) = t
    BY <2>1, <1>1 DEF OfferInv
  <2> QED BY <2>1, <2>2 DEF OfferInv
<1>5. t \notin BuiltTags /\ (xpc = "map" => t # xm.buf)
  <2>1. ASSUME NEW j \in 0 .. Taken - 1
        PROVE  TagAt(j) # t
    <3>1. j \in 0 .. Held - 1 /\ j # Held - 1
      BY <1>3
    <3> QED BY <3>1, <1>4 DEF QueueInv
  <2>2. xpc = "map" => \E j \in 0 .. Taken - 1 : TagAt(j) = xm.buf
    <3> SUFFICES ASSUME xpc = "map" PROVE \E j \in 0 .. Taken - 1 : TagAt(j) = xm.buf
      OBVIOUS
    <3>1. xm.k - 1 \in 0 .. xm.k - 1 /\ Taken = xm.k
      BY XmIs DEF Taken, AllTypes, TyXm
    <3> QED BY <3>1 DEF BuildInv
  <2> QED BY <2>1, <2>2 DEF BuiltTags
<1>6. /\ left[t] = EmptyBuf /\ \A s \in Tag : s # t => left[s] = bufs[s]
      /\ left \in [Tag -> BufRec]
  <2>1. EmptyBuf \in BufRec
    BY Sizes DEF EmptyBuf, BufRec, BufType
  <2>2. left = [bufs EXCEPT ![t] = EmptyBuf] /\ bufs \in [Tag -> BufRec]
    BY <1>4 DEF AllTypes, TyBufs
  <2> HIDE DEF left
  <2> QED BY <2>1, <2>2, <1>1
<1>e. EmptyBuf.type = "EMPTY" /\ EmptyBuf.next = Null
  BY DEF EmptyBuf
<1>7. Linked(t) <=> nx # Null
  BY <1>1, <1>5 DEF Linked
<1>8. \A s \in Tag : Linked(s) => bufs[s].next \in Tag
  BY DEF Linked, AllTypes, TyBufs, BufRec
<1>9. CASE nx = Null
  <2>1. bufs' = left /\ npc' = "loop" /\ rring' = rring /\ rntu' = rntu /\ rgen' = rgen
    <3>1. \/ /\ nx = Null
             /\ bufs' = left
             /\ npc' = "loop"
             /\ UNCHANGED <<rring, rntu, rgen>>
          \/ nx # Null
      BY DEF NapiChain
    <3> QED BY <3>1, <1>9
  <2> HIDE DEF left
  <2>2. SameQueue /\ Taken' = Taken /\ rntc' = rntc /\ rflgen' = rflgen /\ xpc' = xpc /\ xm' = xm
    BY <2>1, <1>2 DEF SameQueue, TagBase, TagGen, Taken, xmitVars, rfVars
  <2>3. Retyped
    <3>1. \A s \in Tag : bufs'[s].next = bufs[s].next /\ bufs'[s].type = bufs[s].type
      BY <2>1, <1>4, <1>6, <1>9, <1>e
    <3> QED BY <3>1, <2>1, <1>5, <1>6 DEF Retyped
  <2>4. xpc' = "first" => Len(xm'.shape) < Held
    BY <2>2 DEF OfferInv
  <2>5. TagsInv'
    BY <2>1, <2>2, <2>3, <2>4, <1>2, TagsRetyped
  <2> QED BY <2>5, <2>1, <1>4, <1>6, <1>e DEF Waiting
<1>10. CASE nx # Null
  <2>1. /\ bufs' = [left EXCEPT ![nx].type = "EMPTY"] /\ PostTag(nx)
        /\ nc' = [nc EXCEPT !.tag = nx] /\ npc' = npc
    <3>1. \/ nx = Null
          \/ /\ nx # Null
             /\ bufs' = [left EXCEPT ![nx].type = "EMPTY"]
             /\ PostTag(nx)
             /\ nc' = [nc EXCEPT !.tag = nx]
             /\ UNCHANGED <<compls, npc>>
      BY DEF NapiChain
    <3> QED BY <3>1, <1>10
  <2> HIDE DEF left, nx
  <2>2. nc'.tag = nx
    BY <2>1, <1>1 DEF NcRec
  <2>3. Linked(t) /\ bufs[t].next = nx
    BY <1>7, <1>10 DEF nx
  <2>4. nx \in Tag /\ bufs[nx].type = "FRAG" /\ nx \notin BuiltTags /\ nx # t
    BY <2>3, <1>1, <1>4, <1>8 DEF ChainInv
  <2>5. /\ bufs'[nx].type = "EMPTY" /\ bufs'[nx].next = bufs[nx].next
        /\ bufs'[t] = EmptyBuf
        /\ \A s \in Tag : s # nx /\ s # t => bufs'[s] = bufs[s]
    <3>1. left[nx] = bufs[nx] /\ left[nx] \in BufRec
      BY <2>4, <1>6
    <3> QED BY <3>1, <2>1, <2>4, <1>6, <1>1 DEF BufRec
  <2>6. \A j \in 0 .. Held - 1 : TagAt(j) # nx
    BY <2>4, HeldKinds
  <2>7. \A s \in Tag : s # nx => bufs'[s].type = bufs[s].type
    BY <2>5, <1>4, <1>e
  <2>8. QueueInv' /\ OfferInv' /\ (\A j \in 0 .. Held - 1 : TagAt(j)' = TagAt(j))
    BY <2>1, <2>2, <2>4, <2>5, <2>6, <2>7, <1>1, <1>2, OfferPost
  <2>9. BuildInv' /\ BuiltTags' = BuiltTags
    <3>1. xpc = "map" => nx # xm.buf
      BY <2>4 DEF BuildInv
    <3> QED BY <3>1, <2>4, <2>5, <2>8, <1>2, <1>5, BuildPost
  <2>10. ChainInv'
    <3>1. ASSUME NEW s \in Tag, Linked(s)'
          PROVE  Linked(s) /\ bufs'[s].next = bufs[s].next /\ s # t
      <4>1. s # t
        BY <3>1, <2>5, <1>e DEF Linked
      <4>2. CASE s = nx
        BY <4>1, <4>2, <3>1, <2>4, <2>5, <2>9 DEF Linked
      <4>3. CASE s # nx
        BY <4>1, <4>3, <3>1, <2>2, <2>5, <2>9 DEF Linked
      <4> QED BY <4>1, <4>2, <4>3
    <3>2. ASSUME NEW s \in Tag, Linked(s)'
          PROVE  bufs'[bufs'[s].next].type = "FRAG" /\ bufs'[s].next \notin BuiltTags'
      <4>1. /\ bufs[bufs[s].next].type = "FRAG" /\ bufs[s].next \in Tag
            /\ bufs[s].next \notin BuiltTags /\ Linked(s) /\ s # t /\ bufs'[s].next = bufs[s].next
        BY <3>1, <3>2, <1>8 DEF ChainInv
      <4>2. bufs[s].next # nx
        BY <4>1, <2>3, <1>1 DEF ChainInv
      <4>3. bufs[s].next # t
        BY <4>1, <1>4
      <4> QED BY <4>1, <4>2, <4>3, <2>5, <2>9
    <3>3. ASSUME NEW s \in Tag, NEW u \in Tag, Linked(s)', Linked(u)', bufs'[s].next = bufs'[u].next
          PROVE  s = u
      BY <3>1, <3>3 DEF ChainInv
    <3> QED BY <3>2, <3>3 DEF ChainInv
  <2>11. Waiting' = Waiting
    <3>1. bufs[nx].type \notin {"SKB", "SKB_TSTAMP", "REINJECT"}
      BY <2>4
    <3> QED BY <3>1, <2>5, <2>7 DEF Waiting
  <2> QED BY <2>8, <2>9, <2>10, <2>11
<1> QED BY <1>9, <1>10

(* A completion is read.                                                   *)
LEMMA WaitRead ==
  ASSUME AllTypes, WaitInv, complq # <<>>, complq' = Tail(complq),
         UNCHANGED <<unfetched, inflight, exc, nmiss>>,
         \A t \in Waiting : t \in Waiting' \/ (Final(Head(complq)) /\ t = Head(complq).tag)
  PROVE  WaitInv'
<1> DEFINE c == Head(complq)
<1>1. complq \in Seq(ComplRec)
  BY DEF AllTypes, TyCompl
<1>2. /\ DoneTags' = DoneTags \ (IF Final(c) THEN {c.tag} ELSE {})
      /\ Final(c) => c.tag \in DoneTags
      /\ FinalOnce(complq)'
  <2>1. FinalOnce(complq)
    BY DEF WaitInv
  <2>2. DoneTags' = FinalTags(Tail(complq)) /\ (FinalOnce(complq)' <=> FinalOnce(Tail(complq)))
    BY DEF DoneTags, FinalTags, FinalOnce
  <2> QED BY <2>1, <2>2, <1>1, FinalTail DEF DoneTags
<1>3. \A k \in DOMAIN complq' : \E j \in DOMAIN complq : complq'[k] = complq[j]
  <2>1. \A k \in DOMAIN Tail(complq) : k + 1 \in DOMAIN complq /\ Tail(complq)[k] = complq[k + 1]
    BY <1>1, TailIs
  <2> QED BY <2>1
<1> HIDE DEF c
<1>4. RingTags' = RingTags /\ WireTags' = WireTags /\ MissTags' = MissTags
  BY DEF RingTags, WireTags, MissTags
<1>5. \A t \in Waiting : t \in Waiting' \/ (Final(c) /\ t = c.tag)
  BY DEF c
<1>6. RingTags' \cup WireTags' \cup DoneTags' \cup MissTags' \subseteq Waiting'
  BY <1>2, <1>4, <1>5 DEF WaitInv
<1>7. nmiss' = 0 => exc' = {} /\ \A k \in DOMAIN complq' : complq'[k].type \in {"RE", "RS"}
  BY <1>3 DEF WaitInv
<1>8. OnceIn(unfetched)'
  BY DEF WaitInv, OnceIn
<1> QED BY <1>2, <1>4, <1>6, <1>7, <1>8 DEF WaitInv

(* Whatever completion is read, tags are kept apart.                       *)
LEMMA TagsNapiCompl ==
  ASSUME AllTypes, TagsInv, WaitInv, NapiCompl
  PROVE  TagsInv' /\ WaitInv'
<1> DEFINE c == Head(complq)
           t == c.tag
<1>1. /\ complq # <<>> /\ complq' = Tail(complq) /\ npc \in {"idle", "loop"}
      /\ NapiRe(c) \/ NapiRs(c) \/ NapiMiss(c) \/ NapiReinject(c)
      /\ UNCHANGED <<rfVars, xmitVars, unfetched, inflight, exc, nmiss>>
  BY DEF NapiCompl, devVars
<1>2. c \in ComplRec /\ t \in Tag
  BY <1>1, HeadIs, ComplIs DEF AllTypes
<1>3. Final(c) => t \in Waiting
  <2>1. Final(c) => t \in DoneTags
    <3>1. complq \in Seq(ComplRec) /\ FinalOnce(complq)
      BY DEF AllTypes, TyCompl, WaitInv
    <3> QED BY <3>1, <1>1, FinalTail DEF DoneTags
  <2> QED BY <2>1 DEF WaitInv
<1>4. nmiss = 0 => c.type \in {"RE", "RS"}
  <2>1. c = complq[1] /\ 1 \in DOMAIN complq
    BY <1>1, TailIs DEF AllTypes, TyCompl
  <2> QED BY <2>1 DEF WaitInv
<1> HIDE DEF c
<1>q. ASSUME NextCompl, Retyped
      PROVE  TagsInv'
  <2>1. npc' = "loop" /\ rring' = rring /\ rntu' = rntu /\ rgen' = rgen
    BY <1>q DEF NextCompl
  <2>2. SameQueue /\ Taken' = Taken /\ rntc' = rntc /\ rflgen' = rflgen /\ xpc' = xpc /\ xm' = xm
    BY <2>1, <1>1 DEF SameQueue, TagBase, TagGen, Taken, xmitVars, rfVars
  <2>3. xpc' = "first" => Len(xm'.shape) < Held
    BY <2>2 DEF TagsInv, OfferInv
  <2> QED BY <2>1, <2>2, <2>3, <1>1, <1>q, TagsRetyped
<1>c. ASSUME CleanBufs(t), Final(c)
      PROVE  TagsInv' /\ WaitInv'
  <2>1. bufs[t].type \notin {"EMPTY", "FRAG"}
    BY <1>3, <1>c DEF Waiting
  <2>2. TagsInv'
    BY <2>1, <1>c, <1>1, <1>2, TagsCleanBufs
  <2>3. \A s \in Waiting : s \in Waiting' \/ s = t
    <3>1. bufs' = [bufs EXCEPT ![t].type = "EMPTY"]
      BY <1>c DEF CleanBufs
    <3>2. \A s \in Tag : s # t => bufs'[s] = bufs[s]
      BY <3>1 DEF AllTypes, TyBufs
    <3> QED BY <3>2 DEF Waiting
  <2> QED BY <2>2, <2>3, <1>1, <1>c, WaitRead DEF c
<1>s. ASSUME NextCompl, bufs' = bufs
      PROVE  TagsInv' /\ WaitInv'
  <2>1. Waiting' = Waiting
    BY <1>s DEF Waiting
  <2> QED BY <2>1, <1>q, <1>s, <1>1, RetypedSame, WaitRead
<1>r. ASSUME NextCompl, NEW ty, bufs' = [bufs EXCEPT ![t].type = ty],
             bufs[t].type \notin {"EMPTY", "FRAG"}, ty # "FRAG", ty = "EMPTY" => nmiss' # 0,
             Final(c) \/ bufs[t].type = "MISS" \/ ty = "REINJECT"
      PROVE  TagsInv' /\ WaitInv'
  <2>1. Retyped /\ bufs'[t].type = ty /\ \A s \in Tag : s # t => bufs'[s] = bufs[s]
    BY <1>r, <1>2, RetypedOne
  <2>2. TagsInv'
    BY <2>1, <1>q, <1>r
  <2>3. \A s \in Waiting : s \in Waiting' \/ (Final(c) /\ s = t)
    BY <2>1, <1>r DEF Waiting
  <2> QED BY <2>2, <2>3, <1>1, WaitRead DEF c
<1>5. CASE NapiRe(c)
  BY <1>5, <1>s DEF NapiRe
<1>6. CASE NapiRs(c)
  <2>1. Final(c)
    BY <1>6 DEF NapiRs, Final
  <2> QED BY <2>1, <1>6, <1>s, <1>c DEF NapiRs
<1>7. CASE NapiMiss(c)
  <2>1. Final(c)
    BY <1>7 DEF NapiMiss, Final
  <2>2. bufs[t].type \notin {"EMPTY", "FRAG"}
    BY <2>1, <1>3 DEF Waiting
  <2>3. CleanBufs(t) \/ (NextCompl /\ bufs' = [bufs EXCEPT ![t].type = "MISS"])
    BY <1>7 DEF NapiMiss
  <2>4. CASE NextCompl /\ bufs' = [bufs EXCEPT ![t].type = "MISS"]
    <3> DEFINE ty == "MISS"
    <3>1. bufs' = [bufs EXCEPT ![t].type = ty] /\ ty # "FRAG" /\ ty # "EMPTY"
      BY <2>4
    <3> HIDE DEF ty
    <3> QED BY <3>1, <2>1, <2>2, <2>4, <1>r
  <2> QED BY <2>1, <2>3, <2>4, <1>c
<1>8. CASE NapiReinject(c)
  <2>1. NextCompl /\ nmiss # 0
    BY <1>4, <1>8 DEF NapiReinject
  <2>2. CASE bufs[t].type = "MISS"
    <3> DEFINE ty == IF timers[t] = "none" THEN bufs[t].type ELSE "EMPTY"
    <3>1. bufs' = [bufs EXCEPT ![t].type = ty]
      BY <1>8, <2>2, <1>2 DEF NapiReinject, AllTypes, TyBufs, BufRec
    <3>2. ty # "FRAG"
      BY <2>2
    <3>3. nmiss' # 0
      BY <2>1, <1>1
    <3> HIDE DEF ty
    <3> QED BY <3>1, <3>2, <3>3, <2>1, <2>2, <1>r
  <2>3. CASE bufs[t].type = "SKB"
    <3> DEFINE ty == "REINJECT"
    <3>1. /\ bufs' = [bufs EXCEPT ![t].type = ty]
          /\ ty = "REINJECT" /\ ty # "FRAG" /\ ty # "EMPTY"
      BY <1>8, <2>3 DEF NapiReinject
    <3> HIDE DEF ty
    <3> QED BY <3>1, <2>1, <2>3, <1>r
  <2>4. CASE bufs[t].type \notin {"MISS", "SKB"}
    <3>1. bufs' = bufs
      BY <1>8, <2>4 DEF NapiReinject
    <3> QED BY <3>1, <2>1, <1>s
  <2> QED BY <2>2, <2>3, <2>4
<1> QED BY <1>1, <1>5, <1>6, <1>7, <1>8

(* The packets of the ring go to the device, one after the other.          *)
LEMMA DriverTags ==
  ASSUME AllTypes, TagsInv, UNCHANGED driverVars, nmiss' = 0 => nmiss = 0
  PROVE  TagsInv' /\ Waiting' = Waiting
<1>1. bufs' = bufs /\ UNCHANGED <<rring, rntu, rgen, rfVars>> /\ UNCHANGED xmitVars
        /\ npc' = npc /\ nc' = nc
  BY DEF driverVars, napiVars
<1>2. TagsInv'
  BY <1>1, TagsQuiet
<1> QED BY <1>1, <1>2 DEF Waiting

(* The tag of a packet goes from the ring to the wire.                     *)
LEMMA TagsHwFetch ==
  ASSUME AllTypes, PathInv, TagsInv, WaitInv, HwFetch
  PROVE  TagsInv' /\ WaitInv'
<1> DEFINE p == unfetched[1]
           q == [pkt |-> p.pkt, tag |-> p.tag]
           c == [type |-> "RE", tag |-> p.tag, head |-> p.end]
<1>0. unfetched # <<>> /\ unfetched \in Seq(UnfRec) /\ Head(unfetched) = p /\ p \in UnfRec
        /\ 1 \in DOMAIN unfetched
  BY SomeUnfetched, TailIs DEF HwFetch, AllTypes, TyUnf
<1>1. /\ unfetched' = Tail(unfetched) /\ inflight' = inflight \cup {q}
      /\ complq' \in {complq, Append(complq, c)}
      /\ exc' = exc /\ nmiss' = nmiss /\ UNCHANGED driverVars
  BY <1>0 DEF HwFetch
<1>2. TagsInv' /\ Waiting' = Waiting
  BY <1>1, DriverTags
<1>3. q.tag = p.tag /\ c.type = "RE"
  OBVIOUS
<1> HIDE DEF p, q, c
<1>4. OnceIn(unfetched)' /\ RingTags' = RingTags \ {p.tag} /\ p.tag \in RingTags
  <2>1. OnceIn(unfetched)
    BY DEF WaitInv
  <2>2. /\ OnceIn(Tail(unfetched))
        /\ {Tail(unfetched)[k].tag : k \in DOMAIN Tail(unfetched)} = RingTags \ {unfetched[1].tag}
    BY <2>1, <1>0, RingTail DEF RingTags
  <2>3. p.tag \in RingTags
    BY <1>0 DEF RingTags, p
  <2> QED BY SMTT(30), <2>2, <2>3, <1>1 DEF RingTags, OnceIn, p
<1>5. WireTags' = WireTags \cup {p.tag}
  BY <1>1, <1>3 DEF WireTags
<1>6. FinalOnce(complq)' /\ DoneTags' = DoneTags
        /\ (nmiss = 0 => \A k \in DOMAIN complq' : complq'[k].type \in {"RE", "RS"})
  <2>1. complq \in Seq(ComplRec) /\ FinalOnce(complq)
    BY DEF AllTypes, TyCompl, WaitInv
  <2>2. ~ Final(c)
    BY <1>3 DEF Final
  <2>3. FinalTags(Append(complq, c)) = FinalTags(complq) \cup {} /\ FinalOnce(Append(complq, c))
    BY <2>1, <2>2, FinalAppend
  <2>4. ASSUME nmiss = 0, NEW k \in DOMAIN Append(complq, c)
        PROVE  Append(complq, c)[k].type \in {"RE", "RS"}
    BY <2>1, <2>4, <1>3, AppendIs DEF WaitInv
  <2>5. nmiss = 0 => \A k \in DOMAIN complq : complq[k].type \in {"RE", "RS"}
    BY DEF WaitInv
  <2> QED BY ZenonT(30), <2>1, <2>3, <2>4, <2>5, <1>1 DEF DoneTags, FinalTags, FinalOnce
<1>7. MissTags' = MissTags
  BY <1>1 DEF MissTags
<1>8. \A x, y \in inflight' : x.tag = y.tag => x = y
  BY <1>1, <1>3, <1>4 DEF WaitInv, WireTags
<1> QED BY <1>1, <1>2, <1>4, <1>5, <1>6, <1>7, <1>8 DEF WaitInv

(* A packet leaves the wire: it is reported, or it goes down the exception *)
(* path.                                                                   *)
LEMMA WaitReport ==
  ASSUME AllTypes, WaitInv, Waiting' = Waiting, NEW c \in ComplRec,
         WireTags' \cup MissTags' \subseteq (WireTags \cup MissTags) \ (IF Final(c) THEN {c.tag} ELSE {}),
         WireTags' \cap MissTags' = {},
         Final(c) => c.tag \in WireTags \cup MissTags,
         inflight' \subseteq inflight,
         complq' = Append(complq, c), unfetched' = unfetched,
         nmiss' = 0 => nmiss = 0 /\ exc' = {} /\ c.type = "RS"
  PROVE  WaitInv'
<1>1. complq \in Seq(ComplRec) /\ FinalOnce(complq)
  BY DEF AllTypes, TyCompl, WaitInv
<1>2. Final(c) => c.tag \notin DoneTags
  BY DEF WaitInv
<1>3. FinalTags(Append(complq, c)) = DoneTags \cup (IF Final(c) THEN {c.tag} ELSE {})
        /\ FinalOnce(Append(complq, c))
  BY <1>1, <1>2, FinalAppend DEF DoneTags
<1>4. DoneTags' = DoneTags \cup (IF Final(c) THEN {c.tag} ELSE {}) /\ FinalOnce(complq)'
  BY <1>3 DEF DoneTags, FinalTags, FinalOnce
<1>5. RingTags' = RingTags /\ OnceIn(unfetched)'
  BY DEF RingTags, OnceIn, WaitInv
<1>6. nmiss' = 0 => \A k \in DOMAIN complq' : complq'[k].type \in {"RE", "RS"}
  BY <1>1, AppendIs DEF WaitInv
<1>7. \A p, q \in inflight' : p.tag = q.tag => p = q
  BY DEF WaitInv
<1> QED BY <1>4, <1>5, <1>6, <1>7 DEF WaitInv

(* A packet less on the wire                                               *)
LEMMA WireLess ==
  ASSUME WaitInv, NEW p \in inflight, inflight' = inflight \ {p}
  PROVE  WireTags' = WireTags \ {p.tag} /\ p.tag \in WireTags
BY DEF WaitInv, WireTags

(* The completions that are not RE                                         *)
LEMMA ComplTypes ==
  ASSUME NEW ty \in ComplType, NEW t \in Tag
  PROVE  /\ Compl(ty, t) \in ComplRec /\ Compl(ty, t).type = ty /\ Compl(ty, t).tag = t
         /\ \A y, u : Compl(y, u) = Compl(ty, t) => y = ty /\ u = t
BY Sizes DEF Compl, ComplRec

(* ... from the wire to the completion queue                               *)
LEMMA TagsHwDone ==
  ASSUME AllTypes, TagsInv, WaitInv, NEW p \in inflight, HwDone(p)
  PROVE  TagsInv' /\ WaitInv'
<1>1. /\ inflight' = inflight \ {p} /\ complq' = Append(complq, Compl("RS", p.tag))
      /\ UNCHANGED driverVars /\ unfetched' = unfetched /\ exc' = exc /\ nmiss' = nmiss
  BY DEF HwDone
<1>2. TagsInv' /\ Waiting' = Waiting
  BY <1>1, DriverTags
<1>3. p.tag \in Tag /\ "RS" \in ComplType
  BY DEF AllTypes, TyDev, ComplType
<1> DEFINE c == Compl("RS", p.tag)
<1>4. c \in ComplRec /\ c.type = "RS" /\ c.tag = p.tag
  BY <1>3, ComplTypes
<1>5. complq' = Append(complq, c)
  BY <1>1
<1> HIDE DEF c
<1>6. WireTags' = WireTags \ {p.tag} /\ p.tag \in WireTags /\ MissTags' = MissTags
  BY <1>1, WireLess DEF MissTags
<1>7. /\ WireTags' \cup MissTags' \subseteq (WireTags \cup MissTags) \ {c.tag}
      /\ WireTags' \cap MissTags' = {}
  BY <1>4, <1>6 DEF WaitInv
<1>8. nmiss' = 0 => exc' = {}
  BY <1>1 DEF WaitInv
<1>9. Final(c)
  BY <1>4 DEF Final
<1>10. WaitInv'
  BY <1>1, <1>2, <1>4, <1>5, <1>6, <1>7, <1>8, <1>9, WaitReport
<1> QED BY <1>2, <1>10

(* ... from the wire to the exception path                                 *)
LEMMA TagsHwMiss ==
  ASSUME AllTypes, TagsInv, WaitInv, NEW p \in inflight, NEW ty \in {"MISS", "REINJECT"},
         HwMiss(p, ty)
  PROVE  TagsInv' /\ WaitInv'
<1> DEFINE o == IF ty = "MISS" THEN "REINJECT" ELSE "MISS"
           c == Compl(ty, p.tag)
<1>1. /\ inflight' = inflight \ {p} /\ complq' = Append(complq, c)
      /\ UNCHANGED driverVars /\ unfetched' = unfetched
      /\ exc' = exc \cup {Compl(o, p.tag)} /\ nmiss' = nmiss + 1 /\ nmiss' # 0
  BY DEF HwMiss, AllTypes, TyPkt
<1>2. TagsInv' /\ Waiting' = Waiting
  BY <1>1, DriverTags
<1>3. p.tag \in Tag /\ ty \in ComplType /\ o \in ComplType
  BY DEF AllTypes, TyDev, ComplType
<1>4. c \in ComplRec /\ c.type = ty /\ c.tag = p.tag
  BY <1>3, ComplTypes
<1>5. MissTags' = MissTags \cup (IF o = "MISS" THEN {p.tag} ELSE {})
  <2>1. ASSUME NEW t \in Tag
        PROVE  Compl("MISS", t) = Compl(o, p.tag) <=> o = "MISS" /\ t = p.tag
    BY DEF Compl
  <2> QED BY <2>1, <1>1, <1>3 DEF MissTags
<1>6. o = "MISS" <=> ty # "MISS"
  OBVIOUS
<1> HIDE DEF c, o
<1>7. WireTags' = WireTags \ {p.tag} /\ p.tag \in WireTags /\ p.tag \notin MissTags
  BY <1>1, WireLess DEF WaitInv
<1>8. Final(c) <=> ty = "MISS"
  BY <1>4 DEF Final
<1>9. /\ WireTags' \cup MissTags' \subseteq (WireTags \cup MissTags) \ (IF Final(c) THEN {c.tag} ELSE {})
      /\ WireTags' \cap MissTags' = {}
  BY <1>4, <1>5, <1>6, <1>7, <1>8 DEF WaitInv
<1>10. WaitInv'
  BY <1>1, <1>2, <1>4, <1>7, <1>9, WaitReport
<1> QED BY <1>2, <1>10

(* ... from the exception path to the completion queue                     *)
LEMMA TagsHwExc ==
  ASSUME AllTypes, TagsInv, WaitInv, NEW c \in exc, HwExc(c)
  PROVE  TagsInv' /\ WaitInv'
<1>1. /\ exc' = exc \ {c} /\ complq' = Append(complq, c)
      /\ UNCHANGED driverVars /\ unfetched' = unfetched /\ inflight' = inflight /\ nmiss' = nmiss
  BY DEF HwExc
<1>2. TagsInv' /\ Waiting' = Waiting
  BY <1>1, DriverTags
<1>3. PICK ty \in {"MISS", "REINJECT"}, t \in Tag : c = Compl(ty, t)
  BY DEF AllTypes, TyDev
<1>4. c \in ComplRec /\ c.type = ty /\ c.tag = t
  BY <1>3, ComplTypes DEF ComplType
<1>5. MissTags' = MissTags \ (IF ty = "MISS" THEN {t} ELSE {}) /\ (ty = "MISS" => t \in MissTags)
  <2>1. ASSUME NEW s \in Tag
        PROVE  Compl("MISS", s) = c <=> ty = "MISS" /\ s = t
    BY <1>3 DEF Compl
  <2> QED BY <2>1, <1>1, <1>3 DEF MissTags
<1>6. WireTags' = WireTags
  BY <1>1 DEF WireTags
<1>7. Final(c) <=> ty = "MISS"
  BY <1>4 DEF Final
<1>8. /\ WireTags' \cup MissTags' \subseteq (WireTags \cup MissTags) \ (IF Final(c) THEN {c.tag} ELSE {})
      /\ WireTags' \cap MissTags' = {} /\ (Final(c) => c.tag \in WireTags \cup MissTags)
  BY <1>4, <1>5, <1>6, <1>7 DEF WaitInv
<1>9. nmiss # 0
  BY DEF WaitInv
<1>10. WaitInv'
  BY <1>1, <1>2, <1>4, <1>8, <1>9, WaitReport
<1> QED BY <1>2, <1>10

(* Where the buffers of the packet under construction are                  *)
LEMMA BuildKinds ==
  ASSUME AllTypes, TagsInv, xpc = "map"
  PROVE  /\ xm.first \in BuiltTags /\ xm.buf \in BuiltTags
         /\ \A t \in BuiltTags : t \in Tag /\ bufs[t].type \in {"EMPTY", "FRAG"}
         /\ bufs[xm.buf].type = "EMPTY" /\ bufs[xm.first].skb = xm.pkt
<1> USE DEF TagsInv
<1>1. xm.k \in Nat /\ xm.k >= 1 /\ Taken = xm.k
  BY XmIs DEF AllTypes, TyXm, Taken
<1>2. 0 \in 0 .. xm.k - 1 /\ xm.k - 1 \in 0 .. xm.k - 1
  BY <1>1
<1>3. xm.first \in BuiltTags /\ xm.buf \in BuiltTags
  BY <1>1, <1>2 DEF BuildInv, BuiltTags
<1>4. \A j \in 0 .. Taken - 1 : j \in 0 .. Held - 1
  BY BaseTypes DEF QueueInv
<1>5. \A t \in BuiltTags : t \in Tag /\ bufs[t].type \in {"EMPTY", "FRAG"}
  BY <1>4, HeldKinds DEF BuiltTags
<1> QED BY <1>3, <1>5 DEF BuildInv

(* The tag of a new packet is not yet at the device.                       *)
LEMMA WaitXmitLast ==
  ASSUME AllTypes, TagsInv, WaitInv, XmitLast
  PROVE  WaitInv'
<1> DEFINE p == [pkt |-> xm.pkt, tag |-> xm.first, end |-> Bump(Bump(xm.i, xm.shape[xm.k] - 1), 1),
                 n |-> xm.ctx + xm.st + Sum(xm.shape), re |-> xm.re]
           i == Bump(xm.i, xm.shape[xm.k] - 1)
           ty == IF xm.st = 1 THEN "SKB_TSTAMP" ELSE "SKB"
           b == [bufs EXCEPT ![xm.buf] = [bufs[xm.buf] EXCEPT !.type = "FRAG", !.next = Null]]
<1>1. /\ xpc = "map" /\ unfetched' = Append(unfetched, p)
      /\ bufs' = [b EXCEPT ![xm.first] = [b[xm.first] EXCEPT !.rs = i, !.type = ty]]
      /\ UNCHANGED <<inflight, complq, exc, nmiss>>
  BY DEF XmitLast, histVars
<1>2. p.tag = xm.first
  OBVIOUS
<1>3. xm.first \in Tag /\ xm.buf \in Tag
  BY <1>1, XmIs DEF AllTypes, TyXm
<1>4. ty \in {"SKB", "SKB_TSTAMP"}
  OBVIOUS
<1>5. unfetched \in Seq(UnfRec)
  BY DEF AllTypes, TyUnf
<1> HIDE DEF p, i, ty
<1>6. /\ bufs'[xm.first].type = ty
      /\ \A s \in Tag : s # xm.buf /\ s # xm.first => bufs'[s] = bufs[s]
  <2>1. bufs \in [Tag -> BufRec] /\ bufs[xm.buf] \in BufRec
    BY <1>3 DEF AllTypes, TyBufs
  <2> DEFINE r == [bufs[xm.buf] EXCEPT !.type = "FRAG", !.next = Null]
  <2>2. r \in BufRec
    BY <2>1 DEF BufRec, BufType
  <2> HIDE DEF r
  <2>3. b = [bufs EXCEPT ![xm.buf] = r] /\ b \in [Tag -> BufRec]
    BY <2>1, <2>2, <1>3 DEF r
  <2>4. \A s \in Tag : s # xm.buf => b[s] = bufs[s]
    BY <2>1, <2>3, <1>3
  <2> HIDE DEF b
  <2> DEFINE q == [b[xm.first] EXCEPT !.rs = i, !.type = ty]
  <2>5. q.type = ty
    <3>1. b[xm.first] \in BufRec
      BY <2>3, <1>3
    <3> QED BY <3>1 DEF BufRec
  <2>6. bufs' = [b EXCEPT ![xm.first] = q]
    BY <1>1
  <2> HIDE DEF q
  <2>7. bufs'[xm.first] = q /\ \A s \in Tag : s # xm.first => bufs'[s] = b[s]
    BY <2>3, <2>6, <1>3
  <2> QED BY <2>4, <2>5, <2>7
<1> HIDE DEF b
<1>7. xm.first \notin Waiting /\ xm.buf \notin Waiting
  BY <1>1, BuildKinds DEF Waiting
<1>8. Waiting' = Waiting \cup {xm.first} \/ Waiting' = Waiting \cup {xm.first, xm.buf}
  <2>1. \A s \in Tag : s # xm.buf /\ s # xm.first => (s \in Waiting' <=> s \in Waiting)
    BY <1>6 DEF Waiting
  <2>2. xm.first \in Waiting'
    BY <1>3, <1>4, <1>6 DEF Waiting
  <2>3. Waiting \subseteq Tag /\ Waiting' \subseteq Tag
    BY DEF Waiting
  <2> QED BY <2>1, <2>2, <2>3, <1>3, <1>7
<1>9. /\ DOMAIN unfetched' = DOMAIN unfetched \cup {Len(unfetched) + 1}
      /\ unfetched'[Len(unfetched) + 1] = p
      /\ \A k \in DOMAIN unfetched : unfetched'[k] = unfetched[k]
      /\ Len(unfetched) + 1 \notin DOMAIN unfetched
  BY <1>1, <1>5, AppendIs
<1>10. RingTags' = RingTags \cup {xm.first}
  BY <1>2, <1>9 DEF RingTags
<1>11. OnceIn(unfetched)'
  <2>1. \A k \in DOMAIN unfetched : unfetched[k].tag # xm.first
    BY <1>7 DEF WaitInv, RingTags
  <2> QED BY <2>1, <1>2, <1>9 DEF OnceIn, WaitInv
<1>12. WireTags' = WireTags /\ DoneTags' = DoneTags /\ MissTags' = MissTags
  BY <1>1 DEF WireTags, DoneTags, FinalTags, MissTags
<1>13. FinalOnce(complq)' /\ (\A x, y \in inflight' : x.tag = y.tag => x = y)
         /\ (nmiss' = 0 => exc' = {} /\ \A k \in DOMAIN complq' : complq'[k].type \in {"RE", "RS"})
  BY <1>1 DEF WaitInv, FinalOnce
<1> QED BY <1>7, <1>8, <1>10, <1>11, <1>12, <1>13 DEF WaitInv

(* What xmit does before that is not about tags at the device.             *)
LEMMA WaitXmit ==
  ASSUME AllTypes, TagsInv, WaitInv,
         \/ XmitFault \/ XmitFrag
         \/ \E st \in Stamps : XmitFirst(st)
         \/ bufs' = bufs /\ UNCHANGED devVars /\ UNCHANGED <<complq, nmiss>>
         \/ Waiting' = Waiting /\ UNCHANGED devVars /\ UNCHANGED <<complq, nmiss>>
  PROVE  WaitInv'
<1>1. UNCHANGED devVars /\ UNCHANGED <<complq, nmiss>>
  BY DEF XmitFault, XmitFrag, XmitFirst, histVars
<1>2. Waiting \subseteq Waiting'
  <2>1. CASE XmitFault
    <3>1. \A t \in BuiltTags : bufs[t].type \in {"EMPTY", "FRAG"}
      BY <2>1, BuildKinds DEF XmitFault
    <3>2. Built = BuiltTags
      BY <2>1, BuiltIs DEF XmitFault, BuiltTags, Taken, TagsInv
    <3>3. \A t \in Tag : t \notin BuiltTags => bufs'[t] = bufs[t]
      BY <2>1, <3>2 DEF XmitFault, Rollback
    <3> QED BY <3>1, <3>3 DEF Waiting
  <2>2. CASE XmitFrag
    <3>1. xpc = "map" /\ bufs[xm.buf].type = "EMPTY"
      BY <2>2, BuildKinds DEF XmitFrag
    <3>2. \A t \in Tag : t # xm.buf => bufs'[t] = bufs[t]
      BY <2>2 DEF XmitFrag, AllTypes, TyBufs
    <3> QED BY <3>1, <3>2 DEF Waiting
  <2>3. CASE \E st \in Stamps : XmitFirst(st)
    <3>1. bufs' = [bufs EXCEPT ![rring[rntc].id].skb = xm.pkt]
      BY <2>3 DEF XmitFirst
    <3>2. \A t \in Tag : bufs'[t].type = bufs[t].type
      BY <3>1 DEF AllTypes, TyBufs, BufRec
    <3> QED BY <3>2 DEF Waiting
  <2>4. CASE bufs' = bufs
    BY <2>4 DEF Waiting
  <2> QED BY <2>1, <2>2, <2>3, <2>4
<1> QED BY <1>1, <1>2, WaitSame DEF devVars

(* Every step keeps the account of the tags.                               *)
LEMMA TagsNext ==
  ASSUME AllTypes, PathInv, TagsInv, WaitInv, Next
  PROVE  TagsInv' /\ WaitInv'
<1>1. ASSUME NEW s \in Shapes, NEW c \in Ctx, NEW mr \in BOOLEAN, XmitStart(s, c, mr)
      PROVE  TagsInv' /\ WaitInv'
  <2>1. bufs' = bufs /\ UNCHANGED devVars /\ UNCHANGED <<complq, nmiss>>
    BY <1>1 DEF XmitStart, histVars
  <2> QED BY <1>1, <2>1, TagsXmitStart, WaitXmit
<1>2. ASSUME bufs' = bufs, UNCHANGED <<rring, rntu, rgen, rfVars>>,
             UNCHANGED xmitVars \/ XmitStop,
             npc' = "chain" => npc = "chain" /\ nc' = nc,
             UNCHANGED devVars, UNCHANGED <<complq, nmiss>>
      PROVE  TagsInv' /\ WaitInv'
  BY <1>2, TagsQuiet, WaitXmit
<1>3. ASSUME NEW mr \in BOOLEAN, XmitRefuse(mr)
      PROVE  TagsInv' /\ WaitInv'
  BY <1>2, <1>3 DEF XmitRefuse, napiVars, histVars
<1>4. ASSUME XmitStop
      PROVE  TagsInv' /\ WaitInv'
  <2>1. /\ bufs' = bufs /\ UNCHANGED <<rring, rntu, rgen, rfVars>> /\ npc' = npc /\ nc' = nc
        /\ UNCHANGED devVars /\ UNCHANGED <<complq, nmiss>>
    BY <1>4 DEF XmitStop, napiVars, histVars
  <2> QED BY <1>2, <1>4, <2>1
<1>5. ASSUME XmitRecheck
      PROVE  TagsInv' /\ WaitInv'
  <2>1. bufs' = bufs /\ UNCHANGED devVars /\ UNCHANGED <<complq, nmiss>>
    BY <1>5 DEF XmitRecheck, histVars
  <2> QED BY <1>5, <2>1, TagsXmitRecheck, WaitXmit
<1>6. ASSUME NEW st \in Stamps, XmitFirst(st)
      PROVE  TagsInv' /\ WaitInv'
  BY <1>6, TagsXmitFirst, WaitXmit
<1>7. ASSUME XmitFault \/ XmitFrag
      PROVE  TagsInv' /\ WaitInv'
  BY <1>7, TagsXmitFault, TagsXmitFrag, WaitXmit
<1>8. ASSUME XmitLast
      PROVE  TagsInv' /\ WaitInv'
  BY <1>8, TagsXmitLast, WaitXmitLast
<1>9. ASSUME NapiChain
      PROVE  TagsInv' /\ WaitInv'
  <2>1. UNCHANGED devVars /\ UNCHANGED <<complq, nmiss>>
    BY <1>9 DEF NapiChain, histVars
  <2> QED BY <1>9, <2>1, TagsNapiChain, WaitXmit
<1>10. ASSUME NapiOut \/ NapiWake
       PROVE  TagsInv' /\ WaitInv'
  <2>1. /\ bufs' = bufs /\ UNCHANGED <<rring, rntu, rgen, rfVars>> /\ npc' # "chain"
        /\ UNCHANGED xmitVars /\ UNCHANGED devVars /\ UNCHANGED <<complq, nmiss>>
    BY <1>10 DEF NapiOut, NapiWake, histVars
  <2> QED BY <1>2, <2>1
<1>11. ASSUME NEW t \in Tag, TimerExpire(t)
       PROVE  TagsInv' /\ WaitInv'
  <2>1. /\ bufs' = bufs /\ UNCHANGED <<rring, rntu, rgen, rfVars>> /\ npc' = npc /\ nc' = nc
        /\ UNCHANGED xmitVars /\ UNCHANGED devVars /\ UNCHANGED <<complq, nmiss>>
    BY <1>11 DEF TimerExpire, napiVars, histVars
  <2> QED BY <1>2, <2>1
<1> QED BY <1>1, <1>3, <1>4, <1>5, <1>6, <1>7, <1>8, <1>9, <1>10, <1>11, TagsNapiCompl, TagsHwFetch,
           TagsHwDone, TagsHwMiss, TagsHwExc, NextIs DEF Steps

(* So does a stutter.                                                      *)
LEMMA TagsStutter == AllTypes /\ TagsInv /\ WaitInv /\ UNCHANGED vars => TagsInv' /\ WaitInv'
<1> SUFFICES ASSUME AllTypes, TagsInv, WaitInv, UNCHANGED vars PROVE TagsInv' /\ WaitInv'
  OBVIOUS
<1>1. /\ bufs' = bufs /\ UNCHANGED <<rring, rntu, rgen, rfVars>> /\ npc' = npc /\ nc' = nc
      /\ UNCHANGED xmitVars /\ UNCHANGED devVars /\ UNCHANGED <<complq, nmiss>>
  BY DEF vars, napiVars, histVars
<1> QED BY <1>1, TagsQuiet, WaitXmit

(* At first every tag is offered.                                          *)
LEMMA TagsInit == Init => TagsInv /\ WaitInv
<1> SUFFICES ASSUME Init PROVE TagsInv /\ WaitInv
  OBVIOUS
<1>1. /\ xpc = "idle" /\ npc = "idle" /\ rntu = 0 /\ rgen = 0 /\ rntc = 0 /\ rflgen = 1
      /\ rring = [i \in Tag |-> [id |-> i, gen |-> 1]] /\ bufs = [t \in Tag |-> EmptyBuf]
      /\ complq = <<>> /\ unfetched = <<>> /\ inflight = {} /\ exc = {}
  BY DEF Init
<1>2. TagBase = 0 /\ TagGen = 1 /\ Taken = 0 /\ Held = PoolSize /\ PoolSize \in Nat \ {0}
  BY <1>1, Sizes DEF TagBase, TagGen, Taken, Held
<1>3. ASSUME NEW j \in 0 .. PoolSize - 1
      PROVE  TagAt(j) = j /\ EntryAt(j).gen = 1 /\ LapOf(j) = 1
  <2>1. TagBase + j = j /\ j < PoolSize /\ j >= 0 /\ j \in Int
    BY <1>2
  <2>2. j % PoolSize = j
    BY <2>1, PoolMod
  <2>3. EntryAt(j) = [id |-> j, gen |-> 1]
    BY <2>1, <2>2, <1>1 DEF EntryAt, Tag
  <2> QED BY <2>1, <2>3, <1>2 DEF TagAt, LapOf
<1>4. QueueInv
  <2>1. Held \in 1 .. PoolSize /\ Taken < Held
    BY <1>2
  <2>2. rntc = (TagBase + Taken) % PoolSize /\ rflgen = LapOf(Taken)
    <3>1. TagBase + Taken = 0 /\ 0 \in 0 .. PoolSize - 1
      BY <1>2
    <3>2. 0 % PoolSize = 0
      BY <1>2, PoolMod
    <3> QED BY <3>1, <3>2, <1>1, <1>2, <1>3
  <2> QED BY <2>1, <2>2, <1>2, <1>3 DEF QueueInv
<1>5. OfferInv
  <2>1. \A t \in Tag : bufs[t].type = "EMPTY"
    BY <1>1 DEF EmptyBuf
  <2>2. \A j \in Taken .. Held - 1 : TagAt(j) \in Tag
    BY <1>2, <1>3 DEF Tag
  <2>3. \A t \in Tag : t \in 0 .. Held - 1 /\ t = TagAt(t)
    BY <1>2, <1>3 DEF Tag
  <2> QED BY <2>1, <2>2, <2>3, <1>1 DEF OfferInv
<1>6. BuildInv
  BY <1>1 DEF BuildInv
<1>7. ChainInv
  <2>1. \A t \in Tag : ~ Linked(t)
    BY <1>1 DEF Linked, EmptyBuf
  <2> QED BY <2>1 DEF ChainInv
<1>8. WaitInv
  BY <1>1 DEF WaitInv, RingTags, WireTags, DoneTags, FinalTags, MissTags, OnceIn, FinalOnce
<1> QED BY <1>4, <1>5, <1>6, <1>7, <1>8 DEF TagsInv

TagsAll == AllTypes /\ PathInv /\ TagsInv /\ WaitInv

(* The account of the tags holds in every state.                           *)
LEMMA SpecTagsAll == Spec => []TagsAll
<1>1. Init => TagsAll
  BY TypesInit, TypesAre, TagsInit DEF TagsAll
<1>2. TagsAll /\ [Next]_vars => TagsAll'
  BY TypesNext, TagsNext, TagsStutter DEF TagsAll
<1> QED BY <1>1, <1>2, PTL DEF Spec

(* A tag has one owner, through laps of the refill queue and packets that  *)
(* are given up; and idpf_tx_get_free_buf_id never takes the tag whose     *)
(* link idpf_tx_clean_bufs has still to read, nor finds none.              *)
THEOREM SpecTagsSound == Spec => []TagsSound
<1>1. TagsAll => TagsSound
  BY TagsFromInvs DEF TagsAll, TagsInv
<1> QED BY <1>1, SpecTagsAll, PTL

-----------------------------------------------------------------------------
(***************************************************************************)
(* The skbs                                                                *)
(***************************************************************************)

(* What may happen to the count of an skb: none of the packets that go on  *)
(* hold it, and it has not been freed before                               *)
FreedWell ==
  \A p \in Pkt :
    \/ freed'[p] = freed[p]
    \/ /\ freed[p] = 0 /\ freed'[p] = 1 /\ p <= npkt'
       /\ \A t \in Owner' : bufs'[t].skb # p

(* The timers run for packets of type MISS only.                           *)
TimersMiss == \A t \in Tag : timers[t] # "none" => bufs[t].type = "MISS"

(* One idpf_tx_drop_skb or libeth_tx_complete                              *)
LEMMA FreedOne ==
  ASSUME AllTypes, NEW p \in Pkt, freed[p] = 0, Free(p), p <= npkt',
         \A t \in Owner' : bufs'[t].skb # p
  PROVE  FreedWell
<1>1. freed \in [Pkt -> Nat]
  BY DEF AllTypes, TyPkt
<1>2. freed' = [freed EXCEPT ![p] = 1]
  BY <1>1 DEF Free
<1> QED BY <1>1, <1>2 DEF FreedWell

(* A step that frees no skb                                                *)
LEMMA FreedNone == freed' = freed => FreedWell
BY DEF FreedWell

(* Packets at the device or reported have an owner.                        *)
LEMMA WaitingOwn ==
  ASSUME WaitInv
  PROVE  /\ Waiting \subseteq Owner
         /\ \A p \in inflight : p.tag \in Owner
         /\ \A k \in DOMAIN unfetched : unfetched[k].tag \in Owner
<1>1. Waiting \subseteq Owner
  BY DEF Waiting, Owner
<1>2. WireTags \subseteq Waiting /\ RingTags \subseteq Waiting
  BY DEF WaitInv
<1> QED BY <1>1, <1>2 DEF WireTags, RingTags

(* A step after which no tag owns an skb that it did not own before        *)
LEMMA SkbLess ==
  ASSUME AllTypes, AllTypes', WaitInv', SkbInv,
         \A t \in Owner' : t \in Owner /\ bufs'[t].skb = bufs[t].skb,
         TimersMiss', npkt' >= npkt, FreedWell,
         inflight' \subseteq inflight, unfetched' = unfetched
  PROVE  SkbInv'
<1>1. npkt \in Nat /\ npkt' \in Nat /\ npkt' <= MaxPkt /\ MaxPkt \in Nat
  BY PacketAssumption DEF AllTypes, TyPkt
<1>2. \A t \in Owner : bufs[t].skb \in 1 .. npkt /\ freed[bufs[t].skb] = 0
  BY DEF SkbInv
<1>3. \A t \in Owner' : bufs'[t].skb \in 1 .. npkt' /\ freed'[bufs'[t].skb] = 0
  <2> SUFFICES ASSUME NEW t \in Owner' PROVE bufs'[t].skb \in 1 .. npkt' /\ freed'[bufs'[t].skb] = 0
    OBVIOUS
  <2>1. bufs'[t].skb \in 1 .. npkt /\ freed[bufs'[t].skb] = 0
    BY <1>2
  <2>2. bufs'[t].skb \in Pkt /\ bufs'[t].skb \in 1 .. npkt'
    BY <2>1, <1>1 DEF Pkt
  <2> QED BY <2>1, <2>2 DEF FreedWell
<1>4. \A s, t \in Owner' : bufs'[s].skb = bufs'[t].skb => s = t
  BY DEF SkbInv
<1>5. \A p \in Pkt : freed'[p] <= 1 /\ (p > npkt' => freed'[p] = 0)
  <2> SUFFICES ASSUME NEW p \in Pkt PROVE freed'[p] <= 1 /\ (p > npkt' => freed'[p] = 0)
    OBVIOUS
  <2>1. p \in Nat
    BY <1>1 DEF Pkt
  <2>2. freed[p] <= 1 /\ (p > npkt' => freed[p] = 0)
    BY <2>1, <1>1 DEF SkbInv
  <2> QED BY <2>1, <2>2, <1>1 DEF FreedWell
<1>w. /\ \A p \in inflight' : p.tag \in Owner'
      /\ \A k \in DOMAIN unfetched' : unfetched'[k].tag \in Owner'
  <2>1. WireTags' \subseteq Waiting' /\ RingTags' \subseteq Waiting'
    BY DEF WaitInv
  <2>2. Waiting' \subseteq Owner'
    BY DEF Waiting, Owner
  <2> QED BY <2>1, <2>2 DEF WireTags, RingTags
<1>6. \A p \in inflight' : bufs'[p.tag].skb = p.pkt
  BY <1>w DEF SkbInv
<1>7. \A k \in DOMAIN unfetched' : bufs'[unfetched'[k].tag].skb = unfetched'[k].pkt
  BY <1>w DEF SkbInv
<1> QED BY <1>3, <1>4, <1>5, <1>6, <1>7 DEF SkbInv, TimersMiss

(* A step that changes no buffer, timer or count                           *)
LEMMA SkbSame ==
  ASSUME AllTypes, AllTypes', WaitInv', SkbInv, bufs' = bufs, timers' = timers,
         freed' = freed, npkt' = npkt, inflight' \subseteq inflight, unfetched' = unfetched
  PROVE  SkbInv'
<1>1. Owner' = Owner
  BY DEF Owner
<1>2. TimersMiss'
  BY DEF SkbInv, TimersMiss
<1>3. npkt' >= npkt
  BY DEF AllTypes, TyPkt
<1> QED BY <1>1, <1>2, <1>3, SkbLess, FreedNone

(* The count of a packet that never had a buffer                           *)
LEMMA FreedNew ==
  ASSUME AllTypes, AllTypes', SkbInv, npkt' = npkt + 1, Free(npkt + 1),
         \A t \in Owner' : t \in Owner /\ bufs'[t].skb = bufs[t].skb
  PROVE  FreedWell
<1>1. npkt \in Nat /\ npkt + 1 \in Pkt /\ npkt + 1 > npkt
  BY PacketAssumption DEF AllTypes, TyPkt, Pkt
<1>2. freed[npkt + 1] = 0
  BY <1>1 DEF SkbInv
<1>3. \A t \in Owner' : bufs'[t].skb # npkt + 1
  BY <1>1 DEF SkbInv
<1> QED BY <1>1, <1>2, <1>3, FreedOne

(* The packet under construction owns no skb yet.                          *)
LEMMA SkbXmitFault ==
  ASSUME AllTypes, AllTypes', TagsInv, WaitInv', SkbInv, XmitFault
  PROVE  SkbInv'
<1>1. xpc = "map" /\ Free(xm.pkt) /\ npkt' = npkt + 1 /\ timers' = timers
        /\ inflight' = inflight /\ unfetched' = unfetched
  BY DEF XmitFault, Rollback, devVars
<1>2. xm.pkt = npkt + 1
  BY <1>1 DEF AllTypes, TyXm
<1>3. \A t \in BuiltTags : bufs[t].type \in {"EMPTY", "FRAG"}
  BY <1>1, BuildKinds
<1>4. Built = BuiltTags
  BY <1>1, BuiltIs DEF BuiltTags, Taken, TagsInv
<1>5. bufs' = [t \in Tag |-> IF t \in BuiltTags THEN EmptyBuf ELSE bufs[t]]
  BY <1>4 DEF XmitFault, Rollback
<1>6. \A t \in Owner' : t \in Owner /\ bufs'[t].skb = bufs[t].skb
  BY <1>1, <1>5 DEF Owner, EmptyBuf
<1>7. TimersMiss'
  BY <1>1, <1>3, <1>5 DEF SkbInv, TimersMiss
<1>8. FreedWell
  BY <1>1, <1>2, <1>6, FreedNew
<1>9. npkt' >= npkt
  BY <1>1 DEF AllTypes, TyPkt
<1> QED BY <1>1, <1>6, <1>7, <1>8, <1>9, SkbLess

(* A packet that is dropped is freed once.                                 *)
LEMMA SkbXmitRefuse ==
  ASSUME AllTypes, AllTypes', WaitInv', SkbInv, NEW mr \in BOOLEAN, XmitRefuse(mr)
  PROVE  SkbInv'
<1>1. /\ Free(npkt + 1) /\ npkt' = npkt + 1 /\ timers' = timers /\ bufs' = bufs
      /\ inflight' = inflight /\ unfetched' = unfetched
  BY DEF XmitRefuse, devVars
<1>2. Owner' = Owner
  BY <1>1 DEF Owner
<1>3. TimersMiss'
  BY <1>1 DEF SkbInv, TimersMiss
<1>4. npkt' >= npkt
  BY <1>1 DEF AllTypes, TyPkt
<1> QED BY <1>1, <1>2, <1>3, <1>4, FreedNew, SkbLess

(* The skb is written to a buffer that is not in use.                      *)
LEMMA SkbXmitFirst ==
  ASSUME AllTypes, AllTypes', TagsInv, WaitInv', SkbInv, NEW st \in Stamps, XmitFirst(st)
  PROVE  SkbInv'
<1> DEFINE t == rring[rntc].id
<1>1. /\ bufs' = [bufs EXCEPT ![t].skb = xm.pkt] /\ xpc = "first"
      /\ timers' = timers /\ freed' = freed /\ npkt' = npkt
      /\ inflight' = inflight /\ unfetched' = unfetched
  BY DEF XmitFirst, devVars
<1>2. t \in Tag /\ bufs[t].type = "EMPTY"
  BY <1>1, NextTag DEF TagsInv
<1> HIDE DEF t
<1>3. /\ \A s \in Tag : s # t => bufs'[s] = bufs[s]
      /\ \A s \in Tag : bufs'[s].type = bufs[s].type
  BY <1>1, <1>2 DEF AllTypes, TyBufs, BufRec
<1>4. \A s \in Owner' : s \in Owner /\ bufs'[s].skb = bufs[s].skb
  BY <1>1, <1>2, <1>3 DEF Owner
<1>5. TimersMiss'
  BY <1>1, <1>3 DEF SkbInv, TimersMiss
<1>6. npkt' >= npkt
  BY <1>1 DEF AllTypes, TyPkt
<1> QED BY <1>1, <1>4, <1>5, <1>6, SkbLess, FreedNone

(* A buffer more changes no owner.                                         *)
LEMMA SkbXmitFrag ==
  ASSUME AllTypes, AllTypes', TagsInv, WaitInv', SkbInv, XmitFrag
  PROVE  SkbInv'
<1>1. /\ xpc = "map" /\ timers' = timers /\ freed' = freed /\ npkt' = npkt
      /\ inflight' = inflight /\ unfetched' = unfetched
  BY DEF XmitFrag, devVars
<1>2. bufs[xm.buf].type = "EMPTY" /\ xm.buf \in Tag
  BY <1>1, BuildKinds, XmIs DEF AllTypes, TyXm
<1> DEFINE r == [bufs[xm.buf] EXCEPT !.type = "FRAG", !.next = rring[rntc].id]
<1>3. bufs' = [bufs EXCEPT ![xm.buf] = r]
  BY DEF XmitFrag
<1>4. bufs[xm.buf] \in BufRec /\ bufs \in [Tag -> BufRec]
  BY <1>2 DEF AllTypes, TyBufs
<1>5. r.type = "FRAG"
  BY <1>4 DEF BufRec
<1> HIDE DEF r
<1>6. bufs'[xm.buf] = r /\ \A s \in Tag : s # xm.buf => bufs'[s] = bufs[s]
  BY <1>2, <1>3, <1>4
<1>7. \A s \in Owner' : s \in Owner /\ bufs'[s].skb = bufs[s].skb
  BY <1>1, <1>5, <1>6 DEF Owner
<1>8. TimersMiss'
  BY <1>1, <1>2, <1>6 DEF SkbInv, TimersMiss
<1>9. npkt' >= npkt
  BY <1>1 DEF AllTypes, TyPkt
<1> QED BY <1>1, <1>7, <1>8, <1>9, SkbLess, FreedNone

(* The packet that is handed to the device is the new owner of its skb.    *)
LEMMA SkbXmitLast ==
  ASSUME AllTypes, AllTypes', TagsInv, WaitInv, SkbInv, XmitLast
  PROVE  SkbInv'
<1> DEFINE p == [pkt |-> xm.pkt, tag |-> xm.first, end |-> Bump(Bump(xm.i, xm.shape[xm.k] - 1), 1),
                 n |-> xm.ctx + xm.st + Sum(xm.shape), re |-> xm.re]
           i == Bump(xm.i, xm.shape[xm.k] - 1)
           ty == IF xm.st = 1 THEN "SKB_TSTAMP" ELSE "SKB"
           b == [bufs EXCEPT ![xm.buf] = [bufs[xm.buf] EXCEPT !.type = "FRAG", !.next = Null]]
<1>1. /\ xpc = "map" /\ unfetched' = Append(unfetched, p)
      /\ bufs' = [b EXCEPT ![xm.first] = [b[xm.first] EXCEPT !.rs = i, !.type = ty]]
      /\ npkt' = npkt + 1 /\ UNCHANGED <<inflight, timers, freed>>
  BY DEF XmitLast
<1>2. p.tag = xm.first /\ p.pkt = xm.pkt
  OBVIOUS
<1>3. xm.first \in Tag /\ xm.buf \in Tag /\ xm.pkt = npkt + 1
  BY <1>1, XmIs DEF AllTypes, TyXm
<1>4. ty \in {"SKB", "SKB_TSTAMP"}
  OBVIOUS
<1>5. unfetched \in Seq(UnfRec)
  BY DEF AllTypes, TyUnf
<1> HIDE DEF p, i, ty
<1>6. /\ bufs'[xm.first].type = ty /\ bufs'[xm.first].skb = bufs[xm.first].skb
      /\ xm.buf # xm.first => bufs'[xm.buf].type = "FRAG"
      /\ \A s \in Tag : s # xm.buf /\ s # xm.first => bufs'[s] = bufs[s]
  <2>1. bufs \in [Tag -> BufRec] /\ bufs[xm.buf] \in BufRec
    BY <1>3 DEF AllTypes, TyBufs
  <2> DEFINE r == [bufs[xm.buf] EXCEPT !.type = "FRAG", !.next = Null]
  <2>2. r \in BufRec /\ r.type = "FRAG" /\ r.skb = bufs[xm.buf].skb
    BY <2>1 DEF BufRec, BufType
  <2> HIDE DEF r
  <2>3. b = [bufs EXCEPT ![xm.buf] = r] /\ b \in [Tag -> BufRec]
    BY <2>1, <2>2, <1>3 DEF r
  <2>4. b[xm.buf] = r /\ \A s \in Tag : s # xm.buf => b[s] = bufs[s]
    BY <2>1, <2>3, <1>3
  <2> HIDE DEF b
  <2> DEFINE q == [b[xm.first] EXCEPT !.rs = i, !.type = ty]
  <2>5. q.type = ty /\ q.skb = b[xm.first].skb
    <3>1. b[xm.first] \in BufRec
      BY <2>3, <1>3
    <3> QED BY <3>1 DEF BufRec
  <2>6. bufs' = [b EXCEPT ![xm.first] = q]
    BY <1>1
  <2> HIDE DEF q
  <2>7. bufs'[xm.first] = q /\ \A s \in Tag : s # xm.first => bufs'[s] = b[s]
    BY <2>3, <2>6, <1>3
  <2> QED BY <2>2, <2>4, <2>5, <2>7, <1>3
<1> HIDE DEF b
<1>7. /\ bufs[xm.first].type \in {"EMPTY", "FRAG"} /\ bufs[xm.buf].type \in {"EMPTY", "FRAG"}
      /\ bufs[xm.first].skb = npkt + 1
  BY <1>1, <1>3, BuildKinds
<1>8. /\ xm.first \notin Owner
      /\ \A t \in Owner' : \/ t = xm.first
                           \/ t \in Owner /\ bufs'[t].skb = bufs[t].skb
  BY <1>1, <1>6, <1>7 DEF Owner
<1>9. bufs'[xm.first].skb = npkt + 1
  BY <1>6, <1>7
<1>10. npkt \in Nat /\ npkt' = npkt + 1 /\ npkt + 1 \in Pkt /\ freed[npkt + 1] = 0
  <2>1. npkt \in Nat /\ npkt + 1 \in Pkt /\ npkt + 1 > npkt
    BY <1>1, PacketAssumption DEF AllTypes, TyPkt, TyXm, Pkt
  <2> QED BY <1>1, <2>1 DEF SkbInv
<1>11. \A t \in Owner : bufs[t].skb \in 1 .. npkt /\ freed[bufs[t].skb] = 0 /\ bufs[t].skb # npkt + 1
  BY <1>10 DEF SkbInv
<1>12. \A t \in Owner' : bufs'[t].skb \in 1 .. npkt' /\ freed'[bufs'[t].skb] = 0
  <2>1. npkt + 1 \in 1 .. npkt' /\ \A k \in 1 .. npkt : k \in 1 .. npkt'
    BY <1>10
  <2> QED BY <2>1, <1>1, <1>8, <1>9, <1>10, <1>11
<1>13. \A s, t \in Owner' : bufs'[s].skb = bufs'[t].skb => s = t
  BY <1>8, <1>9, <1>11 DEF SkbInv
<1>14. \A q \in Pkt : freed'[q] <= 1 /\ (q > npkt' => freed'[q] = 0)
  <2>1. \A q \in Pkt : q > npkt' => q > npkt
    BY <1>10 DEF Pkt
  <2> QED BY <2>1, <1>1 DEF SkbInv
<1>15. TimersMiss'
  BY <1>1, <1>6, <1>7 DEF SkbInv, TimersMiss
<1>16. \A q \in inflight' : bufs'[q.tag].skb = q.pkt
  <2>1. \A q \in inflight : q.tag \in Owner
    BY WaitingOwn
  <2>2. \A t \in Owner : bufs'[t].skb = bufs[t].skb
    BY <1>3, <1>6, <1>7, <1>8 DEF Owner
  <2> QED BY <2>1, <2>2, <1>1 DEF SkbInv
<1>17. \A k \in DOMAIN unfetched' : bufs'[unfetched'[k].tag].skb = unfetched'[k].pkt
  <2>1. \A k \in DOMAIN unfetched : unfetched[k].tag \in Owner
    BY WaitingOwn
  <2>2. \A t \in Owner : bufs'[t].skb = bufs[t].skb
    BY <1>3, <1>6, <1>7, <1>8 DEF Owner
  <2>3. /\ DOMAIN unfetched' = DOMAIN unfetched \cup {Len(unfetched) + 1}
        /\ unfetched'[Len(unfetched) + 1] = p
        /\ \A k \in DOMAIN unfetched : unfetched'[k] = unfetched[k]
    BY <1>1, <1>5, AppendIs
  <2> QED BY <2>1, <2>2, <2>3, <1>2, <1>3, <1>9 DEF SkbInv
<1> QED BY <1>12, <1>13, <1>14, <1>15, <1>16, <1>17 DEF SkbInv, TimersMiss

(* libeth_tx_complete on a first buffer: one packet less has an owner      *)
LEMMA SkbCleanBufs ==
  ASSUME AllTypes, AllTypes', WaitInv', SkbInv, NEW t \in Waiting, CleanBufs(t),
         timers' = timers, npkt' = npkt, inflight' = inflight, unfetched' = unfetched
  PROVE  SkbInv'
<1>1. bufs' = [bufs EXCEPT ![t].type = "EMPTY"] /\ Free(bufs[t].skb)
  BY DEF CleanBufs
<1>2. t \in Tag /\ t \in Owner /\ bufs[t].type \notin {"EMPTY", "MISS"}
  BY DEF Waiting, Owner
<1>3. /\ \A s \in Tag : s # t => bufs'[s] = bufs[s]
      /\ bufs'[t].type = "EMPTY"
  BY <1>1, <1>2 DEF AllTypes, TyBufs, BufRec
<1>4. \A s \in Owner' : s # t /\ s \in Owner /\ bufs'[s].skb = bufs[s].skb
  BY <1>3 DEF Owner
<1>5. npkt \in Nat /\ npkt <= MaxPkt /\ MaxPkt \in Nat
  BY PacketAssumption DEF AllTypes, TyPkt
<1>6. bufs[t].skb \in 1 .. npkt /\ freed[bufs[t].skb] = 0
  BY <1>2 DEF SkbInv
<1>7. bufs[t].skb \in Pkt /\ bufs[t].skb <= npkt'
  BY <1>5, <1>6 DEF Pkt
<1>8. \A s \in Owner' : bufs'[s].skb # bufs[t].skb
  BY <1>2, <1>4 DEF SkbInv
<1>9. FreedWell
  BY <1>1, <1>6, <1>7, <1>8, FreedOne
<1>10. TimersMiss'
  BY <1>2, <1>3 DEF SkbInv, TimersMiss
<1>11. npkt' >= npkt
  BY <1>5
<1> QED BY <1>4, <1>9, <1>10, <1>11, SkbLess

(* A timer that expires frees the skb of a packet that is of type MISS.    *)
LEMMA SkbTimerExpire ==
  ASSUME AllTypes, AllTypes', WaitInv', SkbInv, NEW t \in Tag, TimerExpire(t)
  PROVE  SkbInv'
<1>1. /\ timers' = [timers EXCEPT ![t] = "freed"] /\ Free(bufs[t].skb) /\ bufs' = bufs
      /\ npkt' = npkt /\ inflight' = inflight /\ unfetched' = unfetched /\ timers[t] = "armed"
  BY DEF TimerExpire, devVars
<1>2. bufs[t].type = "MISS" /\ t \in Owner
  BY <1>1 DEF SkbInv, Owner
<1>3. timers'[t] = "freed" /\ \A s \in Tag : s # t => timers'[s] = timers[s]
  BY <1>1 DEF AllTypes, TyTimer
<1>4. \A s \in Owner' : s # t /\ s \in Owner /\ bufs'[s].skb = bufs[s].skb
  BY <1>1, <1>2, <1>3 DEF Owner
<1>5. npkt \in Nat /\ npkt <= MaxPkt /\ MaxPkt \in Nat
  BY PacketAssumption DEF AllTypes, TyPkt
<1>6. bufs[t].skb \in 1 .. npkt /\ freed[bufs[t].skb] = 0
  BY <1>2 DEF SkbInv
<1>7. bufs[t].skb \in Pkt /\ bufs[t].skb <= npkt'
  BY <1>1, <1>5, <1>6 DEF Pkt
<1>8. \A s \in Owner' : bufs'[s].skb # bufs[t].skb
  BY <1>2, <1>4 DEF SkbInv
<1>9. FreedWell
  BY <1>1, <1>6, <1>7, <1>8, FreedOne
<1>10. TimersMiss'
  BY <1>1, <1>2, <1>3 DEF SkbInv, TimersMiss
<1>11. npkt' >= npkt
  BY <1>1, <1>5
<1> QED BY <1>1, <1>4, <1>9, <1>10, <1>11, SkbLess

(* The type of a buffer changes, and perhaps its timer.                    *)
LEMMA SkbRetype ==
  ASSUME AllTypes, AllTypes', WaitInv', SkbInv, NEW t \in Tag, NEW ty, NEW x,
         bufs' = [bufs EXCEPT ![t].type = ty], timers' = [timers EXCEPT ![t] = x],
         x # "none" => ty = "MISS",
         \/ t \in Owner
         \/ /\ ty \notin {"SKB", "SKB_TSTAMP", "REINJECT"}
            /\ x # "armed",
         freed' = freed, npkt' = npkt, inflight' = inflight, unfetched' = unfetched
  PROVE  SkbInv'
<1>1. bufs \in [Tag -> BufRec] /\ bufs[t] \in BufRec /\ timers'[t] = x
        /\ \A s \in Tag : s # t => timers'[s] = timers[s]
  BY DEF AllTypes, TyBufs, TyTimer
<1> DEFINE r == [bufs[t] EXCEPT !.type = ty]
<1>2. bufs' = [bufs EXCEPT ![t] = r]
  OBVIOUS
<1>3. r.type = ty /\ r.skb = bufs[t].skb
  BY <1>1 DEF BufRec
<1> HIDE DEF r
<1>4. bufs'[t] = r /\ \A s \in Tag : s # t => bufs'[s] = bufs[s]
  BY <1>1, <1>2
<1>5. \A s \in Owner' : s \in Owner /\ bufs'[s].skb = bufs[s].skb
  <2> SUFFICES ASSUME NEW s \in Owner' PROVE s \in Owner /\ bufs'[s].skb = bufs[s].skb
    OBVIOUS
  <2>1. s \in Tag
    BY DEF Owner
  <2>2. CASE s = t
    <3>1. t \in Owner
      BY <2>2, <1>1, <1>3, <1>4 DEF Owner
    <3> QED BY <2>2, <3>1, <1>3, <1>4
  <2>3. CASE s # t
    BY <2>1, <2>3, <1>1, <1>4 DEF Owner
  <2> QED BY <2>2, <2>3
<1>6. TimersMiss'
  BY <1>1, <1>3, <1>4 DEF SkbInv, TimersMiss
<1>7. npkt' >= npkt
  BY DEF AllTypes, TyPkt
<1> QED BY <1>5, <1>6, <1>7, SkbLess, FreedNone

(* A completion frees an skb with a single owner, or none.                 *)
LEMMA SkbNapiCompl ==
  ASSUME AllTypes, AllTypes', WaitInv, WaitInv', SkbInv, NapiCompl
  PROVE  SkbInv'
<1> DEFINE c == Head(complq)
           t == c.tag
<1>1. /\ complq # <<>>
      /\ NapiRe(c) \/ NapiRs(c) \/ NapiMiss(c) \/ NapiReinject(c)
      /\ UNCHANGED <<unfetched, inflight, npkt>>
  BY DEF NapiCompl, devVars
<1>2. c \in ComplRec /\ t \in Tag
  BY <1>1, HeadIs, ComplIs DEF AllTypes
<1>3. Final(c) => t \in Waiting
  <2>1. Final(c) => t \in DoneTags
    <3>1. complq \in Seq(ComplRec) /\ FinalOnce(complq)
      BY DEF AllTypes, TyCompl, WaitInv
    <3> QED BY <3>1, <1>1, FinalTail DEF DoneTags
  <2> QED BY <2>1 DEF WaitInv
<1> HIDE DEF c
<1>s. ASSUME bufs' = bufs, timers' = timers, freed' = freed
      PROVE  SkbInv'
  BY <1>1, <1>s, SkbSame
<1>c. ASSUME CleanBufs(t), Final(c), timers' = timers
      PROVE  SkbInv'
  BY <1>1, <1>3, <1>c, SkbCleanBufs
<1>t. timers \in [Tag -> {"none", "armed", "freed"}] /\ bufs \in [Tag -> BufRec]
  BY DEF AllTypes, TyTimer, TyBufs
<1>5. CASE NapiRe(c)
  BY <1>5, <1>s DEF NapiRe
<1>6. CASE NapiRs(c)
  <2>1. Final(c)
    BY <1>6 DEF NapiRs, Final
  <2> QED BY <2>1, <1>6, <1>s, <1>c DEF NapiRs
<1>7. CASE NapiMiss(c)
  <2>1. Final(c)
    BY <1>7 DEF NapiMiss, Final
  <2>2. \/ CleanBufs(t) /\ timers' = timers
        \/ /\ bufs' = [bufs EXCEPT ![t].type = "MISS"]
           /\ timers' = [timers EXCEPT ![t] = "armed"]
           /\ freed' = freed
    BY <1>7 DEF NapiMiss
  <2>3. ASSUME bufs' = [bufs EXCEPT ![t].type = "MISS"],
               timers' = [timers EXCEPT ![t] = "armed"],
               freed' = freed
        PROVE  SkbInv'
    <3> DEFINE ty == "MISS"
               x == "armed"
    <3>1. /\ bufs' = [bufs EXCEPT ![t].type = ty] /\ timers' = [timers EXCEPT ![t] = x]
          /\ x # "none" => ty = "MISS"
      BY <2>3
    <3>2. t \in Owner
      BY <1>3, <2>1 DEF Waiting, Owner
    <3> HIDE DEF ty, x
    <3> QED BY <3>1, <3>2, <2>3, <1>1, <1>2, SkbRetype
  <2> QED BY <2>1, <2>2, <2>3, <1>c
<1>8. CASE NapiReinject(c)
  <2>1. freed' = freed
    BY <1>8 DEF NapiReinject
  <2>2. CASE bufs[t].type = "MISS"
    <3> DEFINE ty == IF timers[t] = "none" THEN bufs[t].type ELSE "EMPTY"
               x == "none"
    <3>1. bufs' = [bufs EXCEPT ![t].type = ty] /\ timers' = [timers EXCEPT ![t] = x]
      BY <1>8, <2>2, <1>2, <1>t DEF NapiReinject, BufRec
    <3>2. ty \notin {"SKB", "SKB_TSTAMP", "REINJECT"} /\ (x # "none" => ty = "MISS") /\ x # "armed"
      BY <2>2
    <3> HIDE DEF ty, x
    <3> QED BY <3>1, <3>2, <2>1, <1>1, <1>2, SkbRetype
  <2>3. CASE bufs[t].type = "SKB"
    <3> DEFINE ty == "REINJECT"
               x == timers[t]
    <3>1. bufs' = [bufs EXCEPT ![t].type = ty] /\ timers' = timers
      BY <1>8, <2>3 DEF NapiReinject
    <3>2. timers' = [timers EXCEPT ![t] = x]
      BY <3>1, <1>2, <1>t
    <3>3. x = "none" /\ t \in Owner
      BY <2>3, <1>2 DEF SkbInv, Owner
    <3> HIDE DEF ty, x
    <3> QED BY <3>1, <3>2, <3>3, <2>1, <1>1, <1>2, SkbRetype
  <2>4. CASE bufs[t].type \notin {"MISS", "SKB"}
    <3>1. bufs' = bufs /\ timers' = timers
      BY <1>8, <2>4 DEF NapiReinject
    <3> QED BY <3>1, <2>1, <1>s
  <2> QED BY <2>2, <2>3, <2>4
<1> QED BY <1>1, <1>5, <1>6, <1>7, <1>8

(* The other buffers of a packet have no skb.                              *)
LEMMA SkbNapiChain ==
  ASSUME AllTypes, AllTypes', TagsInv, WaitInv', SkbInv, NapiChain
  PROVE  SkbInv'
<1> USE DEF TagsInv
<1> DEFINE t == nc.tag
           nx == bufs[t].next
           left == IF bufs[t].type = "EMPTY" THEN [bufs EXCEPT ![t] = EmptyBuf] ELSE bufs
<1>1. npc = "chain" /\ nc \in NcRec /\ t \in Tag /\ bufs \in [Tag -> BufRec]
        /\ UNCHANGED <<timers, freed, npkt, inflight, unfetched>>
  BY NcIs DEF NapiChain, AllTypes, TyNc, TyBufs, devVars
<1>2. Held \in Nat /\ Taken \in Nat /\ Taken < Held
  BY BaseTypes DEF QueueInv
<1>3. Held - 1 \in Taken .. Held - 1 /\ Held - 1 \in 0 .. Held - 1
  BY <1>2
<1>4. TagAt(Held - 1) = t /\ bufs[t].type = "EMPTY"
  BY <1>1, <1>3 DEF OfferInv
<1>5. t \notin BuiltTags
  <2>1. ASSUME NEW j \in 0 .. Taken - 1
        PROVE  TagAt(j) # t
    <3>1. j \in 0 .. Held - 1 /\ j # Held - 1
      BY <1>2
    <3> QED BY <3>1, <1>3, <1>4 DEF QueueInv
  <2> QED BY <2>1 DEF BuiltTags
<1>6. left[t] = EmptyBuf /\ (\A s \in Tag : s # t => left[s] = bufs[s]) /\ left \in [Tag -> BufRec]
  <2>1. EmptyBuf \in BufRec
    BY Sizes DEF EmptyBuf, BufRec, BufType
  <2>2. left = [bufs EXCEPT ![t] = EmptyBuf]
    BY <1>4
  <2> HIDE DEF left
  <2> QED BY <2>1, <2>2, <1>1
<1>7. EmptyBuf.type = "EMPTY"
  BY DEF EmptyBuf
<1>8. nx # Null => nx \in Tag /\ bufs[nx].type = "FRAG"
  <2>1. nx # Null => Linked(t) /\ nx \in Tag
    BY <1>1, <1>5 DEF Linked, BufRec
  <2> QED BY <2>1, <1>1 DEF ChainInv
<1>9. \/ nx = Null /\ bufs' = left
      \/ nx # Null /\ bufs' = [left EXCEPT ![nx].type = "EMPTY"]
  BY DEF NapiChain
<1> HIDE DEF left, nx, t
<1>10. \A s \in Tag : \/ bufs'[s] = bufs[s]
                      \/ bufs'[s].type = "EMPTY" /\ bufs[s].type \in {"EMPTY", "FRAG"}
  <2>1. CASE nx = Null /\ bufs' = left
    BY <2>1, <1>4, <1>6, <1>7
  <2>2. CASE nx # Null /\ bufs' = [left EXCEPT ![nx].type = "EMPTY"]
    <3>1. nx \in Tag /\ left[nx] \in BufRec
      BY <2>2, <1>6, <1>8
    <3>2. bufs'[nx].type = "EMPTY" /\ \A s \in Tag : s # nx => bufs'[s] = left[s]
      BY <3>1, <2>2, <1>6 DEF BufRec
    <3> QED BY <3>1, <3>2, <2>2, <1>4, <1>6, <1>7, <1>8
  <2> QED BY <2>1, <2>2, <1>9
<1>11. \A s \in Owner' : s \in Owner /\ bufs'[s].skb = bufs[s].skb
  BY <1>1, <1>10 DEF Owner
<1>12. TimersMiss'
  BY <1>1, <1>10 DEF SkbInv, TimersMiss
<1>13. npkt' >= npkt
  BY <1>1 DEF AllTypes, TyPkt
<1> QED BY <1>1, <1>11, <1>12, <1>13, SkbLess, FreedNone

(* A packet goes from the ring to the wire with its skb.                   *)
LEMMA SkbHwFetch ==
  ASSUME AllTypes, AllTypes', PathInv, SkbInv, HwFetch
  PROVE  SkbInv'
<1> DEFINE p == unfetched[1]
           q == [pkt |-> p.pkt, tag |-> p.tag]
<1>0. Head(unfetched) = p /\ 1 \in DOMAIN unfetched
        /\ \A k \in DOMAIN Tail(unfetched) :
             k + 1 \in DOMAIN unfetched /\ Tail(unfetched)[k] = unfetched[k + 1]
  BY SomeUnfetched, TailIs DEF HwFetch, AllTypes, TyUnf
<1>1. /\ unfetched' = Tail(unfetched) /\ inflight' = inflight \cup {q}
      /\ UNCHANGED <<bufs, timers, freed, npkt>>
  BY <1>0 DEF HwFetch, driverVars
<1>2. bufs[q.tag].skb = q.pkt
  BY <1>0 DEF SkbInv
<1> HIDE DEF p, q
<1>3. Owner' = Owner
  BY <1>1 DEF Owner
<1>4. \A x \in inflight' : bufs'[x.tag].skb = x.pkt
  BY <1>1, <1>2 DEF SkbInv
<1>5. \A k \in DOMAIN unfetched' : bufs'[unfetched'[k].tag].skb = unfetched'[k].pkt
  BY <1>0, <1>1 DEF SkbInv
<1> QED BY <1>1, <1>3, <1>4, <1>5 DEF SkbInv

(* Every step keeps one owner for every skb.                               *)
LEMMA SkbNext ==
  ASSUME AllTypes, AllTypes', PathInv, TagsInv, WaitInv, WaitInv', SkbInv, Next
  PROVE  SkbInv'
<1>1. ASSUME UNCHANGED <<bufs, timers, freed, npkt>>, inflight' \subseteq inflight,
             unfetched' = unfetched
      PROVE  SkbInv'
  BY <1>1, SkbSame
<1>2. ASSUME NEW s \in Shapes, NEW c \in Ctx, NEW mr \in BOOLEAN, XmitStart(s, c, mr)
      PROVE  SkbInv'
  BY <1>1, <1>2 DEF XmitStart, devVars
<1>3. ASSUME XmitStop \/ XmitRecheck
      PROVE  SkbInv'
  BY <1>1, <1>3 DEF XmitStop, XmitRecheck, devVars
<1>4. ASSUME NapiOut \/ NapiWake
      PROVE  SkbInv'
  BY <1>1, <1>4 DEF NapiOut, NapiWake, devVars
<1>5. ASSUME NEW p \in inflight, HwDone(p)
      PROVE  SkbInv'
  BY <1>1, <1>5 DEF HwDone, driverVars
<1>6. ASSUME NEW p \in inflight, NEW ty \in {"MISS", "REINJECT"}, HwMiss(p, ty)
      PROVE  SkbInv'
  BY <1>1, <1>6 DEF HwMiss, driverVars
<1>7. ASSUME NEW c \in exc, HwExc(c)
      PROVE  SkbInv'
  BY <1>1, <1>7 DEF HwExc, driverVars
<1> QED BY <1>2, <1>3, <1>4, <1>5, <1>6, <1>7, SkbXmitRefuse, SkbXmitFirst, SkbXmitFault,
           SkbXmitFrag, SkbXmitLast, SkbNapiCompl, SkbNapiChain, SkbTimerExpire, SkbHwFetch,
           NextIs DEF Steps

(* At first there is no skb.                                               *)
LEMMA SkbInit == Init => SkbInv
BY DEF Init, SkbInv, Owner, EmptyBuf

(* An skb is freed at most once, by a completion, a timer or a packet that *)
(* is given up, and not while the device may read it.                      *)
THEOREM SpecSkbFreedOnce == Spec => []SkbFreedOnce
<1>1. Init => SkbInv
  BY SkbInit
<1>2. TagsAll /\ TagsAll' /\ SkbInv /\ [Next]_vars => SkbInv'
  <2>1. CASE Next
    BY <2>1, SkbNext DEF TagsAll
  <2>2. CASE UNCHANGED vars
    <3>1. UNCHANGED <<bufs, timers, freed, npkt, inflight, unfetched>>
      BY <2>2 DEF vars, devVars
    <3> QED BY <3>1, SkbSame DEF TagsAll
  <2> QED BY <2>1, <2>2
<1>3. TagsAll /\ SkbInv => SkbFreedOnce
  <2> SUFFICES ASSUME TagsAll, SkbInv PROVE SkbFreedOnce
    OBVIOUS
  <2>1. \A p \in inflight : freed[p.pkt] = 0
    BY WaitingOwn DEF TagsAll, SkbInv
  <2>2. \A k \in DOMAIN unfetched : freed[unfetched[k].pkt] = 0
    BY WaitingOwn DEF TagsAll, SkbInv
  <2> QED BY <2>1, <2>2 DEF SkbInv, SkbFreedOnce
<1> QED BY <1>1, <1>2, <1>3, SpecTagsAll, PTL DEF Spec

-----------------------------------------------------------------------------
(***************************************************************************)
(* The completion queue                                                    *)
(***************************************************************************)

Reports(u) == [k \in DOMAIN u |-> IF u[k].re THEN 2 ELSE 1]

(* The sums over the packets of the ring, when one is added or taken       *)
LEMMA SeqOf ==
  ASSUME NEW u \in Seq(UnfRec)
  PROVE  Lens(u) \in Seq(Nat) /\ Reports(u) \in Seq(Nat)
         /\ Len(Lens(u)) = Len(u) /\ Len(Reports(u)) = Len(u)
<1>1. Len(u) \in Nat /\ DOMAIN u = 1 .. Len(u) /\ \A k \in 1 .. Len(u) : u[k] \in UnfRec
  OBVIOUS
<1>2. \A k \in 1 .. Len(u) : u[k].n \in Nat
  BY <1>1, UnfIs
<1> QED BY <1>1, <1>2 DEF Lens, Reports

(* The sums over the ring with a packet more                               *)
LEMMA SumsAppend ==
  ASSUME NEW u \in Seq(UnfRec), NEW p \in UnfRec
  PROVE  /\ Sum(Lens(Append(u, p))) = Sum(Lens(u)) + p.n
         /\ Sum(Reports(Append(u, p))) = Sum(Reports(u)) + IF p.re THEN 2 ELSE 1
         /\ Sum(Lens(u)) \in Nat /\ Sum(Reports(u)) \in Nat
<1> DEFINE x == IF p.re THEN 2 ELSE 1
           n == p.n
<1>1. n \in Nat /\ x \in Nat /\ Append(u, p) \in Seq(UnfRec)
  BY UnfIs
<1>2. Lens(u) \in Seq(Nat) /\ Reports(u) \in Seq(Nat)
        /\ Len(Lens(u)) = Len(u) /\ Len(Reports(u)) = Len(u)
  BY SeqOf
<1>3. /\ Lens(Append(u, p)) \in Seq(Nat) /\ Reports(Append(u, p)) \in Seq(Nat)
      /\ Len(Lens(Append(u, p))) = Len(u) + 1 /\ Len(Reports(Append(u, p))) = Len(u) + 1
  <2>1. Len(Append(u, p)) = Len(u) + 1
    BY AppendIs
  <2> DEFINE v == Append(u, p)
  <2> HIDE DEF v
  <2>2. v \in Seq(UnfRec)
    BY <1>1 DEF v
  <2>3. Lens(v) \in Seq(Nat) /\ Reports(v) \in Seq(Nat)
          /\ Len(Lens(v)) = Len(v) /\ Len(Reports(v)) = Len(v)
    BY <2>2, SeqOf
  <2> QED BY <2>1, <2>3 DEF v
<1>4. /\ DOMAIN Append(u, p) = DOMAIN u \cup {Len(u) + 1}
      /\ Append(u, p)[Len(u) + 1] = p
      /\ \A k \in DOMAIN u : Append(u, p)[k] = u[k]
      /\ DOMAIN u = 1 .. Len(u) /\ Len(u) \in Nat
  BY AppendIs
<1>5. \A k \in 1 .. Len(u) : /\ Lens(Append(u, p))[k] = Lens(u)[k]
                             /\ Reports(Append(u, p))[k] = Reports(u)[k]
  BY <1>4 DEF Lens, Reports
<1>6. Lens(Append(u, p))[Len(u) + 1] = n /\ Reports(Append(u, p))[Len(u) + 1] = x
  BY <1>4 DEF Lens, Reports
<1> HIDE DEF x, n
<1>7. Lens(Append(u, p)) = Append(Lens(u), n)
  BY SMTT(30), <1>1, <1>2, <1>3, <1>4, <1>5, <1>6
<1>8. Reports(Append(u, p)) = Append(Reports(u), x)
  BY SMTT(30), <1>1, <1>2, <1>3, <1>4, <1>5, <1>6
<1> QED BY <1>1, <1>2, <1>7, <1>8, SumAppend, SumNat DEF x, n

(* What a tail is, element by element                                      *)
LEMMA TailOf ==
  ASSUME NEW s \in Seq(Nat), NEW t \in Seq(Nat), Len(s) \in Nat \ {0},
         Len(t) = Len(s) - 1, \A k \in 1 .. Len(s) - 1 : t[k] = s[k + 1]
  PROVE  t = Tail(s) /\ s # <<>>
BY SMTT(30)

(* The sums over the ring with a packet less                               *)
LEMMA SumsTail ==
  ASSUME NEW u \in Seq(UnfRec), u # <<>>
  PROVE  /\ Sum(Lens(u)) = u[1].n + Sum(Lens(Tail(u)))
         /\ Sum(Reports(u)) = (IF u[1].re THEN 2 ELSE 1) + Sum(Reports(Tail(u)))
         /\ Sum(Lens(Tail(u))) \in Nat /\ Sum(Reports(Tail(u))) \in Nat
         /\ u[1].n \in Nat
<1>1. /\ u[1] \in UnfRec /\ Tail(u) \in Seq(UnfRec) /\ Len(u) \in Nat \ {0}
      /\ Len(Tail(u)) = Len(u) - 1 /\ 1 \in DOMAIN u
      /\ DOMAIN Tail(u) = 1 .. Len(u) - 1 /\ DOMAIN u = 1 .. Len(u)
      /\ \A k \in DOMAIN Tail(u) : k + 1 \in DOMAIN u /\ Tail(u)[k] = u[k + 1]
  BY TailIs
<1>2. Lens(u) \in Seq(Nat) /\ Reports(u) \in Seq(Nat)
        /\ Len(Lens(u)) = Len(u) /\ Len(Reports(u)) = Len(u)
  BY SeqOf
<1>3. /\ Lens(Tail(u)) \in Seq(Nat) /\ Reports(Tail(u)) \in Seq(Nat)
      /\ Len(Lens(Tail(u))) = Len(u) - 1 /\ Len(Reports(Tail(u))) = Len(u) - 1
  BY <1>1, SeqOf
<1>4. \A k \in 1 .. Len(u) - 1 : /\ Lens(Tail(u))[k] = Lens(u)[k + 1]
                                 /\ Reports(Tail(u))[k] = Reports(u)[k + 1]
  BY <1>1 DEF Lens, Reports
<1>5. Lens(Tail(u)) = Tail(Lens(u)) /\ Lens(u) # <<>>
  BY <1>1, <1>2, <1>3, <1>4, TailOf
<1>6. Reports(Tail(u)) = Tail(Reports(u)) /\ Reports(u) # <<>>
  BY <1>1, <1>2, <1>3, <1>4, TailOf
<1>7. Head(Lens(u)) = u[1].n /\ Head(Reports(u)) = IF u[1].re THEN 2 ELSE 1
  BY <1>1, <1>2 DEF Lens, Reports
<1> QED BY <1>1, <1>2, <1>3, <1>5, <1>6, <1>7, SumTail, SumNat, UnfIs

(* The numbers of the completion queue                                     *)
LEMMA CreditTypes ==
  ASSUME AllTypes
  PROVE  /\ Owed \in Nat /\ Load \in Nat /\ Beyond \in {0, 1, 2} /\ nmiss \in Nat
         /\ Owed = Len(complq) + Cardinality(exc) + Cardinality(inflight)
                     + Sum(Reports(unfetched))
         /\ Len(complq) \in Nat /\ Cardinality(exc) \in Nat
         /\ Cardinality(inflight) \in Nat /\ Sum(Reports(unfetched)) \in Nat
         /\ pending \in Int /\ compls \in Int /\ CtrMod \in Nat \ {0}
         /\ ComplqSize \div 2 \in Nat
<1>1. Len(complq) \in Nat
  BY DEF AllTypes, TyCompl
<1>2. Cardinality(exc) \in Nat /\ Cardinality(inflight) \in Nat
  BY FS_CardinalityType DEF AllTypes, TyDev
<1>3. Sum(Reports(unfetched)) \in Nat
  BY SeqOf, SumNat DEF AllTypes, TyUnf
<1>4. Owed = Len(complq) + Cardinality(exc) + Cardinality(inflight) + Sum(Reports(unfetched))
  BY DEF Owed, Reports
<1>5. Owed \in Nat
  BY <1>1, <1>2, <1>3, <1>4
<1>6. ComplqSize \div 2 \in Nat
  BY CounterAssumption
<1>7. Load \in Nat
  BY <1>5 DEF Load
<1> QED BY <1>1, <1>2, <1>3, <1>4, <1>5, <1>6, <1>7, Sizes
        DEF Beyond, AllTypes, TyCtr, TyPkt

(* What the credit is made of are numbers, in the next state, too.         *)
LEMMA CreditTypesNext ==
  ASSUME AllTypes'
  PROVE  Owed' \in Int /\ Load' \in Int /\ nmiss' \in Int /\ Beyond' \in {0, 1, 2}
<1>1. nmiss' \in Int
  BY DEF AllTypes, TyPkt
<1>2. Beyond' \in {0, 1, 2}
  BY DEF Beyond
<1>3. Owed' \in Int
  <2>1. Len(complq') \in Int /\ Cardinality(exc') \in Int /\ Cardinality(inflight') \in Int
    BY FS_CardinalityType DEF AllTypes, TyCompl, TyDev
  <2>2. Sum(Reports(unfetched')) \in Int
    <3> DEFINE u == unfetched'
    <3>1. u \in Seq(UnfRec)
      BY DEF AllTypes, TyUnf
    <3> HIDE DEF u
    <3>2. Sum(Reports(u)) \in Int
      BY <3>1, SeqOf, SumNat
    <3> QED BY <3>2 DEF u
  <2> QED BY <2>1, <2>2 DEF Owed, Reports
<1> QED BY <1>1, <1>2, <1>3 DEF Load

(* A counter that goes on by one                                           *)
LEMMA OneMore ==
  ASSUME NEW c \in 0 .. CtrMod - 1
  PROVE  (c + 1) % CtrMod \in {c + 1, c + 1 - CtrMod}
<1> DEFINE x == c + 1
<1>1. x \in Int /\ CtrMod \in Nat \ {0} /\ 0 <= x /\ x < CtrMod + CtrMod
  BY Sizes
<1> HIDE DEF x
<1>2. x % CtrMod \in {x, x - CtrMod}
  BY <1>1, ModIs
<1> QED BY <1>1, <1>2 DEF x

(* Laps of the counters                                                    *)
LEMMA Wraps == \A q \in Int : /\ q * CtrMod \in Int
                              /\ (q - 1) * CtrMod = q * CtrMod - CtrMod
                              /\ (q + 1) * CtrMod = q * CtrMod + CtrMod
BY Sizes

(* Neither counter moves.                                                  *)
LEMMA CreditKeep ==
  ASSUME AllTypes, AllTypes', CreditInv, pending' = pending, compls' = compls,
         Beyond' >= Beyond,
         \/ nmiss' = nmiss /\ Load' <= Load
         \/ nmiss' = nmiss + 1 /\ Load' <= Load + 1
  PROVE  CreditInv'
<1>1. PICK d \in Int, q \in Int :
        /\ pending - compls = d + q * CtrMod
        /\ d <= (ComplqSize \div 2) + Beyond /\ Load <= d + nmiss
  BY DEF CreditInv
<1>2. Load \in Int /\ nmiss \in Int /\ Beyond \in Int /\ ComplqSize \div 2 \in Int
  BY CreditTypes
<1>3. Load' \in Int /\ nmiss' \in Int /\ Beyond' \in Int
  BY CreditTypesNext
<1>4. d <= (ComplqSize \div 2) + Beyond' /\ Load' <= d + nmiss'
  <2> DEFINE t == ComplqSize \div 2
             b == Beyond
             c == Beyond'
             l == Load
             m == Load'
             n == nmiss
             o == nmiss'
  <2>1. /\ t \in Int /\ b \in Int /\ c \in Int /\ l \in Int /\ m \in Int /\ n \in Int /\ o \in Int
        /\ d \in Int /\ d <= t + b /\ l <= d + n /\ c >= b
        /\ ((o = n /\ m <= l) \/ (o = n + 1 /\ m <= l + 1))
    BY <1>1, <1>2, <1>3
  <2> HIDE DEF t, b, c, l, m, n, o
  <2>2. d <= t + c /\ m <= d + o
    BY <2>1
  <2> QED BY <2>2 DEF t, c, m, o
<1>5. pending' - compls' = d + q * CtrMod
  BY <1>1
<1> QED BY <1>4, <1>5 DEF CreditInv

(* What xmit promises, and what the poll counts, at most once per turn     *)
LEMMA CreditPend ==
  ASSUME AllTypes, CreditInv, pending' = (pending + 1) % CtrMod, compls' = compls,
         Beyond' >= Beyond + 1, Load' <= Load + 1, nmiss' = nmiss, AllTypes'
  PROVE  CreditInv'
<1>1. PICK d \in Int, q \in Int :
        /\ pending - compls = d + q * CtrMod
        /\ d <= (ComplqSize \div 2) + Beyond /\ Load <= d + nmiss
  BY DEF CreditInv
<1>2. Load \in Int /\ nmiss \in Int /\ Beyond \in Int /\ ComplqSize \div 2 \in Int
        /\ pending \in Int /\ compls \in Int /\ CtrMod \in Nat \ {0}
  BY CreditTypes
<1>t. Load' \in Int /\ Beyond' \in Int
  BY CreditTypesNext
<1>3. d + 1 <= (ComplqSize \div 2) + Beyond' /\ Load' <= (d + 1) + nmiss'
  BY <1>1, <1>2, <1>t
<1>4. pending' = pending + 1 \/ pending' = pending + 1 - CtrMod
  BY OneMore DEF AllTypes, TyCtr
<1>5. \E p \in Int : pending' - compls' = (d + 1) + p * CtrMod
  <2>1. CASE pending' = pending + 1
    <3>1. pending' - compls' = (d + 1) + q * CtrMod
      <4> DEFINE w == q * CtrMod
      <4>1. w \in Int /\ pending - compls = d + w
        BY <1>1, Wraps
      <4> HIDE DEF w
      <4>2. pending' - compls' = (d + 1) + w
        BY <4>1, <2>1, <1>2
      <4> QED BY <4>2 DEF w
    <3> QED BY <3>1
  <2>2. CASE pending' = pending + 1 - CtrMod
    <3>1. pending' - compls' = (d + 1) + (q - 1) * CtrMod
      BY <2>2, <1>1, <1>2, Wraps
    <3>2. q - 1 \in Int
      OBVIOUS
    <3> QED BY <3>1, <3>2
  <2> QED BY <2>1, <2>2, <1>4
<1>6. d + 1 \in Int
  OBVIOUS
<1> QED BY <1>3, <1>5, <1>6 DEF CreditInv

(* The poll counts a completion.                                           *)
LEMMA CreditRead ==
  ASSUME AllTypes, CreditInv, compls' = (compls + 1) % CtrMod, pending' = pending,
         Beyond' = Beyond, Load' <= Load - 1, nmiss' = nmiss, AllTypes'
  PROVE  CreditInv'
<1>1. PICK d \in Int, q \in Int :
        /\ pending - compls = d + q * CtrMod
        /\ d <= (ComplqSize \div 2) + Beyond /\ Load <= d + nmiss
  BY DEF CreditInv
<1>2. Load \in Int /\ nmiss \in Int /\ Beyond \in Int /\ ComplqSize \div 2 \in Int
        /\ pending \in Int /\ compls \in Int /\ CtrMod \in Nat \ {0}
  BY CreditTypes
<1>t. Load' \in Int /\ Beyond' \in Int
  BY CreditTypesNext
<1>3. d - 1 <= (ComplqSize \div 2) + Beyond' /\ Load' <= (d - 1) + nmiss'
  BY <1>1, <1>2, <1>t
<1>4. compls' = compls + 1 \/ compls' = compls + 1 - CtrMod
  BY OneMore DEF AllTypes, TyCtr
<1>5. \E p \in Int : pending' - compls' = (d - 1) + p * CtrMod
  <2>1. CASE compls' = compls + 1
    <3>1. pending' - compls' = (d - 1) + q * CtrMod
      <4> DEFINE w == q * CtrMod
      <4>1. w \in Int /\ pending - compls = d + w
        BY <1>1, Wraps
      <4> HIDE DEF w
      <4>2. pending' - compls' = (d - 1) + w
        BY <4>1, <2>1, <1>2
      <4> QED BY <4>2 DEF w
    <3> QED BY <3>1
  <2>2. CASE compls' = compls + 1 - CtrMod
    <3>1. pending' - compls' = (d - 1) + (q + 1) * CtrMod
      <4> DEFINE w == q * CtrMod
                 v == (q + 1) * CtrMod
      <4>1. w \in Int /\ pending - compls = d + w /\ v = w + CtrMod
        BY <1>1, Wraps
      <4> HIDE DEF w, v
      <4>2. pending' - compls' = (d - 1) + v
        BY <4>1, <2>2, <1>2
      <4> QED BY <4>2 DEF v
    <3>2. q + 1 \in Int
      OBVIOUS
    <3> QED BY <3>1, <3>2
  <2> QED BY <2>1, <2>2, <1>4
<1>6. d - 1 \in Int
  OBVIOUS
<1> QED BY <1>3, <1>5, <1>6 DEF CreditInv

(* IDPF_TX_COMPLQ_PENDING under the threshold: what is owed is under it,   *)
(* too, because the counters are wider than the completion queue is long.  *)
LEMMA CreditRenew ==
  ASSUME AllTypes, CreditInv, ComplqOk, pending' = pending, compls' = compls,
         Load' <= Load, nmiss' = nmiss, AllTypes'
  PROVE  CreditInv'
<1>1. PICK d \in Int, q \in Int :
        /\ pending - compls = d + q * CtrMod
        /\ d <= (ComplqSize \div 2) + Beyond /\ Load <= d + nmiss
  BY DEF CreditInv
<1>2. Load \in Int /\ nmiss \in Int /\ Beyond \in {0, 1, 2} /\ ComplqSize \div 2 \in Nat
        /\ pending \in Int /\ compls \in Int /\ CtrMod \in Nat \ {0}
        /\ CtrMod > (ComplqSize \div 2) + 2
  BY CreditTypes, CounterAssumption
<1> DEFINE x == pending - compls
           r == x % CtrMod
           p == x \div CtrMod
<1>3. x = CtrMod * p + r /\ p \in Int /\ r \in 0 .. CtrMod - 1
  <2>1. x \in Int
    BY <1>2
  <2> HIDE DEF x
  <2>2. x = CtrMod * (x \div CtrMod) + (x % CtrMod) /\ x \div CtrMod \in Int
    BY <1>2, <2>1, ModQuot
  <2>3. x % CtrMod \in 0 .. CtrMod - 1
    BY <1>2, <2>1, ModIs
  <2> QED BY <2>2, <2>3
<1>4. r <= ComplqSize \div 2
  BY DEF ComplqOk, Pending
<1>5. x = d + q * CtrMod
  BY <1>1
<1> HIDE DEF x, r, p
<1>6. d <= r
  <2>1. r - d = (q - p) * CtrMod
    BY <1>2, <1>3, <1>5
  <2>2. CASE q - p >= 0
    <3>1. (q - p) * CtrMod >= 0
      BY <2>2, <1>2, <1>3
    <3> QED BY <3>1, <2>1, <1>3
  <2>3. CASE q - p <= -1
    <3> DEFINE e == 0 - (q - p) - 1
    <3>1. e \in Nat /\ q - p = 0 - 1 - e
      BY <2>3, <1>3
    <3> HIDE DEF e
    <3>2. e * CtrMod \in Nat /\ (0 - 1 - e) * CtrMod = 0 - CtrMod - e * CtrMod
      BY <3>1, <1>2
    <3>3. d >= CtrMod
      BY <3>1, <3>2, <2>1, <1>2, <1>3
    <3> QED BY <3>3, <1>1, <1>2
  <2> QED BY <2>2, <2>3, <1>3
<1>7. /\ pending' - compls' = r + p * CtrMod
      /\ r <= (ComplqSize \div 2) + Beyond' /\ Load' <= r + nmiss'
  <2>1. pending' - compls' = r + p * CtrMod
    BY <1>2, <1>3 DEF x
  <2>2. Load' \in Int /\ Beyond' \in {0, 1, 2}
    BY CreditTypesNext
  <2> QED BY <2>1, <2>2, <1>1, <1>2, <1>3, <1>4, <1>6
<1>8. r \in Int
  BY <1>3
<1> QED BY <1>3, <1>7, <1>8 DEF CreditInv

(* What is owed, when the device or the poll does not change it            *)
LEMMA OwedSame ==
  UNCHANGED <<complq, exc, inflight, unfetched>> => Owed' = Owed
BY DEF Owed

(* xmit before the last buffer counts no more than it promised.            *)
LEMMA CreditXmit ==
  ASSUME AllTypes, AllTypes', CreditInv,
         \/ \E s \in Shapes, c \in Ctx, mr \in BOOLEAN : XmitStart(s, c, mr)
         \/ \E mr \in BOOLEAN : XmitRefuse(mr)
         \/ XmitStop \/ XmitRecheck \/ XmitFault \/ XmitFrag
         \/ \E st \in Stamps : XmitFirst(st)
  PROVE  CreditInv'
<1>1. UNCHANGED <<complq, exc, inflight, unfetched, compls, nmiss, npc>>
  BY DEF XmitStart, XmitRefuse, XmitStop, XmitRecheck, XmitFault, XmitFrag, XmitFirst,
         devVars, histVars, napiVars
<1>2. Owed' = Owed
  BY <1>1, OwedSame
<1>t. Owed \in Nat /\ Load \in Nat /\ nmiss \in Nat /\ xm.re \in BOOLEAN
  BY CreditTypes, XmIs DEF AllTypes, TyXm
<1>r. ASSUME ComplqOk, pending' = pending, xpc # "map", xpc' = "first"
      PROVE  CreditInv'
  <2>1. Load' <= Load
    BY <1>1, <1>2, <1>r, <1>t DEF Load
  <2> QED BY <2>1, <1>1, <1>r, CreditRenew
<1>k. ASSUME pending' = pending, Beyond' >= Beyond, Load' <= Load
      PROVE  CreditInv'
  BY <1>1, <1>k, <1>t, CreditTypesNext, CreditKeep
<1>3. ASSUME NEW s \in Shapes, NEW c \in Ctx, NEW mr \in BOOLEAN, XmitStart(s, c, mr)
      PROVE  CreditInv'
  <2>1. xpc = "idle" /\ pending' = pending
    BY <1>3 DEF XmitStart
  <2>2. CASE HasRoom(xm')
    BY <1>3, <1>r, <2>1, <2>2 DEF XmitStart, HasRoom
  <2>3. CASE ~ HasRoom(xm')
    <3>1. xpc' = "stop"
      BY <1>3, <2>3 DEF XmitStart
    <3> QED BY <1>1, <1>2, <1>k, <1>t, <2>1, <3>1 DEF Beyond, Load
  <2> QED BY <2>2, <2>3
<1>4. ASSUME (\E mr \in BOOLEAN : XmitRefuse(mr)) \/ XmitStop
      PROVE  CreditInv'
  <2>1. /\ pending' = pending
        /\ \/ xpc' = xpc /\ xm' = xm
           \/ xpc \notin {"first", "map"} /\ xpc' \notin {"first", "map"}
    BY <1>4 DEF XmitRefuse, XmitStop, xmitVars
  <2> QED BY <1>1, <1>2, <1>k, <1>t, <2>1 DEF Beyond, Load
<1>5. ASSUME XmitRecheck
      PROVE  CreditInv'
  <2>1. xpc = "recheck" /\ pending' = pending
    BY <1>5 DEF XmitRecheck
  <2>2. CASE HasRoom(xm)
    BY <1>5, <1>r, <2>1, <2>2 DEF XmitRecheck, HasRoom
  <2>3. CASE ~ HasRoom(xm)
    <3>1. xpc' = "idle"
      BY <1>5, <2>3 DEF XmitRecheck
    <3> QED BY <1>1, <1>2, <1>k, <1>t, <2>1, <3>1 DEF Beyond, Load
  <2> QED BY <2>2, <2>3
<1>6. ASSUME XmitFault
      PROVE  CreditInv'
  <2>1. pending' = pending /\ xpc' = "idle"
    BY <1>6 DEF XmitFault, Rollback
  <2> QED BY <1>1, <1>2, <1>k, <1>t, <2>1 DEF Beyond, Load
<1>7. ASSUME XmitFrag
      PROVE  CreditInv'
  <2>1. xm \in XmRec
    BY DEF AllTypes, TyXm
  <2>2. pending' = pending /\ xpc' = xpc /\ xm'.re = xm.re
    BY <1>7, <2>1 DEF XmitFrag, XmRec
  <2> QED BY <1>1, <1>2, <1>k, <1>t, <2>2 DEF Beyond, Load
<1>8. ASSUME NEW st \in Stamps, XmitFirst(st)
      PROVE  CreditInv'
  <2> DEFINE re == NeedRe(Bump(ntu, xm.ctx + st))
  <2>1. xm \in XmRec
    BY DEF AllTypes, TyXm
  <2>2. /\ pending' = IF re THEN (pending + 1) % CtrMod ELSE pending
        /\ xpc = "first" /\ xpc' = "map" /\ xm'.re = re
    BY <1>8, <2>1 DEF XmitFirst, XmRec
  <2> HIDE DEF re
  <2>3. CASE re
    <3>1. Beyond = 0 /\ Beyond' = 1 /\ Load' = Load + 1
      BY <1>1, <1>2, <1>t, <2>2, <2>3 DEF Beyond, Load
    <3> QED BY <3>1, <1>1, <1>t, <2>2, <2>3, CreditPend
  <2>4. CASE ~ re
    <3>1. Beyond = 0 /\ Beyond' = 0 /\ Load' = Load
      BY <1>1, <1>2, <1>t, <2>2, <2>4 DEF Beyond, Load
    <3> QED BY <3>1, <1>k, <1>t, <2>2, <2>4
  <2> QED BY <2>3, <2>4
<1> QED BY <1>3, <1>4, <1>5, <1>6, <1>7, <1>8

(* The packet is owed now: an RS, and an RE that had been promised before  *)
LEMMA CreditXmitLast ==
  ASSUME AllTypes, AllTypes', CreditInv, XmitLast
  PROVE  CreditInv'
<1> DEFINE p == [pkt |-> xm.pkt, tag |-> xm.first, end |-> Bump(Bump(xm.i, xm.shape[xm.k] - 1), 1),
                 n |-> xm.ctx + xm.st + Sum(xm.shape), re |-> xm.re]
<1>1. /\ xpc = "map" /\ unfetched' = Append(unfetched, p) /\ xpc' = "idle"
      /\ pending' = (pending + 1) % CtrMod
      /\ UNCHANGED <<inflight, complq, exc, nmiss, compls, npc>>
  BY DEF XmitLast, histVars, napiVars
<1>2. unfetched \in Seq(UnfRec) /\ p \in UnfRec /\ p.re = xm.re /\ xm.re \in BOOLEAN
  <2>1. unfetched' \in Seq(UnfRec) /\ unfetched \in Seq(UnfRec)
    BY DEF AllTypes, TyUnf
  <2>2. xm.re \in BOOLEAN /\ p.re = xm.re
    BY XmIs DEF AllTypes, TyXm
  <2> HIDE DEF p
  <2>3. Len(unfetched) + 1 \in DOMAIN unfetched' /\ unfetched'[Len(unfetched) + 1] = p
    BY <2>1, <1>1, AppendIs
  <2> QED BY <2>1, <2>2, <2>3
<1> HIDE DEF p
<1>3. Sum(Reports(unfetched')) = Sum(Reports(unfetched)) + IF xm.re THEN 2 ELSE 1
  BY <1>1, <1>2, SumsAppend
<1>4. /\ Owed = Len(complq) + Cardinality(exc) + Cardinality(inflight) + Sum(Reports(unfetched))
      /\ Len(complq) \in Nat /\ Cardinality(exc) \in Nat
      /\ Cardinality(inflight) \in Nat /\ Sum(Reports(unfetched)) \in Nat
      /\ Owed \in Nat /\ Load \in Nat
  BY CreditTypes
<1>5. Owed' = Len(complq') + Cardinality(exc') + Cardinality(inflight') + Sum(Reports(unfetched'))
  BY DEF Owed, Reports
<1>6. Owed' = Owed + IF xm.re THEN 2 ELSE 1
  BY <1>1, <1>3, <1>4, <1>5
<1>7. Beyond' >= Beyond + 1 /\ Load' <= Load + 1
  <2>1. CASE xm.re
    <3>1. Owed' = Owed + 2 /\ Owed \in Nat
      BY <2>1, <1>4, <1>6
    <3> QED BY <3>1, <2>1, <1>1 DEF Beyond, Load
  <2>2. CASE ~ xm.re
    <3>1. Owed' = Owed + 1 /\ Owed \in Nat
      BY <2>2, <1>4, <1>6
    <3> QED BY <3>1, <2>2, <1>1 DEF Beyond, Load
  <2> QED BY <2>1, <2>2
<1> QED BY <1>1, <1>7, CreditPend

(* What is left in the completion queue after one is read                  *)
LEMMA CreditNapi ==
  ASSUME AllTypes, AllTypes', CreditInv, NapiCompl \/ NapiChain
  PROVE  CreditInv'
<1>1. UNCHANGED <<exc, inflight, unfetched, pending, nmiss, xpc, xm>>
  BY DEF NapiCompl, NapiChain, devVars, xmitVars, histVars
<1>t. /\ Owed = Len(complq) + Cardinality(exc) + Cardinality(inflight) + Sum(Reports(unfetched))
      /\ Len(complq) \in Nat /\ Cardinality(exc) \in Nat
      /\ Cardinality(inflight) \in Nat /\ Sum(Reports(unfetched)) \in Nat
      /\ Owed \in Nat /\ Load \in Nat /\ nmiss \in Nat
  BY CreditTypes
<1>u. Owed' = Len(complq') + Cardinality(exc') + Cardinality(inflight') + Sum(Reports(unfetched'))
  BY DEF Owed, Reports
<1>b. Beyond' = Beyond /\ Beyond \in {0, 1, 2}
  BY <1>1 DEF Beyond
<1>n. ASSUME compls' = (compls + 1) % CtrMod, Load' = Load - 1
      PROVE  CreditInv'
  BY <1>1, <1>t, <1>b, <1>n, CreditRead
<1>k. ASSUME compls' = compls, Load' = Load
      PROVE  CreditInv'
  BY <1>1, <1>t, <1>b, <1>k, CreditKeep
<1>2. ASSUME NapiCompl
      PROVE  CreditInv'
  <2>1. complq # <<>> /\ complq' = Tail(complq) /\ npc # "chain"
    BY <1>2 DEF NapiCompl
  <2>2. Len(complq') = Len(complq) - 1
    <3>1. complq \in Seq(ComplRec)
      BY DEF AllTypes, TyCompl
    <3> QED BY <3>1, <2>1, TailIs
  <2>3. Owed' = Owed - 1
    BY SMTT(30), <1>1, <1>t, <1>u, <2>2
  <2>4. (\E t : CleanBufs(t)) \/ NextCompl
    BY <1>2 DEF NapiCompl, NapiRe, NapiRs, NapiMiss, NapiReinject
  <2>5. CASE \E t : CleanBufs(t)
    <3>1. npc' = "chain" /\ compls' = compls
      BY <2>5 DEF CleanBufs
    <3>2. Load' = Load
      BY <3>1, <2>1, <2>3, <1>1, <1>t DEF Load
    <3> QED BY <3>1, <3>2, <1>k
  <2>6. CASE NextCompl
    <3>1. npc' = "loop" /\ compls' = (compls + 1) % CtrMod
      BY <2>6 DEF NextCompl
    <3>2. Load' = Load - 1
      BY SMTT(30), <3>1, <2>1, <2>3, <1>1, <1>t DEF Load
    <3> QED BY <3>1, <3>2, <1>n
  <2> QED BY <2>4, <2>5, <2>6
<1>3. ASSUME NapiChain
      PROVE  CreditInv'
  <2>1. /\ npc = "chain" /\ complq' = complq
        /\ \/ compls' = (compls + 1) % CtrMod /\ npc' = "loop"
           \/ compls' = compls /\ npc' = npc
    BY <1>3 DEF NapiChain
  <2>2. Owed' = Owed
    BY <1>1, <2>1, OwedSame
  <2>3. CASE compls' = (compls + 1) % CtrMod /\ npc' = "loop"
    <3>1. Load' = Load - 1
      BY <2>1, <2>2, <2>3, <1>1, <1>t DEF Load
    <3> QED BY <3>1, <2>3, <1>n
  <2>4. CASE compls' = compls /\ npc' = npc
    <3>1. Load' = Load
      BY <2>1, <2>2, <2>4, <1>1, <1>t DEF Load
    <3> QED BY <3>1, <2>4, <1>k
  <2> QED BY <2>1, <2>3, <2>4
<1> QED BY <1>2, <1>3

(* The size of a set with one element more                                 *)
LEMMA OneElement ==
  ASSUME NEW S, IsFiniteSet(S), NEW x
  PROVE  /\ Cardinality(S \cup {x}) <= Cardinality(S) + 1
         /\ Cardinality(S \cup {x}) \in Nat /\ Cardinality(S) \in Nat
<1>1. /\ IsFiniteSet(S \cup {x})
      /\ Cardinality(S \cup {x}) = Cardinality(S) \/ Cardinality(S \cup {x}) = Cardinality(S) + 1
  BY FS_AddElement
<1>2. Cardinality(S) \in Nat /\ Cardinality(S \cup {x}) \in Nat
  BY <1>1, FS_CardinalityType
<1> QED BY <1>1, <1>2

(* Every completion the device writes was owed before.                     *)
LEMMA CreditDevice ==
  ASSUME AllTypes, AllTypes', PathInv, CreditInv,
         \/ HwFetch
         \/ \E p \in inflight : HwDone(p)
         \/ \E p \in inflight, ty \in {"MISS", "REINJECT"} : HwMiss(p, ty)
         \/ \E c \in exc : HwExc(c)
  PROVE  CreditInv'
<1>1. UNCHANGED <<pending, compls, npc, xpc, xm>>
  BY DEF HwFetch, HwDone, HwMiss, HwExc, driverVars, xmitVars, napiVars
<1>t. /\ Owed = Len(complq) + Cardinality(exc) + Cardinality(inflight) + Sum(Reports(unfetched))
      /\ Len(complq) \in Nat /\ Cardinality(exc) \in Nat
      /\ Cardinality(inflight) \in Nat /\ Sum(Reports(unfetched)) \in Nat
      /\ Owed \in Nat /\ Load \in Nat /\ nmiss \in Nat
      /\ complq \in Seq(ComplRec) /\ unfetched \in Seq(UnfRec)
      /\ IsFiniteSet(exc) /\ IsFiniteSet(inflight)
  BY CreditTypes DEF AllTypes, TyCompl, TyUnf, TyDev
<1>o. /\ Owed = Len(complq) + Cardinality(exc) + Cardinality(inflight) + Sum(Reports(unfetched))
      /\ Len(complq) \in Nat /\ Cardinality(exc) \in Nat
      /\ Cardinality(inflight) \in Nat /\ Sum(Reports(unfetched)) \in Nat
  BY <1>t
<1>u. Owed' = Len(complq') + Cardinality(exc') + Cardinality(inflight') + Sum(Reports(unfetched'))
  BY DEF Owed, Reports
<1>c. \A c : Len(Append(complq, c)) = Len(complq) + 1
  BY <1>t, AppendIs
<1>k. ASSUME \/ nmiss' = nmiss /\ Owed' <= Owed
             \/ nmiss' = nmiss + 1 /\ Owed' <= Owed + 1
      PROVE  CreditInv'
  <2>1. Beyond' = Beyond /\ Beyond \in {0, 1, 2}
    BY <1>1 DEF Beyond
  <2>2. nmiss' \in Int /\ Owed' \in Int /\ Load' \in Int
    BY CreditTypesNext
  <2> DEFINE a == (IF xpc = "map" /\ xm.re THEN 1 ELSE 0) + (IF npc = "chain" THEN 1 ELSE 0)
  <2>a. a \in Int /\ Owed \in Nat
    BY <1>t
  <2>3. Load = Owed + a /\ Load' = Owed' + a /\ a \in Int
    <3>1. Load = Owed + a
      BY <2>a DEF Load
    <3>2. Load' = Owed' + a
      BY <2>2, <1>1 DEF Load
    <3> QED BY <2>a, <3>1, <3>2
  <2> HIDE DEF a
  <2>4. CASE nmiss' = nmiss /\ Owed' <= Owed
    <3>1. Load' <= Load
      BY <2>2, <2>3, <2>4, <1>t
    <3> QED BY <3>1, <2>1, <2>4, <1>1, CreditKeep
  <2>5. CASE nmiss' = nmiss + 1 /\ Owed' <= Owed + 1
    <3>1. Load' <= Load + 1
      BY SMTT(30), <2>2, <2>3, <2>5, <1>t
    <3> QED BY <3>1, <2>1, <2>5, <1>1, CreditKeep
  <2> QED BY <2>4, <2>5, <1>k
<1>2. ASSUME HwFetch
      PROVE  CreditInv'
  <2> DEFINE p == unfetched[1]
             q == [pkt |-> p.pkt, tag |-> p.tag]
             c == [type |-> "RE", tag |-> p.tag, head |-> p.end]
  <2>1. unfetched # <<>> /\ Head(unfetched) = p /\ p.re \in BOOLEAN
    BY <1>2, SomeUnfetched, UnfIs DEF HwFetch
  <2>2. /\ unfetched' = Tail(unfetched) /\ inflight' = inflight \cup {q}
        /\ complq' = IF p.re THEN Append(complq, c) ELSE complq
        /\ exc' = exc /\ nmiss' = nmiss
    BY <1>2, <2>1 DEF HwFetch
  <2>3. /\ Sum(Reports(unfetched)) = (IF p.re THEN 2 ELSE 1) + Sum(Reports(Tail(unfetched)))
        /\ Sum(Reports(Tail(unfetched))) \in Nat
    BY <2>1, <1>t, SumsTail
  <2> HIDE DEF p, q, c
  <2>4. Cardinality(inflight') <= Cardinality(inflight) + 1 /\ Cardinality(inflight') \in Nat
    BY <2>2, <1>t, OneElement
  <2>5. CASE p.re
    <3>1. Len(complq') = Len(complq) + 1
      BY <2>2, <2>5, <1>c
    <3>2. /\ Sum(Reports(unfetched)) = 2 + Sum(Reports(unfetched'))
          /\ Sum(Reports(unfetched')) \in Nat /\ Cardinality(exc') = Cardinality(exc)
      BY <2>2, <2>3, <2>5
    <3>3. Owed' <= Owed
      BY SMTT(30), <3>1, <3>2, <2>4, <1>o, <1>u
    <3> QED BY <3>3, <2>2, <1>k
  <2>6. CASE ~ p.re
    <3>1. Len(complq') = Len(complq)
      BY <2>2, <2>6
    <3>2. /\ Sum(Reports(unfetched)) = 1 + Sum(Reports(unfetched'))
          /\ Sum(Reports(unfetched')) \in Nat /\ Cardinality(exc') = Cardinality(exc)
      BY <2>2, <2>3, <2>6
    <3>3. Owed' <= Owed
      BY <3>1, <3>2, <2>4, <1>o, <1>u
    <3> QED BY <3>3, <2>2, <1>k
  <2> QED BY <2>1, <2>5, <2>6
<1>3. ASSUME NEW p \in inflight, HwDone(p)
      PROVE  CreditInv'
  <2>1. /\ inflight' = inflight \ {p} /\ complq' = Append(complq, Compl("RS", p.tag))
        /\ exc' = exc /\ unfetched' = unfetched /\ nmiss' = nmiss
    BY <1>3 DEF HwDone
  <2>2. Cardinality(inflight') = Cardinality(inflight) - 1 /\ Len(complq') = Len(complq) + 1
    BY <2>1, <1>c, <1>t, FS_RemoveElement
  <2> QED BY <2>1, <2>2, <1>k, <1>t, <1>u
<1>4. ASSUME NEW p \in inflight, NEW ty \in {"MISS", "REINJECT"}, HwMiss(p, ty)
      PROVE  CreditInv'
  <2> DEFINE e == Compl(IF ty = "MISS" THEN "REINJECT" ELSE "MISS", p.tag)
  <2>1. /\ inflight' = inflight \ {p} /\ complq' = Append(complq, Compl(ty, p.tag))
        /\ exc' = exc \cup {e} /\ unfetched' = unfetched /\ nmiss' = nmiss + 1
    BY <1>4 DEF HwMiss
  <2> HIDE DEF e
  <2>2. Cardinality(inflight') = Cardinality(inflight) - 1 /\ Len(complq') = Len(complq) + 1
    BY <2>1, <1>c, <1>t, FS_RemoveElement
  <2>3. Cardinality(exc') <= Cardinality(exc) + 1 /\ Cardinality(exc') \in Nat
    BY <2>1, <1>t, OneElement
  <2>4. Sum(Reports(unfetched')) = Sum(Reports(unfetched))
    BY <2>1
  <2>5. Owed' <= Owed + 1
    BY SMTT(30), <2>2, <2>3, <2>4, <1>o, <1>u
  <2> QED BY <2>1, <2>5, <1>k
<1>5. ASSUME NEW c \in exc, HwExc(c)
      PROVE  CreditInv'
  <2>1. /\ exc' = exc \ {c} /\ complq' = Append(complq, c)
        /\ inflight' = inflight /\ unfetched' = unfetched /\ nmiss' = nmiss
    BY <1>5 DEF HwExc
  <2>2. Cardinality(exc') = Cardinality(exc) - 1 /\ Len(complq') = Len(complq) + 1
    BY <2>1, <1>c, <1>t, FS_RemoveElement
  <2> QED BY <2>1, <2>2, <1>k, <1>t, <1>u
<1> QED BY <1>2, <1>3, <1>4, <1>5

(* The other steps are not about completions.                              *)
LEMMA CreditQuiet ==
  ASSUME AllTypes, AllTypes', CreditInv,
         UNCHANGED <<complq, exc, inflight, unfetched, pending, compls, nmiss, xpc, xm>>,
         (npc' = "chain") <=> (npc = "chain")
  PROVE  CreditInv'
<1>1. Owed' = Owed
  BY OwedSame
<1>2. Load' = Load /\ Beyond' = Beyond
  BY <1>1 DEF Load, Beyond
<1> QED BY <1>2, CreditTypes, CreditKeep

(* Every step keeps the credit.                                            *)
LEMMA CreditNext ==
  ASSUME AllTypes, AllTypes', PathInv, CreditInv, [Next]_vars
  PROVE  CreditInv'
<1>1. ASSUME NapiOut \/ NapiWake \/ (\E t \in Tag : TimerExpire(t)) \/ UNCHANGED vars
      PROVE  CreditInv'
  <2>1. /\ UNCHANGED <<complq, exc, inflight, unfetched, pending, compls, nmiss, xpc, xm>>
        /\ (npc' = "chain") <=> (npc = "chain")
    BY <1>1 DEF NapiOut, NapiWake, TimerExpire, vars, devVars, histVars, xmitVars, napiVars
  <2> QED BY <2>1, CreditQuiet
<1> QED BY <1>1, CreditXmit, CreditXmitLast, CreditNapi, CreditDevice, NextIs DEF Steps

(* At first nothing is owed.                                               *)
LEMMA CreditInit == Init => AllTypes /\ CreditInv
<1> SUFFICES ASSUME Init PROVE AllTypes /\ CreditInv
  OBVIOUS
<1>1. AllTypes
  BY TypesInit, TypesAre
<1>2. /\ complq = <<>> /\ exc = {} /\ inflight = {} /\ unfetched = <<>> /\ xpc = "idle"
      /\ npc = "idle" /\ pending = 0 /\ compls = 0 /\ nmiss = 0
  BY DEF Init
<1>3. /\ Owed = Len(complq) + Cardinality(exc) + Cardinality(inflight) + Sum(Reports(unfetched))
      /\ ComplqSize \div 2 \in Nat /\ CtrMod \in Nat
  BY <1>1, CreditTypes
<1>4. Len(complq) = 0 /\ Cardinality(exc) = 0 /\ Cardinality(inflight) = 0
  BY <1>2, FS_EmptySet
<1>5. Sum(Reports(unfetched)) = 0
  <2>1. Reports(unfetched) \in Seq(Nat) /\ Len(Reports(unfetched)) = Len(unfetched)
    BY <1>1, SeqOf DEF AllTypes, TyUnf
  <2>2. Len(Reports(unfetched)) = 0
    BY <2>1, <1>2
  <2> QED BY <2>1, <2>2, UptoIs DEF Sum
<1>6. Load = 0 /\ Beyond = 2
  BY <1>2, <1>3, <1>4, <1>5 DEF Load, Beyond
<1>7. 0 * CtrMod = 0
  BY <1>3
<1>8. /\ pending - compls = 0 + 0 * CtrMod
      /\ 0 <= (ComplqSize \div 2) + Beyond /\ Load <= 0 + nmiss
  BY <1>2, <1>3, <1>6, <1>7
<1> QED BY <1>1, <1>8 DEF CreditInv

(* The completion queue has room for all that is owed to it, whatever the  *)
(* width of the counters and however long idpf_tx_clean_complq stays away. *)
THEOREM SpecComplqFits == Spec => [](TypeOK /\ ComplqFits)
<1>1. Init => CreditInv
  BY CreditInit
<1>2. AllTypes /\ PathInv /\ AllTypes' /\ CreditInv /\ [Next]_vars => CreditInv'
  BY CreditNext
<1>3. AllTypes /\ CreditInv => TypeOK /\ ComplqFits
  <2> SUFFICES ASSUME AllTypes, CreditInv PROVE TypeOK /\ ComplqFits
    OBVIOUS
  <2>1. PICK d \in Int : d <= (ComplqSize \div 2) + Beyond /\ Load <= d + nmiss
    BY DEF CreditInv
  <2>2. /\ Owed \in Nat /\ Load \in Nat /\ Beyond \in {0, 1, 2} /\ nmiss \in Nat
        /\ ComplqSize \div 2 \in Nat
    BY CreditTypes
  <2>3. Owed <= Load
    BY <2>2 DEF Load
  <2>4. Owed <= (ComplqSize \div 2) + 2 + nmiss
    BY <2>1, <2>2, <2>3
  <2> QED BY <2>4, TypesAre DEF ComplqFits, Types
<1> QED BY <1>1, <1>2, <1>3, SpecTypes, PTL DEF Spec

-----------------------------------------------------------------------------
(***************************************************************************)
(* The descriptor ring                                                     *)
(***************************************************************************)

(* Remainders by the size of the ring may be taken before an addition.     *)
LEMMA RingPlus ==
  \A x, y \in Int : ((x % RingSize) + y) % RingSize = (x + y) % RingSize
BY Sizes, ModPlus

(* The packet under construction is written one buffer after the other.    *)
LEMMA SpotXmitFirst ==
  ASSUME AllTypes, NEW st \in Stamps, XmitFirst(st)
  PROVE  SpotInv'
<1>1. xm \in XmRec /\ xm.shape \in Seq(Nat) /\ xm.ctx \in Nat /\ st \in Nat /\ ntu \in Int
  BY XmIs, PacketAssumption, Sizes DEF AllTypes, TyXm, TyRing, Idx
<1>2. /\ xm'.i = Bump(ntu, xm.ctx + st) /\ xm'.ntu = ntu /\ xm'.ctx = xm.ctx
      /\ xm'.st = st /\ xm'.shape = xm.shape /\ xm'.k = 1
  BY <1>1 DEF XmitFirst, XmRec
<1>3. Upto(xm'.shape)[xm'.k - 1] = 0
  BY <1>1, <1>2, UptoIs
<1>4. xm'.ntu + xm'.ctx + xm'.st + 0 = ntu + (xm.ctx + st)
  BY <1>1, <1>2
<1> QED BY <1>2, <1>3, <1>4 DEF SpotInv, Bump

(* A buffer is written behind the one before it.                           *)
LEMMA SpotXmitFrag ==
  ASSUME AllTypes, SpotInv, XmitFrag
  PROVE  SpotInv'
<1> DEFINE k == xm.k
           a == xm.ntu + xm.ctx + xm.st
           u == Upto(xm.shape)
<1>1. /\ xm \in XmRec /\ xm.shape \in Seq(Nat) /\ xpc = "map" /\ k \in 1 .. Len(xm.shape)
      /\ a \in Int /\ k < Len(xm.shape)
  <2>1. xm.ntu \in Int /\ xm.ctx \in Int /\ xm.st \in Int
    BY XmIs DEF AllTypes, TyXm, Idx
  <2> QED BY <2>1, XmIs DEF AllTypes, TyXm, XmitFrag
<1>2. /\ xm'.i = Bump(xm.i, xm.shape[k]) /\ xm'.ntu = xm.ntu /\ xm'.ctx = xm.ctx
      /\ xm'.st = xm.st /\ xm'.shape = xm.shape /\ xm'.k = k + 1
  BY <1>1 DEF XmitFrag, XmRec
<1>3. u[k] = u[k - 1] + xm.shape[k] /\ u[k - 1] \in Nat /\ xm.shape[k] \in Nat
  <2>1. k - 1 \in 0 .. Len(xm.shape) /\ k \in 1 .. Len(xm.shape)
    BY <1>1
  <2>2. Upto(xm.shape)[k - 1] \in Nat /\ xm.shape[k] \in Nat
    BY SMTT(30), <2>1, <1>1, UptoNat
  <2>3. Upto(xm.shape)[k] = Upto(xm.shape)[k - 1] + xm.shape[k]
    BY <2>1, <1>1, UptoIs
  <2> QED BY <2>2, <2>3
<1>4. xm.i = (a + u[k - 1]) % RingSize
  BY <1>1 DEF SpotInv
<1>5. (xm'.k) - 1 = k
  BY <1>1, <1>2
<1> HIDE DEF a, u
<1>6. xm'.i = ((a + u[k - 1]) + xm.shape[k]) % RingSize
  <2> DEFINE b == a + u[k - 1]
             s == xm.shape[k]
  <2>1. b \in Int /\ s \in Int /\ xm.i = b % RingSize /\ xm'.i = Bump(xm.i, s)
    BY SMTT(30), <1>1, <1>2, <1>3, <1>4
  <2> HIDE DEF b, s
  <2>2. xm'.i = (b + s) % RingSize
    BY <2>1, RingPlus DEF Bump
  <2> QED BY <2>2 DEF b, s
<1>7. (a + u[k - 1]) + xm.shape[k] = a + u[k]
  BY SMTT(30), <1>1, <1>3
<1> QED BY <1>2, <1>5, <1>6, <1>7 DEF SpotInv, a, u

(* Every step keeps the place of the packet under construction.            *)
LEMMA SpotNext ==
  ASSUME AllTypes, SpotInv, [Next]_vars
  PROVE  SpotInv'
<1>1. CASE UNCHANGED xmitVars
  BY <1>1 DEF SpotInv, xmitVars
<1>2. CASE xpc' # "map"
  BY <1>2 DEF SpotInv
<1>3. \/ UNCHANGED xmitVars \/ xpc' # "map"
      \/ XmitFrag \/ \E st \in Stamps : XmitFirst(st)
  <2>1. CASE UNCHANGED vars
    BY <2>1 DEF vars
  <2>2. CASE Next
    BY <2>2, NextIs DEF Steps, XmitStart, XmitRefuse, XmitStop, XmitRecheck, XmitFault, Rollback,
                        XmitLast, NapiCompl, NapiChain, NapiOut, NapiWake, TimerExpire, HwFetch,
                        HwDone, HwMiss, HwExc, driverVars
  <2> QED BY <2>1, <2>2
<1> QED BY <1>1, <1>2, <1>3, SpotXmitFirst, SpotXmitFrag

(* Where the packet ends that is handed to the device                      *)
LEMMA LastEnd ==
  ASSUME AllTypes, SpotInv, XmitLast
  PROVE  LET n == xm.ctx + xm.st + Sum(xm.shape)
         IN  /\ n \in Nat
             /\ Bump(Bump(xm.i, xm.shape[xm.k] - 1), 1) = (Base + n) % RingSize
<1> DEFINE k == xm.k
           a == xm.ntu + xm.ctx + xm.st
           u == Upto(xm.shape)
           n == xm.ctx + xm.st + Sum(xm.shape)
<1>1. /\ xm.shape \in Seq(Nat) /\ xpc = "map" /\ k \in 1 .. Len(xm.shape) /\ k = Len(xm.shape)
      /\ xm.ntu \in Int /\ xm.ctx \in Nat /\ xm.st \in Nat
  <2>1. xm.ntu \in Int /\ xm.ctx \in Nat /\ xm.st \in Nat
    BY XmIs DEF AllTypes, TyXm, Idx
  <2> QED BY <2>1, XmIs DEF AllTypes, TyXm, XmitLast
<1>2. u[k] = u[k - 1] + xm.shape[k] /\ u[k - 1] \in Nat /\ xm.shape[k] \in Nat
  <2>1. k - 1 \in 0 .. Len(xm.shape) /\ k \in 1 .. Len(xm.shape)
    BY <1>1
  <2>2. Upto(xm.shape)[k - 1] \in Nat /\ xm.shape[k] \in Nat
    BY <2>1, <1>1, UptoNat
  <2>3. Upto(xm.shape)[k] = Upto(xm.shape)[k - 1] + xm.shape[k]
    BY <2>1, <1>1, UptoIs
  <2> QED BY <2>2, <2>3
<1>3. Sum(xm.shape) = u[k] /\ Base = xm.ntu
  BY <1>1 DEF Sum, Base
<1>4. xm.i = (a + u[k - 1]) % RingSize
  BY <1>1 DEF SpotInv
<1>5. n \in Nat /\ a \in Int /\ a + u[k] = Base + n
  <2> DEFINE z == u[k]
             v == Sum(xm.shape)
  <2>1. z \in Nat /\ v = z /\ Base = xm.ntu
    BY <1>2, <1>3
  <2> HIDE DEF z, v, u
  <2>2. n \in Nat /\ a \in Int /\ a + z = Base + n
    BY SMTT(30), <2>1, <1>1 DEF v
  <2> QED BY <2>2 DEF z
<1> HIDE DEF a, u, n
<1> DEFINE s == xm.shape[k]
           b == a + u[k - 1]
<1>6. b \in Int /\ s - 1 \in Int /\ b + (s - 1) \in Int /\ (b + (s - 1)) + 1 = a + u[k]
  BY <1>2, <1>5
<1>7. Bump(xm.i, s - 1) = (b + (s - 1)) % RingSize
  BY <1>4, <1>6, RingPlus DEF Bump
<1>8. Bump(Bump(xm.i, s - 1), 1) = ((b + (s - 1)) + 1) % RingSize
  <2> HIDE DEF b, s
  <2> QED BY <1>6, <1>7, RingPlus DEF Bump
<1> QED BY <1>5, <1>6, <1>8 DEF n

(* A step that leaves the ring alone                                       *)
LEMMA LineSame ==
  ASSUME LineInv, head' = head, unfetched' = unfetched, Base' = Base
  PROVE  LineInv'
BY DEF LineInv, Lag, Start

(* A packet is put where the one before it ends.                           *)
LEMMA LineXmitLast ==
  ASSUME AllTypes, AllTypes', PathInv, LineInv, SpotInv, XmitLast
  PROVE  LineInv'
<1> DEFINE e == Bump(Bump(xm.i, xm.shape[xm.k] - 1), 1)
           n == xm.ctx + xm.st + Sum(xm.shape)
           p == [pkt |-> xm.pkt, tag |-> xm.first, end |-> e, n |-> n, re |-> xm.re]
<1>1. /\ unfetched' = Append(unfetched, p) /\ ntu' = e /\ head' = head /\ xpc' = "idle"
  BY DEF XmitLast
<1>2. n \in Nat /\ e = (Base + n) % RingSize /\ p.n = n /\ p.end = e
  BY LastEnd
<1> HIDE DEF e, n, p
<1>3. unfetched \in Seq(UnfRec) /\ p \in UnfRec
  <2>1. unfetched' \in Seq(UnfRec) /\ unfetched \in Seq(UnfRec)
    BY DEF AllTypes, TyUnf
  <2>2. Len(unfetched) + 1 \in DOMAIN unfetched' /\ unfetched'[Len(unfetched) + 1] = p
    BY <2>1, <1>1, AppendIs
  <2> QED BY <2>1, <2>2
<1>4. /\ DOMAIN unfetched' = DOMAIN unfetched \cup {Len(unfetched) + 1}
      /\ unfetched'[Len(unfetched) + 1] = p
      /\ \A k \in DOMAIN unfetched : unfetched'[k] = unfetched[k]
      /\ DOMAIN unfetched = 1 .. Len(unfetched) /\ Len(unfetched) \in Nat
  BY <1>1, <1>3, AppendIs
<1>5. Base' = e
  BY <1>1 DEF Base
<1>6. head \in Int /\ Lag \in Nat /\ Lag' = Lag + n
  <2>1. head \in Int
    BY DEF AllTypes, TyRing, Idx
  <2>2. Lag \in Nat /\ Sum(Lens(Append(unfetched, p))) = Lag + p.n
    BY <1>3, SumsAppend DEF Lag
  <2>3. Lag' = Sum(Lens(Append(unfetched, p)))
    BY <1>1 DEF Lag
  <2> QED BY <2>1, <2>2, <2>3, <1>2
<1>7. (head' + Lag') % RingSize = Base'
  <2>1. head' + Lag' = (head + Lag) + n /\ head + Lag \in Int
    BY <1>1, <1>2, <1>6
  <2>2. ((head + Lag) + n) % RingSize = (Base + n) % RingSize
    BY <2>1, <1>2, RingPlus DEF LineInv
  <2> QED BY <2>1, <2>2, <1>2, <1>5
<1>8. ASSUME NEW k \in DOMAIN unfetched'
      PROVE  unfetched'[k].end = (Start(k)' + unfetched'[k].n) % RingSize
  <2>1. CASE k \in DOMAIN unfetched
    <3>1. k # 1 => k - 1 \in DOMAIN unfetched
      BY <2>1, <1>4
    <3>2. unfetched'[k] = unfetched[k] /\ (k # 1 => unfetched'[k - 1] = unfetched[k - 1])
      BY <2>1, <3>1, <1>4
    <3> QED BY <2>1, <3>2, <1>1 DEF LineInv, Start
  <2>2. CASE k = Len(unfetched) + 1
    <3>1. Start(k)' = Base
      <4>1. CASE unfetched = <<>>
        <5>1. k = 1
          BY <2>2, <4>1
        <5> QED BY <5>1, <4>1, <1>1 DEF Start, PathInv
      <4>2. CASE unfetched # <<>>
        <5>1. Len(unfetched) \in DOMAIN unfetched /\ k # 1 /\ k - 1 = Len(unfetched)
          BY <2>2, <4>2, <1>3, <1>4
        <5>2. unfetched'[k - 1] = unfetched[Len(unfetched)]
          BY <5>1, <1>4
        <5> QED BY <5>1, <5>2, <4>2 DEF Start, PathInv
      <4> QED BY <4>1, <4>2
    <3> QED BY <2>2, <3>1, <1>2, <1>4
  <2> QED BY <2>1, <2>2, <1>4
<1> QED BY <1>7, <1>8 DEF LineInv

(* The device fetches the first packet.                                    *)
LEMMA LineHwFetch ==
  ASSUME AllTypes, PathInv, LineInv, HwFetch
  PROVE  /\ LineInv' /\ head' = (head + unfetched[1].n) % RingSize
         /\ Lag = unfetched[1].n + Lag' /\ Lag' \in Nat /\ unfetched[1].n \in Nat
<1>0. unfetched # <<>> /\ unfetched \in Seq(UnfRec) /\ Head(unfetched) = unfetched[1]
  BY SomeUnfetched DEF HwFetch, AllTypes, TyUnf
<1>1. head' = unfetched[1].end /\ unfetched' = Tail(unfetched) /\ Base' = Base
  BY <1>0 DEF HwFetch, driverVars, ringVars, xmitVars, Base
<1>2. /\ 1 \in DOMAIN unfetched
      /\ DOMAIN unfetched' = 1 .. Len(unfetched) - 1 /\ DOMAIN unfetched = 1 .. Len(unfetched)
      /\ Len(unfetched) \in Nat
      /\ \A k \in DOMAIN unfetched' : k + 1 \in DOMAIN unfetched /\ unfetched'[k] = unfetched[k + 1]
  BY <1>0, <1>1, TailIs
<1> DEFINE n == unfetched[1].n
<1>3. head' = (head + n) % RingSize
  BY <1>1, <1>2 DEF LineInv, Start
<1>4. Lag = n + Lag' /\ Lag' \in Nat /\ n \in Nat
  BY <1>0, <1>1, SumsTail DEF Lag
<1>5. head \in Int
  BY DEF AllTypes, TyRing, Idx
<1> HIDE DEF n
<1>6. (head' + Lag') % RingSize = Base'
  <2>1. head + n \in Int /\ (head + n) + Lag' = head + Lag
    BY <1>4, <1>5
  <2>2. (((head + n) % RingSize) + Lag') % RingSize = ((head + n) + Lag') % RingSize
    BY <2>1, <1>4, RingPlus
  <2> QED BY <2>1, <2>2, <1>1, <1>3 DEF LineInv
<1>7. ASSUME NEW k \in DOMAIN unfetched'
      PROVE  unfetched'[k].end = (Start(k)' + unfetched'[k].n) % RingSize
  <2>1. k + 1 \in DOMAIN unfetched /\ unfetched'[k] = unfetched[k + 1] /\ k \in Nat
          /\ (k + 1) - 1 = k /\ k + 1 # 1
    BY <1>2
  <2>2. unfetched[k + 1].end = (Start(k + 1) + unfetched[k + 1].n) % RingSize
    BY <2>1 DEF LineInv
  <2>3. Start(k + 1) = unfetched[k].end
    BY <2>1 DEF Start
  <2>4. Start(k)' = unfetched[k].end
    <3>1. CASE k = 1
      BY <3>1, <1>1 DEF Start
    <3>2. CASE k # 1
      <4>1. k - 1 \in DOMAIN unfetched' /\ (k - 1) + 1 = k
        BY <3>2, <1>2
      <4> QED BY <4>1, <3>2, <1>2 DEF Start
    <3> QED BY <3>1, <3>2
  <2> QED BY <2>1, <2>2, <2>3, <2>4
<1> QED BY <1>3, <1>4, <1>6, <1>7 DEF LineInv, n

(* Every step keeps the packets of the ring one behind the other.          *)
LEMMA LineNext ==
  ASSUME AllTypes, AllTypes', PathInv, LineInv, SpotInv, [Next]_vars
  PROVE  LineInv'
<1>1. CASE XmitLast
  BY <1>1, LineXmitLast
<1>2. CASE HwFetch
  BY <1>2, LineHwFetch
<1>3. CASE \E st \in Stamps : XmitFirst(st)
  <2>1. xm \in XmRec
    BY DEF AllTypes, TyXm
  <2>2. Base' = Base /\ head' = head /\ unfetched' = unfetched
    BY <1>3, <2>1 DEF XmitFirst, XmRec, Base, devVars
  <2> QED BY <2>2, LineSame
<1>4. CASE XmitFrag
  <2>1. xm \in XmRec
    BY DEF AllTypes, TyXm
  <2>2. Base' = Base /\ head' = head /\ unfetched' = unfetched
    BY <1>4, <2>1 DEF XmitFrag, XmRec, Base, devVars, ringVars
  <2> QED BY <2>2, LineSame
<1>5. CASE \/ \E s \in Shapes, c \in Ctx, mr \in BOOLEAN : XmitStart(s, c, mr)
           \/ XmitStop \/ XmitRecheck \/ XmitFault
           \/ \E mr \in BOOLEAN : XmitRefuse(mr)
  <2>1. Base' = Base /\ head' = head /\ unfetched' = unfetched
    BY <1>5 DEF XmitStart, XmitStop, XmitRecheck, XmitFault, Rollback, XmitRefuse, xmitVars,
                ringVars, devVars, Base
  <2> QED BY <2>1, LineSame
<1>6. CASE \/ NapiCompl \/ NapiChain \/ NapiOut \/ NapiWake
           \/ \E t \in Tag : TimerExpire(t)
           \/ UNCHANGED vars
  <2>1. Base' = Base /\ head' = head /\ unfetched' = unfetched
    BY <1>6 DEF NapiCompl, NapiChain, NapiOut, NapiWake, TimerExpire, vars, xmitVars,
                ringVars, devVars, Base
  <2> QED BY <2>1, LineSame
<1>7. CASE \/ \E p \in inflight : HwDone(p)
           \/ \E p \in inflight, ty \in {"MISS", "REINJECT"} : HwMiss(p, ty)
           \/ \E c \in exc : HwExc(c)
  <2>1. Base' = Base /\ head' = head /\ unfetched' = unfetched
    BY <1>7 DEF HwDone, HwMiss, HwExc, driverVars, xmitVars, ringVars, Base
  <2> QED BY <2>1, LineSame
<1> QED BY <1>1, <1>2, <1>3, <1>4, <1>5, <1>6, <1>7, NextIs DEF Steps

(* At first the ring is empty.                                             *)
LEMMA LineInit == Init => LineInv /\ SpotInv
<1> SUFFICES ASSUME Init PROVE LineInv /\ SpotInv
  OBVIOUS
<1>1. head = 0 /\ unfetched = <<>> /\ xpc = "idle" /\ ntu = 0
  BY DEF Init
<1>2. AllTypes
  BY TypesInit, TypesAre
<1>3. Lag = 0
  <2>1. Lens(unfetched) \in Seq(Nat) /\ Len(Lens(unfetched)) = Len(unfetched)
    BY <1>2, SeqOf DEF AllTypes, TyUnf
  <2>2. Len(Lens(unfetched)) = 0
    BY <2>1, <1>1
  <2> QED BY <2>1, <2>2, UptoIs DEF Sum, Lag
<1>4. (head + Lag) % RingSize = Base
  BY <1>1, <1>3, Sizes DEF Base
<1> QED BY <1>1, <1>4 DEF LineInv, SpotInv

(* Distances along the ring                                                *)
LEMMA OffIs ==
  ASSUME AllTypes
  PROVE  /\ \A x \in Int : Off(x) \in Nat /\ Off(x) < RingSize
         /\ RingSize \in Nat \ {0} /\ ntc \in Int /\ head \in Int /\ ntu \in Int
         /\ Lag \in Nat
<1>1. RingSize \in Nat \ {0} /\ ntc \in Int /\ head \in Int /\ ntu \in Int
  BY RingAssumption DEF AllTypes, TyRing, Idx
<1>2. ASSUME NEW x \in Int
      PROVE  Off(x) \in Nat /\ Off(x) < RingSize
  <2>1. x - ntc \in Int
    BY <1>1
  <2>2. (x - ntc) % RingSize \in 0 .. RingSize - 1
    BY <2>1, <1>1, ModIs
  <2> QED BY <2>2, <1>1 DEF Off
<1>3. Lag \in Nat
  BY SeqOf, SumNat DEF Lag, AllTypes, TyUnf
<1> QED BY <1>1, <1>2, <1>3

(* A place further on, and the places as they are seen from a new start    *)
LEMMA FurtherOn ==
  ASSUME NEW N \in Nat \ {0}, NEW x \in Int, NEW n \in Nat, (x % N) + n < N
  PROVE  (x + n) % N = (x % N) + n
<1> DEFINE q == x \div N
           r == x % N
<1>1. x = N * q + r /\ q \in Int /\ r \in 0 .. N - 1
  BY ModQuot, ModIs
<1>2. r + n < N
  OBVIOUS
<1> HIDE DEF q, r
<1> DEFINE s == r + n
<1>3. s \in 0 .. N - 1
  BY <1>1, <1>2
<1>4. x + n = N * q + s
  BY <1>1
<1> HIDE DEF s
<1>5. (x + n) % N = s
  BY <1>1, <1>3, <1>4, ModUnique
<1> QED BY <1>5 DEF s, r

(* Distances from a new start are the differences of the old ones.         *)
LEMMA NewStart ==
  ASSUME NEW N \in Nat \ {0}, NEW x \in Int, NEW y \in Int, (y % N) <= (x % N)
  PROVE  (x - y) % N = (x % N) - (y % N)
<1> DEFINE a == x \div N
           r == x % N
           b == y \div N
           s == y % N
<1>1. x = N * a + r /\ a \in Int /\ r \in 0 .. N - 1
  BY ModQuot, ModIs
<1>2. y = N * b + s /\ b \in Int /\ s \in 0 .. N - 1
  BY ModQuot, ModIs
<1>3. s <= r
  OBVIOUS
<1> HIDE DEF a, b, r, s
<1> DEFINE d == r - s
           c == a - b
<1>4. d \in 0 .. N - 1 /\ c \in Int
  BY <1>1, <1>2, <1>3
<1>5. x - y = N * c + d
  BY <1>1, <1>2
<1> HIDE DEF d, c
<1>6. (x - y) % N = d
  BY <1>4, <1>5, ModUnique
<1>7. d = (x % N) - (y % N)
  BY DEF d, r, s
<1> QED BY <1>6, <1>7

(* What is in the ring, seen from next_to_clean                            *)
LEMMA Used ==
  ASSUME AllTypes, LineInv, RoomInv, ~ moved, xpc # "map"
  PROVE  /\ Off(ntu) = Off(head) + Lag
         /\ Unused = RingSize - 1 - Off(ntu)
<1>1. /\ RingSize \in Nat \ {0} /\ ntc \in Int /\ head \in Int /\ ntu \in Int /\ Lag \in Nat
      /\ Off(head) \in Nat
  BY OffIs
<1> DEFINE x == head - ntc
<1>2. x \in Int /\ Off(head) = x % RingSize
  BY <1>1 DEF Off
<1>3. (x % RingSize) + Lag < RingSize
  <2>1. Claim \in Nat
    BY XmIs, SumNat DEF Claim, Need, AllTypes, TyXm
  <2> HIDE DEF x
  <2> QED BY <2>1, <1>1, <1>2 DEF RoomInv
<1>4. Off(ntu) = (x + Lag) % RingSize
  <2>1. ntu = (head + Lag) % RingSize
    BY DEF LineInv, Base
  <2>2. head + Lag \in Int /\ 0 - ntc \in Int
    BY <1>1
  <2>3. (((head + Lag) % RingSize) + (0 - ntc)) % RingSize = ((head + Lag) + (0 - ntc)) % RingSize
    BY <2>2, RingPlus
  <2>4. ntu - ntc = ntu + (0 - ntc) /\ x + Lag = (head + Lag) + (0 - ntc)
    BY <1>1
  <2> QED BY <2>1, <2>3, <2>4 DEF Off
<1> HIDE DEF x
<1>5. Off(ntu) = Off(head) + Lag
  BY <1>1, <1>2, <1>3, <1>4, FurtherOn
<1>6. Unused = RingSize - 1 - Off(ntu)
  <2>1. 0 <= ntu /\ ntu < RingSize /\ 0 <= ntc /\ ntc < RingSize
    BY <1>1 DEF AllTypes, TyRing, Idx
  <2> DEFINE z == ntu - ntc
  <2>2. z \in Int /\ Off(ntu) = z % RingSize
    BY <1>1 DEF Off
  <2>3. CASE ntc > ntu
    <3>1. 0 - RingSize <= z /\ z < 0
      BY <2>1, <2>3, <1>1
    <3> HIDE DEF z
    <3>2. z % RingSize = z + RingSize
      BY <3>1, <2>2, <1>1, ModIs
    <3> QED BY <3>2, <2>2, <2>3, <1>1 DEF Unused, z
  <2>4. CASE ~ ntc > ntu
    <3>1. 0 <= z /\ z < RingSize
      BY <2>1, <2>4, <1>1
    <3> HIDE DEF z
    <3>2. z % RingSize = z
      BY <3>1, <2>2, <1>1, ModIs
    <3> QED BY <3>2, <2>2, <2>4, <1>1 DEF Unused, z
  <2> QED BY <2>3, <2>4
<1> QED BY <1>5, <1>6

(* The completion queue between two RE completions                         *)
LEMMA OrderedTail ==
  ASSUME AllTypes, Ordered, complq # <<>>, complq' = Tail(complq), ntc' = ntc, head' = head
  PROVE  Ordered'
<1>1. complq \in Seq(ComplRec)
  BY DEF AllTypes, TyCompl
<1>2. /\ \A k \in DOMAIN complq' : k + 1 \in DOMAIN complq /\ complq'[k] = complq[k + 1]
      /\ DOMAIN complq' \subseteq Int
  BY <1>1, TailIs
<1>3. \A j, k \in Int : j < k => j + 1 < k + 1
  OBVIOUS
<1>4. \A x : Off(x)' = (x' - ntc) % RingSize
  BY DEF Off
<1> QED BY <1>2, <1>3 DEF Ordered, Off

(* RE: the ring is clean up to the head of the completion.                 *)
LEMMA OrderedRe ==
  ASSUME AllTypes, Ordered, complq # <<>>, complq' = Tail(complq), head' = head,
         complq[1].type = "RE", ntc' = complq[1].head
  PROVE  /\ Ordered' /\ Off(head)' <= Off(head) /\ Off(head)' \in Nat
<1>1. complq \in Seq(ComplRec)
  BY DEF AllTypes, TyCompl
<1>2. /\ \A k \in DOMAIN complq' : k + 1 \in DOMAIN complq /\ complq'[k] = complq[k + 1]
      /\ DOMAIN complq' \subseteq Nat /\ \A k \in DOMAIN complq' : k >= 1
      /\ 1 \in DOMAIN complq
  BY <1>1, TailIs
<1>3. \A k \in DOMAIN complq : complq[k].head \in Int
  <2>1. \A k \in DOMAIN complq : complq[k] \in ComplRec
    BY <1>1
  <2> QED BY <2>1, ComplIs DEF Idx
<1> DEFINE h == complq[1].head
<1>t. h \in Int /\ ntc \in Int /\ RingSize \in Nat \ {0} /\ head \in Int
        /\ \A x \in Int : Off(x) \in Nat
  BY <1>2, <1>3, OffIs
<1>4. ntc' = h
  OBVIOUS
<1>5. Off(h) <= Off(head)
  BY <1>2 DEF Ordered
<1>6. \A k \in DOMAIN complq' : complq'[k].type = "RE" => Off(h) <= Off(complq'[k].head)
  <2>1. \A k \in DOMAIN complq' : 1 < k + 1
    BY <1>2
  <2> QED BY <1>2, <2>1 DEF Ordered
<1> HIDE DEF h
<1>7. ASSUME NEW x \in Int, Off(h) <= Off(x)
      PROVE  (x - h) % RingSize = Off(x) - Off(h)
  <2> DEFINE a == x - ntc
             b == h - ntc
  <2>1. a \in Int /\ b \in Int /\ a - b = x - h /\ Off(x) = a % RingSize /\ Off(h) = b % RingSize
    BY <1>t DEF Off
  <2> HIDE DEF a, b
  <2>2. (a - b) % RingSize = (a % RingSize) - (b % RingSize)
    BY <2>1, <1>7, <1>t, NewStart
  <2> QED BY <2>1, <2>2
<1>8. Off(head)' = Off(head) - Off(h)
  BY <1>4, <1>5, <1>7, <1>t DEF Off
<1>9. \A k \in DOMAIN complq' : complq'[k].head \in Int
  BY <1>2, <1>3
<1>10. \A k \in DOMAIN complq' : complq'[k].type = "RE" =>
          (complq'[k].head - ntc') % RingSize = Off(complq'[k].head) - Off(h)
  BY <1>4, <1>6, <1>7, <1>9
<1>11. ASSUME NEW k \in DOMAIN complq', complq'[k].type = "RE"
       PROVE  (complq'[k].head - ntc') % RingSize <= Off(head)'
  <2>1. Off(complq'[k].head) <= Off(head)
    BY <1>2, <1>11 DEF Ordered
  <2>2. Off(complq'[k].head) \in Nat /\ Off(head) \in Nat /\ Off(h) \in Nat
    BY <1>9, <1>t
  <2> QED BY <2>1, <2>2, <1>8, <1>10, <1>11
<1>12. ASSUME NEW j \in DOMAIN complq', NEW k \in DOMAIN complq', j < k,
              complq'[j].type = "RE", complq'[k].type = "RE"
       PROVE  (complq'[j].head - ntc') % RingSize <= (complq'[k].head - ntc') % RingSize
  <2>1. j + 1 < k + 1
    BY <1>2, <1>12
  <2>2. Off(complq'[j].head) <= Off(complq'[k].head)
    BY <1>2, <1>12, <2>1 DEF Ordered
  <2>3. Off(complq'[k].head) \in Nat /\ Off(complq'[j].head) \in Nat /\ Off(h) \in Nat
    BY <1>9, <1>t
  <2> QED BY <2>2, <2>3, <1>10, <1>12
<1>13. Ordered'
  BY <1>11, <1>12 DEF Ordered, Off
<1>14. Off(head)' <= Off(head) /\ Off(head)' \in Nat
  <2>1. Off(head) \in Nat /\ Off(h) \in Nat
    BY <1>t
  <2> QED BY <2>1, <1>5, <1>8
<1> QED BY <1>13, <1>14

(* A completion of another type                                            *)
LEMMA OrderedAppend ==
  ASSUME AllTypes, Ordered, NEW c, c.type # "RE", complq' = Append(complq, c),
         ntc' = ntc, head' = head
  PROVE  Ordered'
<1>1. complq \in Seq(ComplRec)
  BY DEF AllTypes, TyCompl
<1>2. /\ DOMAIN complq' = DOMAIN complq \cup {Len(complq) + 1}
      /\ complq'[Len(complq) + 1] = c
      /\ \A k \in DOMAIN complq : complq'[k] = complq[k]
  BY <1>1, AppendIs
<1> QED BY <1>2 DEF Ordered, Off

(* The device goes on to the end of the next packet.                       *)
LEMMA OrderedHwFetch ==
  ASSUME AllTypes, PathInv, LineInv, Ordered, HwFetch,
         Off(head) + Lag <= RingSize - 1
  PROVE  Ordered' /\ Off(head)' + Lag' <= Off(head) + Lag
           /\ Off(head)' \in Nat /\ Lag' \in Nat
<1> DEFINE p == unfetched[1]
           c == [type |-> "RE", tag |-> p.tag, head |-> p.end]
           n == p.n
<1>1. /\ unfetched # <<>> /\ Head(unfetched) = p /\ p \in UnfRec
  BY SomeUnfetched DEF HwFetch
<1>2. /\ head' = p.end /\ complq' = IF p.re THEN Append(complq, c) ELSE complq
      /\ ntc' = ntc
  BY <1>1 DEF HwFetch, driverVars, ringVars
<1>3. head' = (head + n) % RingSize /\ Lag = n + Lag' /\ Lag' \in Nat /\ n \in Nat
  BY LineHwFetch
<1>4. /\ RingSize \in Nat \ {0} /\ ntc \in Int /\ head \in Int /\ Lag \in Nat
      /\ Off(head) \in Nat /\ \A x \in Int : Off(x) \in Nat
  BY OffIs
<1>5. c.type = "RE" /\ c.head = head'
  BY <1>2
<1>6. complq \in Seq(ComplRec) /\ \A k \in DOMAIN complq : complq[k].head \in Int
  <2>1. complq \in Seq(ComplRec)
    BY DEF AllTypes, TyCompl
  <2>2. \A k \in DOMAIN complq : complq[k] \in ComplRec
    BY <2>1
  <2> QED BY <2>1, <2>2, ComplIs DEF Idx
<1> HIDE DEF p, c, n
<1>7. (head' - ntc) % RingSize = Off(head) + n
  <2> DEFINE x == head - ntc
             y == 0 - ntc
             z == head + n
  <2>1. x \in Int /\ y \in Int /\ z \in Int /\ Off(head) = x % RingSize /\ x + n = z + y
    BY <1>3, <1>4 DEF Off
  <2>2. head' - ntc = head' + y /\ head' = z % RingSize
    <3>1. z % RingSize \in Int
      BY <1>3, <1>4
    <3> QED BY <3>1, <1>3, <1>4
  <2> HIDE DEF x, y, z
  <2>3. (head' - ntc) % RingSize = (x + n) % RingSize
    <3>1. ((z % RingSize) + y) % RingSize = (z + y) % RingSize
      BY <2>1, RingPlus
    <3> QED BY <3>1, <2>1, <2>2
  <2>4. (x % RingSize) + n < RingSize
    BY <2>1, <1>3, <1>4
  <2>5. (x + n) % RingSize = (x % RingSize) + n
    BY <2>1, <2>4, <1>3, <1>4, FurtherOn
  <2> QED BY <2>1, <2>3, <2>5
<1>8. Off(head)' = Off(head) + n
  BY <1>2, <1>7 DEF Off
<1>9. /\ Off(head)' + Lag' <= Off(head) + Lag /\ Off(head)' \in Nat
      /\ Off(head) <= Off(head)'
  BY <1>3, <1>4, <1>8
<1>10. CASE ~ p.re
  <2>1. complq' = complq
    BY <1>2, <1>10
  <2>2. ASSUME NEW j \in DOMAIN complq', complq'[j].type = "RE"
        PROVE  (complq'[j].head - ntc') % RingSize <= Off(head)'
    <3>1. Off(complq[j].head) <= Off(head) /\ Off(complq[j].head) \in Nat
      BY <2>1, <2>2, <1>4, <1>6 DEF Ordered
    <3>2. (complq'[j].head - ntc') % RingSize = Off(complq[j].head)
      BY <2>1, <1>2 DEF Off
    <3> QED BY <3>1, <3>2, <1>4, <1>9
  <2>3. \A j, k \in DOMAIN complq' :
          j < k /\ complq'[j].type = "RE" /\ complq'[k].type = "RE" =>
          (complq'[j].head - ntc') % RingSize <= (complq'[k].head - ntc') % RingSize
    BY <2>1, <1>2 DEF Ordered, Off
  <2>4. Ordered'
    BY <2>2, <2>3 DEF Ordered, Off
  <2> QED BY <2>4, <1>3, <1>9
<1>11. CASE p.re
  <2> DEFINE m == Len(complq) + 1
  <2>1. /\ DOMAIN complq' = DOMAIN complq \cup {m} /\ complq'[m] = c
        /\ \A k \in DOMAIN complq : complq'[k] = complq[k]
        /\ DOMAIN complq = 1 .. Len(complq) /\ Len(complq) \in Nat
    BY <1>2, <1>6, <1>11, AppendIs
  <2>m. \A k \in DOMAIN complq : k < m /\ ~ m < k
    BY <2>1
  <2> HIDE DEF m
  <2>2. ASSUME NEW j \in DOMAIN complq, complq[j].type = "RE"
        PROVE  (complq[j].head - ntc') % RingSize <= Off(head)'
    <3>1. Off(complq[j].head) <= Off(head) /\ Off(complq[j].head) \in Nat
      BY <2>2, <1>4, <1>6 DEF Ordered
    <3>2. (complq[j].head - ntc') % RingSize = Off(complq[j].head)
      BY <1>2 DEF Off
    <3> QED BY <3>1, <3>2, <1>4, <1>9
  <2>3. (complq'[m].head - ntc') % RingSize = Off(head)'
    BY <2>1, <1>5 DEF Off
  <2>4. \A j \in DOMAIN complq' : complq'[j].type = "RE" =>
          (complq'[j].head - ntc') % RingSize <= Off(head)'
    BY <2>1, <2>2, <2>3, <1>9
  <2>5. ~ m < m
    BY <2>1 DEF m
  <2>6. ASSUME NEW j \in DOMAIN complq', NEW k \in DOMAIN complq', j < k,
               complq'[j].type = "RE", complq'[k].type = "RE"
        PROVE  (complq'[j].head - ntc') % RingSize <= (complq'[k].head - ntc') % RingSize
    <3>1. j \in DOMAIN complq
      BY <2>1, <2>m, <2>5, <2>6
    <3>2. CASE k = m
      BY <3>1, <3>2, <2>3, <2>4, <2>6
    <3>3. CASE k # m
      <4>1. k \in DOMAIN complq
        BY <3>3, <2>1
      <4> QED BY <3>1, <4>1, <2>1, <2>6, <1>2 DEF Ordered, Off
    <3> QED BY <3>2, <3>3
  <2>7. Ordered'
    BY <2>4, <2>6 DEF Ordered, Off
  <2> QED BY <2>7, <1>3, <1>9
<1> QED BY <1>10, <1>11

-----------------------------------------------------------------------------
(* The ring is not overrun.                                                *)

(* What a packet under construction needs is a number of descriptors.      *)
LEMMA NeedIs == AllTypes => Need \in Nat /\ Claim \in Nat
BY XmIs, SumNat DEF Claim, Need, AllTypes, TyXm

(* ... in the next state, too                                              *)
LEMMA NeedIsNext == AllTypes' => Need' \in Nat /\ Claim' \in Nat
<1> SUFFICES ASSUME AllTypes' PROVE Need' \in Nat /\ Claim' \in Nat
  OBVIOUS
<1>1. xm' \in XmRec
  BY DEF AllTypes, TyXm
<1>2. xm'.ctx \in Nat /\ xm'.shape \in Seq(Nat)
  BY <1>1 DEF XmRec
<1>3. Sum(xm'.shape) \in Nat
  BY <1>2, SumNat
<1>4. Need' = xm'.ctx + Sum(xm'.shape)
  BY DEF Need
<1> QED BY <1>2, <1>3, <1>4 DEF Claim

(* A step that leaves the ring alone and asks for no more of it            *)
LEMMA RoomKeep ==
  ASSUME AllTypes, AllTypes', RoomInv, UNCHANGED <<ntc, head, unfetched, complq, moved>>,
         Claim' <= Claim
  PROVE  RoomInv'
<1>1. Claim \in Nat /\ Claim' \in Nat
  BY NeedIs, NeedIsNext
<1>2. Off(head) \in Nat /\ Lag \in Nat /\ RingSize \in Nat
  BY OffIs
<1>3. Off(head)' = Off(head) /\ Lag' = Lag /\ Ordered' = Ordered
  BY DEF Off, Lag, Ordered
<1>4. (Off(head) + Lag) + Claim <= RingSize - 1 => (Off(head) + Lag) + Claim' <= RingSize - 1
  BY <1>1, <1>2
<1> QED BY <1>3, <1>4 DEF RoomInv

(* idpf_txq_has_room: what the packet needs is free.                       *)
LEMMA RoomTaken ==
  ASSUME AllTypes, AllTypes', LineInv, RoomInv, xpc \notin {"first", "map"},
         UNCHANGED <<ntc, head, unfetched, complq, moved>>,
         Unused >= Need', Claim' = Need'
  PROVE  RoomInv'
<1>1. CASE moved
  BY <1>1 DEF RoomInv
<1>2. CASE ~ moved
  <2>1. Need' \in Nat
    BY NeedIsNext
  <2>2. Off(head) \in Nat /\ Lag \in Nat /\ RingSize \in Nat
    BY OffIs
  <2>3. Off(ntu) = Off(head) + Lag /\ Unused = RingSize - 1 - Off(ntu)
    BY <1>2, Used
  <2>4. (Off(head) + Lag) + Need' <= RingSize - 1
    <3> DEFINE x == Off(head) + Lag
               y == Need'
               u == Unused
    <3>1. x \in Nat /\ y \in Nat /\ u = RingSize - 1 - x /\ u >= y
      BY <2>1, <2>2, <2>3
    <3> HIDE DEF x, y, u
    <3>2. x + y <= RingSize - 1
      BY <3>1, <2>2
    <3> QED BY <3>2 DEF x, y
  <2>5. Off(head)' = Off(head) /\ Lag' = Lag /\ Ordered' = Ordered
    BY DEF Off, Lag, Ordered
  <2> QED BY <1>2, <2>4, <2>5 DEF RoomInv
<1> QED BY <1>1, <1>2

(* The first look at the room                                              *)
LEMMA RoomXmitStart ==
  ASSUME AllTypes, AllTypes', LineInv, RoomInv, NEW s \in Shapes, NEW c \in Ctx,
         NEW mr \in BOOLEAN, XmitStart(s, c, mr)
  PROVE  RoomInv'
<1>1. UNCHANGED <<ntc, head, unfetched, complq, moved>> /\ xpc = "idle"
  BY DEF XmitStart, ringVars, devVars, histVars
<1>2. CASE HasRoom(xm')
  <2>1. xpc' = "first" /\ Unused >= Need'
    BY <1>2 DEF XmitStart, HasRoom, Need
  <2>2. Claim' = Need'
    BY <2>1 DEF Claim
  <2> QED BY <1>1, <2>1, <2>2, RoomTaken
<1>3. CASE ~ HasRoom(xm')
  <2>1. xpc' = "stop"
    BY <1>3 DEF XmitStart
  <2>2. Claim' <= Claim
    BY <1>1, <2>1 DEF Claim
  <2> QED BY <1>1, <2>2, RoomKeep
<1> QED BY <1>2, <1>3

(* The second look at the room                                             *)
LEMMA RoomXmitRecheck ==
  ASSUME AllTypes, AllTypes', LineInv, RoomInv, XmitRecheck
  PROVE  RoomInv'
<1>1. UNCHANGED <<ntc, head, unfetched, complq, moved>> /\ xpc = "recheck"
  BY DEF XmitRecheck, devVars, histVars
<1>2. CASE HasRoom(xm)
  <2>1. xpc' = "first" /\ Unused >= Need /\ xm' = xm
    BY <1>2 DEF XmitRecheck, HasRoom, Need
  <2>2. Claim' = Need' /\ Need' = Need
    BY <2>1 DEF Claim, Need
  <2> QED BY <1>1, <2>1, <2>2, RoomTaken
<1>3. CASE ~ HasRoom(xm)
  <2>1. xpc' = "idle"
    BY <1>3 DEF XmitRecheck
  <2>2. Claim' <= Claim
    BY <1>1, <2>1 DEF Claim
  <2> QED BY <1>1, <2>2, RoomKeep
<1> QED BY <1>2, <1>3

(* The packet under construction needs what it needed.                     *)
LEMMA RoomXmitBuild ==
  ASSUME AllTypes, AllTypes', RoomInv,
         XmitFrag \/ \E st \in Stamps : XmitFirst(st)
  PROVE  RoomInv'
<1>1. /\ UNCHANGED <<ntc, head, unfetched, complq, moved>> /\ xpc \in {"first", "map"}
      /\ xpc' = "map"
  BY DEF XmitFrag, XmitFirst, devVars, histVars, ringVars
<1>2. xm'.ctx = xm.ctx /\ xm'.shape = xm.shape
  <2>1. xm \in XmRec
    BY DEF AllTypes, TyXm
  <2>2. CASE XmitFrag
    BY <2>1, <2>2 DEF XmitFrag, XmRec
  <2>3. ASSUME NEW st \in Stamps, XmitFirst(st)
        PROVE  xm'.ctx = xm.ctx /\ xm'.shape = xm.shape
    <3>1. DOMAIN xm = {"pkt", "shape", "ctx", "st", "k", "i", "first", "buf", "re", "ntu",
                       "rntc", "rflgen"}
      BY <2>1 DEF XmRec
    <3> QED BY <2>3, <3>1 DEF XmitFirst
  <2> QED BY <2>2, <2>3
<1>3. Claim' = Claim /\ Claim \in Nat
  BY <1>1, <1>2, NeedIs DEF Claim, Need
<1>4. Claim' <= Claim
  BY <1>3
<1> QED BY <1>1, <1>4, RoomKeep

(* xmit ends without a packet, or goes on without a claim.                 *)
LEMMA RoomXmitOut ==
  ASSUME AllTypes, AllTypes', RoomInv,
         XmitStop \/ XmitFault \/ \E mr \in BOOLEAN : XmitRefuse(mr)
  PROVE  RoomInv'
<1>1. UNCHANGED <<ntc, head, unfetched, complq, moved>>
  BY DEF XmitStop, XmitFault, XmitRefuse, devVars, histVars, ringVars
<1>2. Claim' = 0
  BY DEF XmitStop, XmitFault, Rollback, XmitRefuse, xmitVars, Claim
<1>3. Claim' <= Claim
  BY <1>2, NeedIs
<1> QED BY <1>1, <1>3, RoomKeep

(* The packet is in the ring.                                              *)
LEMMA RoomXmitLast ==
  ASSUME AllTypes, AllTypes', RoomInv, SpotInv, XmitLast, xm.st = 0
  PROVE  RoomInv'
<1> DEFINE e == Bump(Bump(xm.i, xm.shape[xm.k] - 1), 1)
           n == xm.ctx + xm.st + Sum(xm.shape)
           p == [pkt |-> xm.pkt, tag |-> xm.first, end |-> e, n |-> n, re |-> xm.re]
<1>1. /\ unfetched' = Append(unfetched, p) /\ head' = head /\ complq' = complq
      /\ ntc' = ntc /\ moved' = moved /\ xpc = "map" /\ xpc' = "idle"
  BY DEF XmitLast, histVars
<1>2. n \in Nat /\ n = Need /\ p.n = n
  <2>1. xm.ctx \in Nat /\ Sum(xm.shape) \in Nat
    BY XmIs, SumNat DEF AllTypes, TyXm
  <2>2. n = Need
    BY <2>1 DEF Need
  <2> QED BY <2>2, NeedIs
<1> HIDE DEF e, n, p
<1>3. unfetched \in Seq(UnfRec) /\ p \in UnfRec
  <2>1. unfetched' \in Seq(UnfRec) /\ unfetched \in Seq(UnfRec)
    BY DEF AllTypes, TyUnf
  <2>2. Len(unfetched) + 1 \in DOMAIN unfetched' /\ unfetched'[Len(unfetched) + 1] = p
    BY <2>1, <1>1, AppendIs
  <2> QED BY <2>1, <2>2
<1>4. Lag' = Lag + n
  <2>1. Sum(Lens(Append(unfetched, p))) = Lag + p.n
    BY <1>3, SumsAppend DEF Lag
  <2> QED BY <2>1, <1>1, <1>2 DEF Lag
<1>5. Claim = n /\ Claim' = 0
  BY <1>1, <1>2 DEF Claim
<1>6. Off(head)' = Off(head) /\ Ordered' = Ordered
  BY <1>1 DEF Off, Ordered
<1>7. Off(head) \in Nat /\ Lag \in Nat /\ RingSize \in Nat
  BY OffIs
<1>8. Off(head) + Lag + Claim = Off(head)' + Lag' + Claim'
  BY <1>2, <1>4, <1>5, <1>6, <1>7
<1> QED BY <1>1, <1>6, <1>8 DEF RoomInv

(* The device's steps: the ring empties from its far end, or a completion  *)
(* of another type is written.                                             *)
LEMMA RoomHwFetch ==
  ASSUME AllTypes, AllTypes', PathInv, LineInv, RoomInv, HwFetch
  PROVE  RoomInv'
<1>1. moved' = moved /\ xpc' = xpc /\ xm' = xm
  BY DEF HwFetch, driverVars, xmitVars
<1>2. Claim' = Claim /\ Claim \in Nat
  BY <1>1, NeedIs DEF Claim, Need
<1>3. CASE ~ moved
  <2>1. Off(head) \in Nat /\ Lag \in Nat /\ RingSize \in Nat
    BY OffIs
  <2>2. Off(head) + Lag + Claim <= RingSize - 1 /\ Ordered
    BY <1>3 DEF RoomInv
  <2>3. Off(head) + Lag <= RingSize - 1
    BY <2>1, <2>2, <1>2
  <2>4. /\ Ordered' /\ Off(head)' + Lag' <= Off(head) + Lag
        /\ Off(head)' \in Nat /\ Lag' \in Nat
    BY <2>2, <2>3, OrderedHwFetch
  <2>5. Off(head)' + Lag' + Claim' <= RingSize - 1
    <3> DEFINE x == Off(head)'
               y == Lag'
    <3>1. x \in Nat /\ y \in Nat /\ x + y <= Off(head) + Lag
      BY <2>4
    <3> HIDE DEF x, y
    <3>2. x + y + Claim <= RingSize - 1
      BY <3>1, <2>1, <2>2, <1>2
    <3> QED BY <3>2, <1>2 DEF x, y
  <2> QED BY <2>4, <2>5 DEF RoomInv
<1> QED BY <1>1, <1>3 DEF RoomInv

(* A completion that is not RE                                             *)
LEMMA RoomHwReport ==
  ASSUME AllTypes, AllTypes', RoomInv, NEW c, c.type # "RE",
         complq' = Append(complq, c),
         UNCHANGED <<ntc, head, unfetched, moved, xpc, xm>>
  PROVE  RoomInv'
<1>1. CASE ~ moved
  <2>1. Ordered'
    BY <1>1, OrderedAppend DEF RoomInv
  <2>2. Off(head)' = Off(head) /\ Lag' = Lag /\ Claim' = Claim
    BY DEF Off, Lag, Claim, Need
  <2> QED BY <1>1, <2>1, <2>2 DEF RoomInv
<1> QED BY <1>1 DEF RoomInv

(* No step of the device takes room.                                       *)
LEMMA RoomDevice ==
  ASSUME AllTypes, AllTypes', PathInv, LineInv, RoomInv,
         \/ HwFetch
         \/ \E p \in inflight : HwDone(p)
         \/ \E p \in inflight, ty \in {"MISS", "REINJECT"} : HwMiss(p, ty)
         \/ \E c \in exc : HwExc(c)
  PROVE  RoomInv'
<1>1. CASE HwFetch
  BY <1>1, RoomHwFetch
<1>2. ASSUME NEW p \in inflight, HwDone(p)
      PROVE  RoomInv'
  <2> DEFINE c == Compl("RS", p.tag)
  <2>1. c.type # "RE"
    BY DEF Compl
  <2>2. complq' = Append(complq, c) /\ UNCHANGED <<ntc, head, unfetched, moved, xpc, xm>>
    BY <1>2 DEF HwDone, driverVars, ringVars, xmitVars
  <2> HIDE DEF c
  <2> QED BY <2>1, <2>2, RoomHwReport
<1>3. ASSUME NEW p \in inflight, NEW ty \in {"MISS", "REINJECT"}, HwMiss(p, ty)
      PROVE  RoomInv'
  <2> DEFINE c == Compl(ty, p.tag)
  <2>1. c.type # "RE"
    BY DEF Compl
  <2>2. complq' = Append(complq, c) /\ UNCHANGED <<ntc, head, unfetched, moved, xpc, xm>>
    BY <1>3 DEF HwMiss, driverVars, ringVars, xmitVars
  <2> HIDE DEF c
  <2> QED BY <2>1, <2>2, RoomHwReport
<1>4. ASSUME NEW c \in exc, HwExc(c)
      PROVE  RoomInv'
  <2>1. c.type # "RE"
    <3>1. c \in {Compl(ty, t) : ty \in {"MISS", "REINJECT"}, t \in Tag}
      BY DEF AllTypes, TyDev
    <3> QED BY <3>1 DEF Compl
  <2>2. complq' = Append(complq, c) /\ UNCHANGED <<ntc, head, unfetched, moved, xpc, xm>>
    BY <1>4 DEF HwExc, driverVars, ringVars, xmitVars
  <2> QED BY <2>1, <2>2, RoomHwReport
<1> QED BY <1>1, <1>2, <1>3, <1>4

(* The poll: an RE completion moves next_to_clean to where the device was, *)
(* the others but a REINJECT leave it.                                     *)
LEMMA RoomNapiCompl ==
  ASSUME AllTypes, AllTypes', RoomInv, NapiCompl
  PROVE  RoomInv'
<1>1. /\ complq # <<>> /\ complq' = Tail(complq) /\ head' = head /\ unfetched' = unfetched
      /\ xpc' = xpc /\ xm' = xm
  BY DEF NapiCompl, devVars, xmitVars
<1>2. Lag' = Lag /\ Claim' = Claim /\ Claim \in Nat /\ Lag \in Nat /\ RingSize \in Nat
      /\ Off(head) \in Nat
  BY <1>1, NeedIs, OffIs DEF Lag, Claim, Need
<1>3. Head(complq) = complq[1]
  BY <1>1 DEF AllTypes, TyCompl
<1>4. CASE ~ moved /\ ntc' = ntc
  <2>1. Ordered'
    BY <1>1, <1>4, OrderedTail DEF RoomInv
  <2>2. Off(head)' = Off(head)
    BY <1>1, <1>4 DEF Off
  <2> QED BY <1>2, <1>4, <2>1, <2>2 DEF RoomInv
<1>5. CASE ~ moved /\ NapiRe(complq[1])
  <2>1. complq[1].type = "RE" /\ ntc' = complq[1].head
    BY <1>5 DEF NapiRe
  <2>2. Ordered' /\ Off(head)' <= Off(head) /\ Off(head)' \in Nat
    BY <1>1, <1>5, <2>1, OrderedRe DEF RoomInv
  <2>3. Off(head)' + Lag' + Claim' <= RingSize - 1
    <3> DEFINE x == Off(head)'
    <3>1. x \in Nat /\ x <= Off(head)
      BY <2>2
    <3>2. Off(head) + Lag + Claim <= RingSize - 1
      BY <1>5 DEF RoomInv
    <3> HIDE DEF x
    <3>3. x + Lag + Claim <= RingSize - 1
      BY <3>1, <3>2, <1>2
    <3> QED BY <3>3, <1>2 DEF x
  <2> QED BY <2>2, <2>3 DEF RoomInv
<1>6. CASE moved'
  BY <1>6 DEF RoomInv
<1>7. moved => moved'
  BY DEF NapiCompl, NapiRe, NapiRs, NapiMiss, NapiReinject
<1>8. NapiRe(complq[1]) \/ ntc' = ntc \/ moved'
  BY <1>3 DEF NapiCompl, NapiRs, NapiMiss, NapiReinject
<1> QED BY <1>4, <1>5, <1>6, <1>7, <1>8

(* Without time stamps no packet writes a descriptor that was not counted. *)
StInv == xpc = "map" => xm.st = 0

(* Without packets that ask for a stamp there is no such descriptor.       *)
LEMMA StNext ==
  ASSUME Stamps = {0}, AllTypes, StInv, [Next]_vars
  PROVE  StInv'
<1>1. CASE UNCHANGED xmitVars
  BY <1>1 DEF StInv, xmitVars
<1>2. CASE xpc' # "map"
  BY <1>2 DEF StInv
<1>3. CASE XmitFrag \/ \E st \in Stamps : XmitFirst(st)
  <2>1. xm \in XmRec
    BY DEF AllTypes, TyXm
  <2>2. CASE XmitFrag
    BY <2>1, <2>2 DEF StInv, XmitFrag, XmRec
  <2>3. CASE \E st \in Stamps : XmitFirst(st)
    BY <2>1, <2>3 DEF StInv, XmitFirst, XmRec
  <2> QED BY <1>3, <2>2, <2>3
<1>4. \/ UNCHANGED xmitVars \/ xpc' # "map"
      \/ XmitFrag \/ \E st \in Stamps : XmitFirst(st)
  <2>1. CASE UNCHANGED vars
    BY <2>1 DEF vars
  <2>2. CASE Next
    BY <2>2, NextIs DEF Steps, XmitStart, XmitRefuse, XmitStop, XmitRecheck, XmitFault, Rollback,
                        XmitLast, NapiCompl, NapiChain, NapiOut, NapiWake, TimerExpire, HwFetch,
                        HwDone, HwMiss, HwExc, driverVars
  <2> QED BY <2>1, <2>2
<1> QED BY <1>1, <1>2, <1>3, <1>4

(* Every step keeps the room.                                              *)
LEMMA RoomNext ==
  ASSUME AllTypes, AllTypes', PathInv, LineInv, SpotInv, StInv, RoomInv, [Next]_vars
  PROVE  RoomInv'
<1>1. CASE XmitLast
  <2>1. xm.st = 0
    BY <1>1 DEF XmitLast, StInv
  <2> QED BY <1>1, <2>1, RoomXmitLast
<1>2. CASE \/ NapiChain \/ NapiOut \/ NapiWake
           \/ \E t \in Tag : TimerExpire(t)
           \/ UNCHANGED vars
  <2>1. UNCHANGED <<ntc, head, unfetched, complq, moved>> /\ xpc' = xpc /\ xm' = xm
    BY <1>2 DEF NapiChain, NapiOut, NapiWake, TimerExpire, vars, xmitVars, ringVars, devVars,
                histVars
  <2>2. Claim' = Claim /\ Claim \in Nat
    BY <2>1, NeedIs DEF Claim, Need
  <2>3. Claim' <= Claim
    BY <2>2
  <2> QED BY <2>1, <2>3, RoomKeep
<1> QED BY <1>1, <1>2, RoomXmitStart, RoomXmitRecheck, RoomXmitBuild, RoomXmitOut,
           RoomNapiCompl, RoomDevice, NextIs DEF Steps

(* At first all of the ring is free.                                       *)
LEMMA RoomInit == Init => RoomInv /\ StInv
<1> SUFFICES ASSUME Init PROVE RoomInv /\ StInv
  OBVIOUS
<1>1. head = 0 /\ unfetched = <<>> /\ xpc = "idle" /\ ntc = 0 /\ complq = <<>>
  BY DEF Init
<1>2. AllTypes /\ LineInv
  BY TypesInit, TypesAre, LineInit
<1>3. Lag = 0
  <2>1. Lens(unfetched) \in Seq(Nat) /\ Len(Lens(unfetched)) = Len(unfetched)
    BY <1>2, SeqOf DEF AllTypes, TyUnf
  <2>2. Len(Lens(unfetched)) = 0
    BY <2>1, <1>1
  <2> QED BY <2>1, <2>2, UptoIs DEF Sum, Lag
<1>4. Off(head) = 0 /\ RingSize \in Nat \ {0}
  BY <1>1, Sizes DEF Off
<1>5. Ordered /\ Claim = 0
  BY <1>1 DEF Ordered, Claim
<1>6. Off(head) + Lag + Claim <= RingSize - 1
  BY <1>3, <1>4, <1>5
<1> QED BY <1>1, <1>5, <1>6 DEF RoomInv, StInv

(* Neither ring is overrun, whatever their sizes and the packets: what     *)
(* idpf_txq_has_room has seen free is free, although the poll moves        *)
(* next_to_clean and the device reads on, and the completion queue has     *)
(* room for what is owed.  The descriptor of a time stamp is written but   *)
(* not counted by idpf_txq_has_room, hence the hypothesis.                 *)
THEOREM SpecRingsFit ==
  ASSUME Stamps = {0}
  PROVE  Spec => []RingsFit
<1>1. Init => LineInv /\ SpotInv /\ RoomInv /\ StInv
  BY LineInit, RoomInit
<1>2. AllTypes /\ PathInv /\ AllTypes' /\ LineInv /\ SpotInv /\ RoomInv /\ StInv /\ [Next]_vars
        => LineInv' /\ SpotInv' /\ RoomInv' /\ StInv'
  BY LineNext, SpotNext, RoomNext, StNext
<1>3. AllTypes /\ StInv /\ RoomInv => NoOverrun
  <2> SUFFICES ASSUME AllTypes, StInv, RoomInv, ~ moved
               PROVE  Sum([k \in DOMAIN unfetched |-> unfetched[k].n])
                        + (IF xpc = "map" THEN xm.ctx + xm.st + Sum(xm.shape) ELSE 0)
                        <= RingSize - 1
    BY DEF NoOverrun
  <2>1. Sum([k \in DOMAIN unfetched |-> unfetched[k].n]) = Lag
    BY DEF Lag, Lens
  <2>2. Claim \in Nat /\ Off(head) \in Nat /\ Lag \in Nat /\ RingSize \in Nat
    BY NeedIs, OffIs
  <2>3. xpc = "map" => xm.ctx + xm.st + Sum(xm.shape) = Claim
    <3>1. xm.ctx \in Nat /\ Sum(xm.shape) \in Nat
      BY XmIs, SumNat DEF AllTypes, TyXm
    <3> QED BY <3>1 DEF StInv, Claim, Need
  <2>4. Off(head) + Lag + Claim <= RingSize - 1
    BY DEF RoomInv
  <2>5. Lag + Claim <= RingSize - 1 /\ Lag + 0 <= RingSize - 1
    BY <2>2, <2>4
  <2> QED BY <2>1, <2>3, <2>5
<1>4. TypeOK /\ NoOverrun /\ ComplqFits => RingsFit
  BY DEF RingsFit
<1> QED BY <1>1, <1>2, <1>3, <1>4, SpecTypes, SpecComplqFits, PTL DEF Spec
=============================================================================
