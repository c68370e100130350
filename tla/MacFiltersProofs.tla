--------------------------- MODULE MacFiltersProofs ---------------------------
(***************************************************************************)
(* Proofs about the filters of MacFilters, for any addresses, any size of  *)
(* a message, and any number of calls and failures.                        *)
(***************************************************************************)
EXTENDS MacFilters, FiniteSetTheorems, FunctionTheorems, SequenceTheorems,
        TLAPS

Stack == th["stack"]
Ctl   == th["ctl"]

Entry      == [mac : Macs, add : BOOLEAN, remove : BOOLEAN]
ThreadType == [pc : {"idle", "mark", "test_up", "collect", "send", "wait", "done"},
               fn : {"none", "sync", "unsync", "set_mac", "restore", "remove"},
               mac : Macs, batch : Seq(Macs), err : BOOLEAN, alone : BOOLEAN]
Modes      == [uc : BOOLEAN, mc : BOOLEAN]
Request    == [op : {"add", "del"}, macs : SUBSET Macs, wait : BOOLEAN]
              \cup [op : {"promisc"}, macs : Modes, wait : {FALSE}]

(* The addresses of the list that have a flag                              *)
ToAdd == {list[i].mac : i \in {j \in DOMAIN list : list[j].add}}
ToDel == {list[i].mac : i \in {j \in DOMAIN list : list[j].remove}}

(* What a thread has collected and not sent yet                            *)
StackTells == ToSet(Stack.batch)
CtlTells   == IF Ctl.pc = "wait" THEN ToSet(Rest(Ctl.batch))
              ELSE ToSet(Ctl.batch)
CtlAdds    == Ctl.fn \in {"set_mac", "restore"}

(* Whether the device has an address once it has executed the requests on  *)
(* their way: the last one about the address decides.                      *)
Tells(r, m) == r.op # "promisc" /\ m \in r.macs
FateIn(q, h, m) ==
  \/ m \in h /\ \A i \in DOMAIN q : ~ Tells(q[i], m)
  \/ \E i \in DOMAIN q : /\ q[i].op = "add" /\ Tells(q[i], m)
                         /\ \A j \in DOMAIN q : j > i => ~ Tells(q[j], m)
Fate(m) == FateIn(sendq, hw, m)

--------------------------------------------------------------------------------
(* The inductive invariant                                                 *)

Unique(s) == \A i, j \in DOMAIN s : s[i].mac = s[j].mac => i = j

TypeInv ==
  /\ up \in BOOLEAN /\ addr \in Macs /\ wanted \subseteq Macs
  /\ list \in Seq(Entry) /\ Unique(list)
  /\ th \in [Threads -> ThreadType]
  /\ sendq \in Seq(Request) /\ errs \in Seq(SUBSET Macs)
  /\ hw \subseteq Macs /\ unsent \subseteq Macs /\ left \subseteq Macs
  /\ dropped \subseteq Macs
  /\ flags \in [promisc : BOOLEAN, allmulti : BOOLEAN, uc : BOOLEAN,
                mc : BOOLEAN]
  /\ hwFlags \in Modes

(* Where the threads may be.  Two that are busy know of each other, and a  *)
(* thread that tells the device by itself finds the vport up.              *)
Placed(x) ==
  /\ x.pc = "idle" <=> x.fn = "none"
  /\ x.pc = "mark" => x.fn = "remove"
  /\ x.pc = "test_up" => x.fn \in {"sync", "unsync", "set_mac"}
  /\ x.pc \notin {"send", "wait"} => x.batch = <<>>
  /\ x.err => x.pc = "done"
PlaceInv ==
  /\ Stack.fn \in {"none", "sync", "unsync"} /\ Stack.pc \notin {"mark", "wait"}
  /\ Ctl.fn \in {"none", "set_mac", "restore", "remove"}
  /\ Placed(Stack) /\ Placed(Ctl)
  /\ Stack.pc # "idle" /\ Ctl.pc # "idle" => ~ Stack.alone /\ ~ Ctl.alone
  /\ up => Ctl.fn \notin {"restore", "remove"}
  /\ Stack.alone /\ Stack.pc \in {"collect", "send"} => up
  /\ Ctl.fn = "set_mac" /\ Ctl.pc \in {"collect", "send", "wait"} => up

(* The control thread waits for the answer to one request, which is the    *)
(* first part of its batch.                                                *)
WaitInv ==
  /\ \A i, j \in DOMAIN sendq : sendq[i].wait /\ sendq[j].wait => i = j
  /\ \A i \in DOMAIN sendq : sendq[i].wait =>
       /\ Ctl.pc = "wait"
       /\ sendq[i].op = IF CtlAdds THEN "add" ELSE "del"
       /\ sendq[i].macs = ToSet(Chunk(Ctl.batch))

(* From the moment a vport is opened, every filter of its list is known to *)
(* the device, or will be, or is on record as unsent.                      *)
Live == up \/ Ctl.fn = "restore"
WillTell(x, m) ==
  x.pc = "collect" \/ (x.pc = "test_up" /\ (up \/ x.mac = m))
AddInv ==
  Live => \A m \in Listed :
    \/ m \in unsent
    \/ Fate(m)
    \/ Stack.fn = "sync" /\ \/ m \in StackTells
                            \/ m \in ToAdd /\ WillTell(Stack, m)
    \/ CtlAdds /\ \/ m \in CtlTells
                  \/ m \in ToAdd /\ WillTell(Ctl, m)
    \/ Stack.fn = "unsync" /\ Stack.mac = m

(* What the device has, or will have, is in the list, or about to be       *)
(* removed, or on record as left behind.                                   *)
Removing(m) ==
  Ctl.fn = "remove" /\ \/ Ctl.pc = "mark" /\ m \in Listed
                       \/ Ctl.pc = "collect" /\ m \in ToDel
                       \/ m \in CtlTells
DelInv ==
  \A m \in Macs : Fate(m) =>
    \/ m \in left
    \/ Live /\ m \in Listed
    \/ Removing(m)
    \/ Stack.fn = "unsync" /\ m \in StackTells
BatchInv ==
  /\ Stack.fn = "sync" /\ Stack.alone => StackTells \subseteq left \cup Listed
  /\ CtlAdds /\ Ctl.alone => CtlTells \subseteq left \cup Listed

(* An address that is taken back without the other thread is removed from  *)
(* the device before it leaves the list.                                   *)
UnsyncInv ==
  Stack.fn = "unsync" /\ Stack.alone =>
    /\ Stack.mac # addr /\ Stack.mac \notin wanted
    /\ Stack.pc \in {"test_up", "collect"} /\ Fate(Stack.mac) =>
         Stack.mac \in left \cup ToDel
    /\ Stack.pc \in {"send", "done"} /\ ~ Stack.err /\ Fate(Stack.mac) =>
         Stack.mac \in left \cup StackTells

(* What the stack and the vport want, or are about to, is in the list or   *)
(* on record as dropped.                                                   *)
WantInv ==
  /\ wanted \cup {addr} \subseteq Listed \cup dropped
  /\ Stack.fn = "sync" => Stack.mac \in Listed \cup dropped
  /\ Ctl.fn = "set_mac" => Ctl.mac \in Listed \cup dropped

(* An opening that nobody interferes with goes through the whole list.     *)
HealInv ==
  Ctl.fn = "restore" /\ Ctl.alone /\ ~ Ctl.err =>
    /\ Ctl.pc = "collect" => Listed \subseteq ToAdd
    /\ Ctl.pc \in {"send", "wait", "done"} =>
         \A m \in Listed \ ToSet(Ctl.batch) :
           m \in hw /\ \A i \in DOMAIN sendq : ~ Tells(sendq[i], m)
    /\ Ctl.pc = "wait" => \A i, j \in DOMAIN sendq :
         sendq[i].wait /\ j > i => sendq[j].op = "promisc"

(* The last request about the promiscuous modes, or the device if there is *)
(* none, has the modes of user_flags, which follow those of the stack.     *)
UserModes == [uc |-> flags.uc, mc |-> flags.mc]
PromInv ==
  /\ flags.uc <=> flags.promisc
  /\ flags.allmulti => flags.mc
  /\ flags.mc => flags.allmulti \/ flags.promisc
  /\ ~ pfail =>
       \/ /\ hwFlags = UserModes
          /\ \A i \in DOMAIN sendq : sendq[i].op # "promisc"
       \/ \E i \in DOMAIN sendq :
            /\ sendq[i].op = "promisc" /\ sendq[i].macs = UserModes
            /\ \A j \in DOMAIN sendq : j > i => sendq[j].op # "promisc"

IInv ==
  /\ TypeInv /\ PlaceInv /\ WaitInv /\ AddInv /\ DelInv /\ BatchInv
  /\ UnsyncInv /\ WantInv /\ HealInv

--------------------------------------------------------------------------------
(* The list                                                                *)

(* The entries of the list and their flags, as sets                        *)
LEMMA Entries ==
  ASSUME list \in Seq(Entry)
  PROVE  /\ Listed \subseteq Macs /\ ToAdd \subseteq Listed
         /\ ToDel \subseteq Listed
         /\ DOMAIN list = 1 .. Len(list) /\ Len(list) \in Nat
         /\ \A i \in DOMAIN list :
              /\ list[i] \in Entry /\ list[i].mac \in Macs
              /\ list[i].add \in BOOLEAN /\ list[i].remove \in BOOLEAN
<1>1. /\ DOMAIN list = 1 .. Len(list) /\ Len(list) \in Nat
      /\ \A i \in DOMAIN list : list[i] \in Entry
  BY LenProperties
<1>2. \A i \in DOMAIN list : /\ list[i].mac \in Macs
                             /\ list[i].add \in BOOLEAN
                             /\ list[i].remove \in BOOLEAN
  BY <1>1 DEF Entry
<1> QED
  BY <1>1, <1>2 DEF Listed, ToAdd, ToDel

(* A list whose entries are changed, but not their addresses               *)
LEMMA Remade ==
  ASSUME list \in Seq(Entry), Unique(list),
         list' = [i \in DOMAIN list |-> list'[i]],
         \A i \in DOMAIN list : list'[i] \in Entry /\ list'[i].mac = list[i].mac
  PROVE  /\ list' \in Seq(Entry) /\ Unique(list') /\ Listed' = Listed
         /\ DOMAIN list' = DOMAIN list
<1>1. DOMAIN list' = DOMAIN list
  OBVIOUS
<1>2. DOMAIN list = 1 .. Len(list) /\ Len(list) \in Nat
  BY Entries
<1>3. list' \in [1 .. Len(list) -> Entry]
  BY <1>2
<1>4. list' \in Seq(Entry)
  BY <1>2, <1>3, SeqDef
<1> QED
  BY <1>1, <1>4 DEF Unique, Listed

(* The flags of a list of which only one address is changed                *)
LEMMA OneRemade ==
  ASSUME list \in Seq(Entry), Unique(list), NEW m \in Macs, NEW b \in BOOLEAN,
         list' = [i \in DOMAIN list |->
                    IF list[i].mac = m THEN [list[i] EXCEPT !.remove = b]
                    ELSE list[i]]
  PROVE  /\ list' \in Seq(Entry) /\ Unique(list') /\ Listed' = Listed
         /\ ToAdd' = ToAdd
         /\ ToDel' = (ToDel \ {m}) \cup (IF b THEN {m} \cap Listed ELSE {})
<1>1. ASSUME NEW i \in DOMAIN list
      PROVE  /\ list'[i] \in Entry /\ list'[i].mac = list[i].mac
             /\ list'[i].add = list[i].add
             /\ list'[i].remove = IF list[i].mac = m THEN b ELSE list[i].remove
  <2>1. list'[i] = IF list[i].mac = m THEN [list[i] EXCEPT !.remove = b]
                   ELSE list[i]
    OBVIOUS
  <2>2. list[i] \in Entry
    BY Entries
  <2>3. CASE list[i].mac = m
    <3>1. list'[i] = [list[i] EXCEPT !.remove = b]
      BY <2>1, <2>3
    <3>2. PICK e \in Entry : e = list[i]
      BY <2>2
    <3> DEFINE g == [e EXCEPT !.remove = b]
    <3>4. /\ g \in Entry /\ g.mac = e.mac
          /\ g.remove = b /\ g.add = e.add
      BY DEF Entry
    <3>5. list'[i] = g
      BY <3>1, <3>2
    <3> HIDE DEF g
    <3> QED
      BY <2>3, <3>2, <3>4, <3>5
  <2>4. CASE list[i].mac # m
    BY <2>1, <2>2, <2>4
  <2> QED
    BY <2>3, <2>4
<1>2. list' = [i \in DOMAIN list |-> list'[i]]
  OBVIOUS
<1>3. /\ list' \in Seq(Entry) /\ Unique(list') /\ Listed' = Listed
      /\ DOMAIN list' = DOMAIN list
  BY <1>1, <1>2, Remade
<1>4. ToAdd' = ToAdd
  <2>1. \A i \in DOMAIN list : list'[i].add <=> list[i].add
    BY <1>1
  <2> QED
    BY <1>1, <1>3, <2>1 DEF ToAdd
<1>5. ToDel' = (ToDel \ {m}) \cup (IF b THEN {m} \cap Listed ELSE {})
  BY SMTT(30), <1>1, <1>3 DEF ToDel, Listed
<1> QED
  BY <1>3, <1>4, <1>5

(* The flags of a list of which all addresses are changed                  *)
LEMMA AllRemade ==
  ASSUME list \in Seq(Entry), Unique(list), NEW b \in BOOLEAN
  PROVE  /\ list' = [i \in DOMAIN list |-> [list[i] EXCEPT !.add = b]] =>
              /\ list' \in Seq(Entry) /\ Unique(list') /\ Listed' = Listed
              /\ ToAdd' = (IF b THEN Listed ELSE {}) /\ ToDel' = ToDel
         /\ list' = [i \in DOMAIN list |-> [list[i] EXCEPT !.remove = b]] =>
              /\ list' \in Seq(Entry) /\ Unique(list') /\ Listed' = Listed
              /\ ToDel' = (IF b THEN Listed ELSE {}) /\ ToAdd' = ToAdd
<1>1. \A i \in DOMAIN list : list[i] \in Entry
  BY Entries
<1>2. ASSUME list' = [i \in DOMAIN list |-> [list[i] EXCEPT !.add = b]]
      PROVE  /\ list' \in Seq(Entry) /\ Unique(list') /\ Listed' = Listed
             /\ ToAdd' = (IF b THEN Listed ELSE {}) /\ ToDel' = ToDel
  <2>1. ASSUME NEW i \in DOMAIN list
        PROVE  /\ list'[i] \in Entry /\ list'[i].mac = list[i].mac
               /\ list'[i].add = b /\ list'[i].remove = list[i].remove
    <3>1. list'[i] = [list[i] EXCEPT !.add = b]
      BY <1>2
    <3>2. PICK e \in Entry : e = list[i]
      BY <1>1
    <3> DEFINE g == [e EXCEPT !.add = b]
    <3>4. /\ g \in Entry /\ g.mac = e.mac
          /\ g.add = b /\ g.remove = e.remove
      BY DEF Entry
    <3>5. list'[i] = g
      BY <3>1, <3>2
    <3> HIDE DEF g
    <3> QED
      BY <3>2, <3>4, <3>5
  <2>2. list' = [i \in DOMAIN list |-> list'[i]]
    BY <1>2
  <2>3. /\ list' \in Seq(Entry) /\ Unique(list') /\ Listed' = Listed
        /\ DOMAIN list' = DOMAIN list
    BY <2>1, <2>2, Remade
  <2> QED
    BY <2>1, <2>3 DEF ToAdd, ToDel, Listed
<1>3. ASSUME list' = [i \in DOMAIN list |-> [list[i] EXCEPT !.remove = b]]
      PROVE  /\ list' \in Seq(Entry) /\ Unique(list') /\ Listed' = Listed
             /\ ToDel' = (IF b THEN Listed ELSE {}) /\ ToAdd' = ToAdd
  <2>1. ASSUME NEW i \in DOMAIN list
        PROVE  /\ list'[i] \in Entry /\ list'[i].mac = list[i].mac
               /\ list'[i].remove = b /\ list'[i].add = list[i].add
    <3>1. list'[i] = [list[i] EXCEPT !.remove = b]
      BY <1>3
    <3>2. PICK e \in Entry : e = list[i]
      BY <1>1
    <3> DEFINE g == [e EXCEPT !.remove = b]
    <3>4. /\ g \in Entry /\ g.mac = e.mac
          /\ g.remove = b /\ g.add = e.add
      BY DEF Entry
    <3>5. list'[i] = g
      BY <3>1, <3>2
    <3> HIDE DEF g
    <3> QED
      BY <3>2, <3>4, <3>5
  <2>2. list' = [i \in DOMAIN list |-> list'[i]]
    BY <1>3
  <2>3. /\ list' \in Seq(Entry) /\ Unique(list') /\ Listed' = Listed
        /\ DOMAIN list' = DOMAIN list
    BY <2>1, <2>2, Remade
  <2> QED
    BY <2>1, <2>3 DEF ToAdd, ToDel, Listed
<1> QED
  BY <1>2, <1>3

(* __idpf_add_mac_filter: the address is listed, and not to be removed.    *)
LEMMA AddIs ==
  ASSUME list \in Seq(Entry), Unique(list), NEW m \in Macs, AddToList(m)
  PROVE  /\ list' \in Seq(Entry) /\ Unique(list')
         /\ Listed' = Listed \cup {m}
         /\ ToAdd' = ToAdd \cup ({m} \ Listed) /\ ToDel' = ToDel \ {m}
<1>1. CASE m \in Listed
  <2> DEFINE b == FALSE
  <2>1. /\ b \in BOOLEAN /\ ~ b
        /\ list' = [i \in DOMAIN list |->
                      IF list[i].mac = m THEN [list[i] EXCEPT !.remove = b]
                      ELSE list[i]]
    BY <1>1 DEF AddToList
  <2> HIDE DEF b
  <2>2. /\ list' \in Seq(Entry) /\ Unique(list') /\ Listed' = Listed
        /\ ToAdd' = ToAdd
        /\ ToDel' = (ToDel \ {m}) \cup (IF b THEN {m} \cap Listed ELSE {})
    BY <2>1, OneRemade
  <2> QED
    BY <1>1, <2>1, <2>2
<1>2. CASE m \notin Listed
  <2>1. list' = Append(list, Filter(m))
    BY <1>2 DEF AddToList
  <2>2. /\ Filter(m) \in Entry /\ Filter(m).mac = m
        /\ Filter(m).add = TRUE /\ Filter(m).remove = FALSE
    BY DEF Filter, Entry
  <2> HIDE DEF Filter
  <2>3. /\ list' \in Seq(Entry) /\ Len(list') = Len(list) + 1
        /\ list'[Len(list) + 1] = Filter(m)
        /\ \A i \in DOMAIN list : list'[i] = list[i]
    BY <2>1, <2>2, AppendProperties, Entries
  <2>4. DOMAIN list' = DOMAIN list \cup {Len(list) + 1}
    BY <2>3, LenProperties, Entries
  <2>5. \A i \in DOMAIN list : list[i].mac # m
    BY <1>2 DEF Listed
  <2>6. Unique(list')
    BY <2>2, <2>3, <2>4, <2>5 DEF Unique
  <2>7. Listed' = Listed \cup {m}
    BY <2>2, <2>3, <2>4 DEF Listed
  <2>8. ToAdd' = ToAdd \cup {m}
    BY <2>2, <2>3, <2>4 DEF ToAdd
  <2>9. ToDel' = ToDel
    BY <2>2, <2>3, <2>4 DEF ToDel
  <2>10. m \notin ToDel
    BY <1>2, Entries
  <2> QED
    BY <1>2, <2>3, <2>6, <2>7, <2>8, <2>9, <2>10
<1> QED
  BY <1>1, <1>2

(* The places of the list in a set, in order                               *)
LEMMA WalkIs ==
  ASSUME list \in Seq(Entry), NEW I, I \subseteq DOMAIN list, NEW f \in Walk(I)
  PROVE  /\ f \in Seq(I) /\ ToSet(f) = I /\ f \in Seq(DOMAIN list)
         /\ \A i, j \in DOMAIN f : f[i] = f[j] => i = j
<1>1. IsFiniteSet(I) /\ Cardinality(I) \in Nat
  <2>1. IsFiniteSet(DOMAIN list)
    <3>1. Len(list) \in Int /\ 1 \in Int /\ DOMAIN list = 1 .. Len(list)
      BY Entries
    <3> QED
      BY <3>1, FS_Interval
  <2>2. IsFiniteSet(I)
    BY <2>1, FS_Subset
  <2> QED
    BY <2>2, FS_CardinalityType
<1>2. f \in Seq(I)
  BY <1>1, SeqDef DEF Walk
<1>3. DOMAIN f \subseteq Nat
  BY <1>1 DEF Walk
<1>4. ASSUME NEW i \in DOMAIN f, NEW j \in DOMAIN f, f[i] = f[j]
      PROVE  i = j
  <2>1. f[i] \in I /\ f[j] \in I /\ I \subseteq Nat
    BY <1>4, Entries DEF Walk
  <2>2. i < j => f[i] < f[j]
    BY <1>4 DEF Walk
  <2>3. j < i => f[j] < f[i]
    BY <1>4 DEF Walk
  <2> QED
    BY <1>3, <1>4, <2>1, <2>2, <2>3
<1>5. f \in Seq(DOMAIN list)
  BY <1>2, LenProperties, SeqDef
<1> QED
  BY <1>2, <1>4, <1>5 DEF Walk

(* __idpf_del_mac_filter                                                   *)
LEMMA WithoutIs ==
  ASSUME list \in Seq(Entry), Unique(list), NEW ms, Without(ms)
  PROVE  /\ list' \in Seq(Entry) /\ Unique(list')
         /\ Listed' = Listed \ ms /\ ToAdd' = ToAdd \ ms /\ ToDel' = ToDel \ ms
<1> DEFINE I == {i \in DOMAIN list : list[i].mac \notin ms}
<1>1. PICK f \in Walk(I) : list' = [k \in DOMAIN f |-> list[f[k]]]
  BY DEF Without
<1>2. /\ f \in Seq(I) /\ ToSet(f) = I
      /\ \A i, j \in DOMAIN f : f[i] = f[j] => i = j
  BY WalkIs
<1>3. \A k \in DOMAIN f : f[k] \in I /\ list'[k] = list[f[k]]
  BY <1>1, <1>2, LenProperties
<1>4. DOMAIN list' = DOMAIN f /\ DOMAIN f = 1 .. Len(f) /\ Len(f) \in Nat
  BY <1>1, <1>2, LenProperties
<1>5. \A i \in I : \E k \in DOMAIN list' : f[k] = i
  BY <1>2, <1>4 DEF ToSet
<1>6. list' \in Seq(Entry)
  <2>1. \A k \in 1 .. Len(f) : list'[k] \in Entry
    BY <1>3, <1>4, Entries
  <2>2. list' \in [1 .. Len(f) -> Entry]
    BY <1>1, <1>4, <2>1
  <2> QED
    BY <1>4, <2>2, SeqDef
<1>7. Unique(list')
  BY <1>2, <1>3, <1>4 DEF Unique
<1>8. Listed' = Listed \ ms
  BY <1>3, <1>4, <1>5 DEF Listed
<1>9. ToAdd' = ToAdd \ ms
  BY <1>3, <1>4, <1>5 DEF ToAdd
<1>10. ToDel' = ToDel \ ms
  BY <1>3, <1>4, <1>5 DEF ToDel
<1> QED
  BY <1>6, <1>7, <1>8, <1>9, <1>10

--------------------------------------------------------------------------------
(* The threads                                                             *)

(* The fields of a thread                                                  *)
LEMMA ThreadIs ==
  ASSUME th \in [Threads -> ThreadType], NEW t \in Threads
  PROVE  /\ th[t].pc \in {"idle", "mark", "test_up", "collect", "send", "wait",
                          "done"}
         /\ th[t].fn \in {"none", "sync", "unsync", "set_mac", "restore",
                          "remove"}
         /\ th[t].mac \in Macs /\ th[t].batch \in Seq(Macs)
         /\ th[t].err \in BOOLEAN /\ th[t].alone \in BOOLEAN
         /\ Other(t) \in Threads \ {t} /\ Threads = {t, Other(t)}
<1>1. th[t] \in ThreadType
  OBVIOUS
<1> QED
  BY <1>1 DEF ThreadType, Threads, Other

(* A thread begins, and the other learns of it.                            *)
LEMMA StartIs ==
  ASSUME th \in [Threads -> ThreadType], NEW t \in Threads, NEW m \in Macs,
         NEW fn \in {"none", "sync", "unsync", "set_mac", "restore", "remove"},
         NEW pc \in {"idle", "mark", "test_up", "collect", "send", "wait",
                     "done"},
         Start(t, fn, m, pc)
  PROVE  /\ th' \in [Threads -> ThreadType]
         /\ th'[t].pc = pc /\ th'[t].fn = fn /\ th'[t].mac = m
         /\ th'[t].batch = <<>> /\ ~ th'[t].err
         /\ th'[t].alone <=> th[Other(t)].pc = "idle"
         /\ LET o == Other(t) IN
            /\ th'[o].pc = th[o].pc /\ th'[o].fn = th[o].fn
            /\ th'[o].mac = th[o].mac /\ th'[o].batch = th[o].batch
            /\ th'[o].err <=> th[o].err
            /\ th'[o].alone <=> th[o].alone /\ th[o].pc = "idle"
<1> DEFINE o == Other(t)
           p == th[o].pc
           x == [IdleThread EXCEPT !.pc = pc, !.fn = fn, !.mac = m]
           y == [x EXCEPT !.alone = (p = "idle")]
           z == [th[o] EXCEPT !.alone = th[o].alone /\ (p = "idle")]
<1>1. /\ o \in Threads /\ o # t /\ Threads = {t, o} /\ th[o] \in ThreadType
  BY ThreadIs
<1>2. th'[t] = y /\ th'[o] = z
  BY <1>1 DEF Start
<1>13. th' = [u \in Threads |-> th'[u]]
  BY <1>1 DEF Start
<1> HIDE DEF o, p
<1>3. IdleThread \in ThreadType /\ IdleThread.batch = <<>> /\ ~ IdleThread.err
  BY AddrAssumption DEF IdleThread, ThreadType
<1>4. /\ x \in ThreadType /\ x.pc = pc /\ x.fn = fn /\ x.mac = m
      /\ x.batch = <<>> /\ ~ x.err
  BY <1>3 DEF ThreadType
<1> HIDE DEF x
<1>5. /\ y \in ThreadType /\ y.pc = x.pc /\ y.fn = x.fn /\ y.mac = x.mac
      /\ y.batch = x.batch
  BY <1>4 DEF ThreadType
<1>6. y.err <=> x.err
  BY <1>4 DEF ThreadType
<1>7. y.alone <=> p = "idle"
  BY <1>4 DEF ThreadType
<1> HIDE DEF y
<1>8. /\ z \in ThreadType /\ z.pc = th[o].pc /\ z.fn = th[o].fn
      /\ z.mac = th[o].mac /\ z.batch = th[o].batch
  BY <1>1 DEF ThreadType
<1>9. z.err <=> th[o].err
  BY <1>1 DEF ThreadType
<1>10. z.alone <=> th[o].alone /\ p = "idle"
  BY <1>1 DEF ThreadType
<1> HIDE DEF z
<1>11. th' \in [Threads -> ThreadType]
  BY <1>1, <1>2, <1>5, <1>8, <1>13
<1> QED
  BY <1>2, <1>4, <1>5, <1>6, <1>7, <1>8, <1>9, <1>10, <1>11 DEF o, p

(* A thread goes to another place.                                         *)
LEMMA GotoIs ==
  ASSUME th \in [Threads -> ThreadType], NEW t \in Threads,
         NEW pc \in {"idle", "mark", "test_up", "collect", "send", "wait",
                     "done"},
         Goto(t, pc)
  PROVE  /\ th' \in [Threads -> ThreadType]
         /\ th'[t].pc = pc /\ th'[t].fn = th[t].fn /\ th'[t].mac = th[t].mac
         /\ th'[t].batch = th[t].batch /\ (th'[t].err <=> th[t].err)
         /\ th'[t].alone <=> th[t].alone
         /\ th'[Other(t)] = th[Other(t)]
<1>1. th[t] \in ThreadType /\ Other(t) \in Threads \ {t}
  BY ThreadIs
<1>2. th'[t] = [th[t] EXCEPT !.pc = pc] /\ th'[Other(t)] = th[Other(t)]
  BY <1>1 DEF Goto
<1>3. th'[t] \in ThreadType
  BY <1>1, <1>2 DEF ThreadType
<1>4. th' \in [Threads -> ThreadType]
  BY <1>3 DEF Goto
<1> QED
  BY <1>1, <1>2, <1>4 DEF ThreadType

(* A thread is done with the device.                                       *)
LEMMA DoneIs ==
  ASSUME th \in [Threads -> ThreadType], NEW t \in Threads, Done(t, FALSE)
  PROVE  /\ th' \in [Threads -> ThreadType]
         /\ th'[t].pc = "done" /\ th'[t].fn = th[t].fn
         /\ th'[t].mac = th[t].mac /\ th'[t].batch = <<>> /\ ~ th'[t].err
         /\ th'[t].alone <=> th[t].alone
         /\ th'[Other(t)] = th[Other(t)]
<1> DEFINE x == th[t]
           z == [x EXCEPT !.pc = "done", !.batch = <<>>]
           y == [z EXCEPT !.err = FALSE]
<1>1. x \in ThreadType /\ Other(t) \in Threads \ {t}
  BY ThreadIs
<1> HIDE DEF x
<1>2. /\ z \in ThreadType /\ z.pc = "done" /\ z.fn = x.fn /\ z.mac = x.mac
      /\ z.batch = <<>> /\ (z.alone <=> x.alone)
  <2>1. z \in ThreadType
    <3>1. PICK b \in Seq(Macs) : b = <<>>
      BY EmptySeq
    <3>2. [x EXCEPT !.pc = "done", !.batch = b] \in ThreadType
      BY <1>1 DEF ThreadType
    <3> QED
      BY <3>1, <3>2
  <2>2. z.pc = "done" /\ z.fn = x.fn /\ z.mac = x.mac /\ z.batch = <<>>
    BY <1>1 DEF ThreadType
  <2>3. z.alone <=> x.alone
    BY <1>1 DEF ThreadType
  <2> QED
    BY <2>1, <2>2, <2>3
<1>3. th' = [th EXCEPT ![t] = y]
  BY DEF Done, x
<1> HIDE DEF z
<1>4. /\ y \in ThreadType /\ y.pc = z.pc /\ y.fn = z.fn /\ y.mac = z.mac
      /\ y.batch = z.batch
  BY <1>2 DEF ThreadType
<1>5. ~ y.err
  BY <1>2 DEF ThreadType
<1>6. y.alone <=> z.alone
  BY <1>2 DEF ThreadType
<1> HIDE DEF y
<1>7. th'[t] = y /\ th'[Other(t)] = th[Other(t)]
  BY <1>1, <1>3
<1>8. th' \in [Threads -> ThreadType]
  BY <1>3, <1>4
<1> QED
  BY <1>2, <1>4, <1>5, <1>6, <1>7, <1>8 DEF x

(* A thread has failed to tell the device.                                 *)
LEMMA FailedIs ==
  ASSUME th \in [Threads -> ThreadType], NEW t \in Threads, Done(t, TRUE)
  PROVE  /\ th' \in [Threads -> ThreadType]
         /\ th'[t].pc = "done" /\ th'[t].fn = th[t].fn
         /\ th'[t].mac = th[t].mac /\ th'[t].batch = <<>> /\ th'[t].err
         /\ th'[t].alone <=> th[t].alone
         /\ th'[Other(t)] = th[Other(t)]
<1> DEFINE x == th[t]
           z == [x EXCEPT !.pc = "done", !.batch = <<>>]
           y == [z EXCEPT !.err = TRUE]
<1>1. x \in ThreadType /\ Other(t) \in Threads \ {t}
  BY ThreadIs
<1> HIDE DEF x
<1>2. /\ z \in ThreadType /\ z.pc = "done" /\ z.fn = x.fn /\ z.mac = x.mac
      /\ z.batch = <<>> /\ (z.alone <=> x.alone)
  <2>1. z \in ThreadType
    <3>1. PICK b \in Seq(Macs) : b = <<>>
      BY EmptySeq
    <3>2. [x EXCEPT !.pc = "done", !.batch = b] \in ThreadType
      BY <1>1 DEF ThreadType
    <3> QED
      BY <3>1, <3>2
  <2>2. z.pc = "done" /\ z.fn = x.fn /\ z.mac = x.mac /\ z.batch = <<>>
    BY <1>1 DEF ThreadType
  <2>3. z.alone <=> x.alone
    BY <1>1 DEF ThreadType
  <2> QED
    BY <2>1, <2>2, <2>3
<1>3. th' = [th EXCEPT ![t] = y]
  BY DEF Done, x
<1> HIDE DEF z
<1>4. /\ y \in ThreadType /\ y.pc = z.pc /\ y.fn = z.fn /\ y.mac = z.mac
      /\ y.batch = z.batch
  BY <1>2 DEF ThreadType
<1>5. y.err
  BY <1>2 DEF ThreadType
<1>6. y.alone <=> z.alone
  BY <1>2 DEF ThreadType
<1> HIDE DEF y
<1>7. th'[t] = y /\ th'[Other(t)] = th[Other(t)]
  BY <1>1, <1>3
<1>8. th' \in [Threads -> ThreadType]
  BY <1>3, <1>4
<1> QED
  BY <1>2, <1>4, <1>5, <1>6, <1>7, <1>8 DEF x

(* A thread has another part of its batch left.                            *)
LEMMA BatchIs ==
  ASSUME th \in [Threads -> ThreadType], NEW t \in Threads, NEW b \in Seq(Macs),
         NEW pc \in {"idle", "mark", "test_up", "collect", "send", "wait",
                     "done"},
         th' = [th EXCEPT ![t].pc = pc, ![t].batch = b]
  PROVE  /\ th' \in [Threads -> ThreadType]
         /\ th'[t].pc = pc /\ th'[t].fn = th[t].fn /\ th'[t].mac = th[t].mac
         /\ th'[t].batch = b /\ (th'[t].err <=> th[t].err)
         /\ th'[t].alone <=> th[t].alone
         /\ th'[Other(t)] = th[Other(t)]
<1>1. th[t] \in ThreadType /\ Other(t) \in Threads \ {t}
  BY ThreadIs
<1> DEFINE y == [th[t] EXCEPT !.pc = pc, !.batch = b]
<1>2. th' = [th EXCEPT ![t] = y]
  OBVIOUS
<1>3. /\ y \in ThreadType /\ y.pc = pc /\ y.fn = th[t].fn
      /\ y.mac = th[t].mac /\ y.batch = b /\ (y.err <=> th[t].err)
      /\ y.alone <=> th[t].alone
  BY <1>1 DEF ThreadType
<1> HIDE DEF y
<1>4. th'[t] = y /\ th'[Other(t)] = th[Other(t)]
  BY <1>1, <1>2
<1>5. th' \in [Threads -> ThreadType]
  BY <1>2, <1>3
<1> QED
  BY <1>3, <1>4, <1>5

(* A thread goes on with another part of its batch.                        *)
LEMMA RestIs ==
  ASSUME th \in [Threads -> ThreadType], NEW t \in Threads, NEW b \in Seq(Macs),
         th' = [th EXCEPT ![t].batch = b]
  PROVE  /\ th' \in [Threads -> ThreadType]
         /\ th'[t].pc = th[t].pc /\ th'[t].fn = th[t].fn /\ th'[t].mac = th[t].mac
         /\ th'[t].batch = b /\ (th'[t].err <=> th[t].err)
         /\ th'[t].alone <=> th[t].alone
         /\ th'[Other(t)] = th[Other(t)]
<1>1. th[t] \in ThreadType /\ Other(t) \in Threads \ {t}
  BY ThreadIs
<1> DEFINE y == [th[t] EXCEPT !.batch = b]
<1>2. th' = [th EXCEPT ![t] = y]
  OBVIOUS
<1>3. /\ y \in ThreadType /\ y.pc = th[t].pc /\ y.fn = th[t].fn
      /\ y.mac = th[t].mac /\ y.batch = b /\ (y.err <=> th[t].err)
      /\ y.alone <=> th[t].alone
  BY <1>1 DEF ThreadType
<1> HIDE DEF y
<1>4. th'[t] = y /\ th'[Other(t)] = th[Other(t)]
  BY <1>1, <1>2
<1>5. th' \in [Threads -> ThreadType]
  BY <1>2, <1>3
<1> QED
  BY <1>3, <1>4, <1>5

(* A thread has returned.                                                  *)
LEMMA IdleIs ==
  ASSUME th \in [Threads -> ThreadType], NEW t \in Threads,
         th' = [th EXCEPT ![t] = IdleThread]
  PROVE  /\ th' \in [Threads -> ThreadType]
         /\ th'[t].pc = "idle" /\ th'[t].fn = "none" /\ th'[t].batch = <<>>
         /\ ~ th'[t].err
         /\ th'[Other(t)] = th[Other(t)]
<1>1. /\ IdleThread \in ThreadType /\ IdleThread.pc = "idle"
      /\ IdleThread.fn = "none" /\ IdleThread.batch = <<>> /\ ~ IdleThread.err
  BY AddrAssumption DEF IdleThread, ThreadType
<1>2. Other(t) \in Threads \ {t}
  BY ThreadIs
<1> QED
  BY <1>1, <1>2

(* The parts of a batch                                                    *)
LEMMA Parts ==
  ASSUME NEW b \in Seq(Macs)
  PROVE  /\ Chunk(b) \in Seq(Macs) /\ Rest(b) \in Seq(Macs)
         /\ ToSet(b) \subseteq Macs
         /\ ToSet(b) = ToSet(Chunk(b)) \cup ToSet(Rest(b))
<1> DEFINE n == IF Len(b) < PerMsg THEN Len(b) ELSE PerMsg
<1>1. /\ n \in Nat /\ n <= Len(b) /\ Len(b) \in Nat /\ DOMAIN b = 1 .. Len(b)
      /\ \A i \in 1 .. Len(b) : b[i] \in Macs
  BY BoundsAssumption, LenProperties
<1>2. Chunk(b) = SubSeq(b, 1, n)
  BY DEF Chunk
<1> HIDE DEF n
<1>3. /\ Chunk(b) \in Seq(Macs) /\ Len(Chunk(b)) = n
      /\ DOMAIN Chunk(b) = 1 .. n
      /\ \A i \in 1 .. n : Chunk(b)[i] = b[i]
  BY <1>1, <1>2, SubSeqProperties, LenProperties
<1>4. /\ Rest(b) \in Seq(Macs) /\ DOMAIN Rest(b) = 1 .. Len(b) - n
      /\ \A i \in 1 .. Len(b) - n : Rest(b)[i] = b[n + i]
  <2>1. Rest(b) = SubSeq(b, n + 1, Len(b))
    BY <1>3 DEF Rest
  <2>2. CASE n = Len(b)
    <3>1. PICK x \in Int : x = n + 1 /\ Len(b) < x
      BY <1>1, <2>2
    <3>2. Rest(b) = <<>>
      BY <1>1, <2>1, <3>1, SubSeqEmpty
    <3>3. 1 .. Len(b) - n = {} /\ DOMAIN Rest(b) = {}
      BY <1>1, <2>2, <3>2
    <3> QED
      BY <3>2, <3>3
  <2>3. CASE n < Len(b)
    <3>1. PICK x \in Int : x = n + 1
      BY <1>1
    <3>2. \A i \in x .. Len(b) : b[i] \in Macs
      BY <1>1, <3>1
    <3>3. /\ Rest(b) \in Seq(Macs)
          /\ Len(Rest(b)) = IF x <= Len(b) THEN Len(b) - x + 1 ELSE 0
          /\ \A i \in 1 .. Len(b) - x + 1 : Rest(b)[i] = b[x + i - 1]
      BY <1>1, <2>1, <3>1, <3>2, SubSeqProperties
    <3>4. /\ Len(b) - x + 1 = Len(b) - n /\ x <= Len(b)
          /\ \A i \in Nat : x + i - 1 = n + i
      BY <1>1, <2>3, <3>1
    <3>5. ASSUME NEW i \in 1 .. Len(b) - n PROVE Rest(b)[i] = b[n + i]
      <4>1. Rest(b)[i] = b[x + i - 1]
        BY <3>3, <3>4
      <4>2. x + i - 1 = n + i
        BY <1>1, <3>4
      <4> QED
        BY <4>1, <4>2
    <3> QED
      BY <3>3, <3>4, <3>5, LenProperties
  <2>4. n = Len(b) \/ n < Len(b)
    <3>1. n \in Nat /\ Len(b) \in Nat /\ n <= Len(b)
      BY <1>1
    <3> QED
      BY <3>1
  <2> QED
    BY <2>2, <2>3, <2>4
<1>5. ToSet(Chunk(b)) \cup ToSet(Rest(b)) \subseteq ToSet(b)
  <2>1. \A i \in 1 .. Len(b) - n : n + i \in DOMAIN b
    BY <1>1
  <2>2. ToSet(Rest(b)) \subseteq ToSet(b)
    BY <1>4, <2>1 DEF ToSet
  <2>3. ToSet(Chunk(b)) \subseteq ToSet(b)
    BY <1>1, <1>3 DEF ToSet
  <2> QED
    BY <2>2, <2>3
<1>6. ASSUME NEW i \in DOMAIN b
      PROVE  b[i] \in ToSet(Chunk(b)) \cup ToSet(Rest(b))
  <2>1. CASE i <= n
    BY <1>1, <1>3, <1>6, <2>1 DEF ToSet
  <2>2. CASE i > n
    <3>1. i - n \in 1 .. Len(b) - n /\ n + (i - n) = i
      BY <1>1, <1>6, <2>2
    <3> QED
      BY <1>4, <3>1 DEF ToSet
  <2> QED
    BY <1>1, <1>6, <2>1, <2>2
<1>7. ToSet(b) \subseteq ToSet(Chunk(b)) \cup ToSet(Rest(b))
  BY <1>6 DEF ToSet
<1>8. ToSet(b) \subseteq Macs
  BY <1>1 DEF ToSet
<1> QED
  BY <1>3, <1>4, <1>5, <1>7, <1>8

--------------------------------------------------------------------------------
(* The requests on their way                                               *)

(* The fields of a request                                                 *)
LEMMA RequestIs ==
  ASSUME NEW r \in Request
  PROVE  /\ r.op \in {"add", "del", "promisc"}
         /\ r.op # "promisc" => r.macs \subseteq Macs
         /\ r.op = "promisc" => r.macs \in Modes /\ ~ r.wait
         /\ r.wait \in BOOLEAN
<1>1. CASE r \in [op : {"add", "del"}, macs : SUBSET Macs, wait : BOOLEAN]
  BY <1>1
<1>2. CASE r \in [op : {"promisc"}, macs : Modes, wait : {FALSE}]
  BY <1>2
<1> QED
  BY <1>1, <1>2 DEF Request

(* The addresses that requests are about                                   *)
LEMMA AboutIs ==
  ASSUME NEW q, NEW m
  PROVE  m \in About(q) <=> \E i \in DOMAIN q : Tells(q[i], m)
BY DEF About, Tells

(* A request is sent.                                                      *)
LEMMA FateSent ==
  ASSUME NEW q \in Seq(Request), NEW r \in Request, NEW h, NEW m
  PROVE  /\ Tells(r, m) => (FateIn(Append(q, r), h, m) <=> r.op = "add")
         /\ ~ Tells(r, m) => (FateIn(Append(q, r), h, m) <=> FateIn(q, h, m))
<1>1. /\ Len(q) \in Nat /\ DOMAIN q = 1 .. Len(q)
      /\ DOMAIN Append(q, r) = 1 .. Len(q) + 1
      /\ Append(q, r)[Len(q) + 1] = r
      /\ \A i \in DOMAIN q : Append(q, r)[i] = q[i]
  BY AppendProperties, LenProperties
<1> DEFINE p == Append(q, r)
           n == Len(q) + 1
<1>2. /\ n \in DOMAIN p /\ p[n] = r
      /\ \A i \in DOMAIN p : i = n \/ (i \in DOMAIN q /\ i < n /\ p[i] = q[i])
      /\ \A i \in DOMAIN q : i \in DOMAIN p /\ i < n /\ p[i] = q[i] /\ ~ n < i
  BY <1>1
<1> HIDE DEF p, n
<1>3. CASE Tells(r, m)
  <2>1. ASSUME FateIn(p, h, m) PROVE r.op = "add"
    BY <1>2, <1>3, <2>1 DEF FateIn
  <2>2. ASSUME r.op = "add" PROVE FateIn(p, h, m)
    <3>1. \A j \in DOMAIN p : ~ j > n
      BY <1>1, <1>2 DEF p, n
    <3> QED
      BY <1>2, <1>3, <2>2, <3>1 DEF FateIn
  <2> QED
    BY <1>3, <2>1, <2>2 DEF p
<1>4. CASE ~ Tells(r, m)
  <2>1. (\A i \in DOMAIN p : ~ Tells(p[i], m)) <=> \A i \in DOMAIN q : ~ Tells(q[i], m)
    BY <1>2, <1>4
  <2>2. ASSUME NEW i \in DOMAIN q
        PROVE  (\A j \in DOMAIN p : j > i => ~ Tells(p[j], m))
                 <=> \A j \in DOMAIN q : j > i => ~ Tells(q[j], m)
    BY <1>2, <1>4
  <2>3. (\E i \in DOMAIN p : /\ p[i].op = "add" /\ Tells(p[i], m)
                             /\ \A j \in DOMAIN p : j > i => ~ Tells(p[j], m))
        <=> \E i \in DOMAIN q : /\ q[i].op = "add" /\ Tells(q[i], m)
                                /\ \A j \in DOMAIN q : j > i => ~ Tells(q[j], m)
    BY <1>2, <1>4, <2>2
  <2> QED
    BY <1>4, <2>1, <2>3 DEF FateIn, p
<1> QED
  BY <1>3, <1>4

(* The first request is taken off the queue.                               *)
LEMMA TailIs ==
  ASSUME NEW q \in Seq(Request), q # <<>>
  PROVE  /\ Head(q) \in Request /\ Tail(q) \in Seq(Request)
         /\ 1 \in DOMAIN q /\ q[1] = Head(q)
         /\ \A i \in DOMAIN q : i >= 1
         /\ \A i \in DOMAIN Tail(q) : i + 1 \in DOMAIN q /\ i + 1 > 1
                                      /\ Tail(q)[i] = q[i + 1]
         /\ \A i \in DOMAIN q : i # 1 => i - 1 \in DOMAIN Tail(q)
                                         /\ Tail(q)[i - 1] = q[i]
         /\ \A i, j \in DOMAIN Tail(q) : i > j <=> i + 1 > j + 1
<1>1. /\ Head(q) \in Request /\ Tail(q) \in Seq(Request)
      /\ Len(Tail(q)) = Len(q) - 1 /\ q[1] = Head(q)
      /\ \A i \in 1 .. Len(q) - 1 : Tail(q)[i] = q[i + 1]
  BY HeadTailProperties
<1>2. /\ DOMAIN q = 1 .. Len(q) /\ Len(q) \in Nat \ {0}
      /\ DOMAIN Tail(q) = 1 .. Len(q) - 1
  BY <1>1, LenProperties, EmptySeq
<1>3. ASSUME NEW i \in DOMAIN q, i # 1
      PROVE  i - 1 \in DOMAIN Tail(q) /\ Tail(q)[i - 1] = q[i]
  <2>1. PICK k \in 1 .. Len(q) - 1 : k = i - 1 /\ k + 1 = i
    BY <1>2, <1>3
  <2> QED
    BY <1>1, <1>2, <2>1
<1>4. \A i, j \in DOMAIN Tail(q) : i > j <=> i + 1 > j + 1
  BY <1>2
<1> QED
  BY <1>1, <1>2, <1>3, <1>4

(* What the rest of the queue says of an address, and what all of it says  *)
LEMMA FateTail ==
  ASSUME NEW q \in Seq(Request), q # <<>>, NEW m, NEW h, NEW g
  PROVE  /\ m \in About(Tail(q)) => (FateIn(Tail(q), g, m) <=> FateIn(q, h, m))
         /\ m \notin About(Tail(q)) /\ Tells(Head(q), m) =>
              /\ FateIn(Tail(q), g, m) <=> m \in g
              /\ FateIn(q, h, m) <=> Head(q).op = "add"
         /\ m \notin About(Tail(q)) /\ ~ Tells(Head(q), m) =>
              /\ FateIn(Tail(q), g, m) <=> m \in g
              /\ FateIn(q, h, m) <=> m \in h
         /\ m \in About(q) <=> m \in About(Tail(q)) \/ Tells(Head(q), m)
<1> DEFINE p == Tail(q)
           LastAdds(s) == \E i \in DOMAIN s :
                        /\ s[i].op = "add" /\ Tells(s[i], m)
                        /\ \A j \in DOMAIN s : j > i => ~ Tells(s[j], m)
<1>1. /\ 1 \in DOMAIN q /\ q[1] = Head(q)
      /\ \A i \in DOMAIN q : i >= 1
      /\ \A i \in DOMAIN p : i + 1 \in DOMAIN q /\ i + 1 > 1 /\ p[i] = q[i + 1]
      /\ \A i \in DOMAIN q : i # 1 => i - 1 \in DOMAIN p /\ p[i - 1] = q[i]
      /\ \A i, j \in DOMAIN p : i > j <=> i + 1 > j + 1
      /\ DOMAIN q \subseteq Nat /\ DOMAIN p \subseteq Nat
  BY TailIs, LenProperties
<1>2. m \in About(p) <=> \E i \in DOMAIN p : Tells(p[i], m)
  BY AboutIs
<1>3. m \in About(q) <=> \E i \in DOMAIN q : Tells(q[i], m)
  BY AboutIs
<1> HIDE DEF p
<1>4. \A i \in DOMAIN q : Tells(q[i], m) =>
        (i = 1 /\ Tells(Head(q), m)) \/ (i # 1 /\ \E k \in DOMAIN p : k + 1 = i /\ Tells(p[k], m))
  <2>1. ASSUME NEW i \in DOMAIN q, i # 1, Tells(q[i], m)
        PROVE  \E k \in DOMAIN p : k + 1 = i /\ Tells(p[k], m)
    <3>1. PICK k \in DOMAIN p : k = i - 1 /\ p[k] = q[i]
      BY <1>1, <2>1
    <3>2. k + 1 = i
      BY <1>1, <3>1
    <3> QED
      BY <2>1, <3>1, <3>2
  <2> QED
    BY <1>1, <2>1
<1>5. m \in About(q) <=> m \in About(p) \/ Tells(Head(q), m)
  BY <1>1, <1>2, <1>3, <1>4
<1>6. CASE m \in About(p)
  <2>1. PICK n \in DOMAIN p : Tells(p[n], m)
    BY <1>2, <1>6
  <2>2. ASSUME LastAdds(p) PROVE LastAdds(q)
    <3>1. PICK i \in DOMAIN p : /\ p[i].op = "add" /\ Tells(p[i], m)
                                /\ \A j \in DOMAIN p : j > i => ~ Tells(p[j], m)
      BY <2>2
    <3>2. PICK l \in DOMAIN q : l = i + 1
      BY <1>1
    <3>3. ASSUME NEW j \in DOMAIN q, j > l, Tells(q[j], m) PROVE FALSE
      <4>1. PICK k \in DOMAIN p : k + 1 = j /\ Tells(p[k], m)
        <5>1. j # 1
          BY <1>1, <3>2, <3>3
        <5> QED
          BY <1>4, <3>3, <5>1
      <4>2. k > i
        BY <1>1, <3>2, <3>3, <4>1
      <4> QED
        BY <3>1, <4>1, <4>2
    <3> QED
      BY <1>1, <3>1, <3>2, <3>3
  <2>3. ASSUME LastAdds(q) PROVE LastAdds(p)
    <3>1. PICK l \in DOMAIN q : /\ q[l].op = "add" /\ Tells(q[l], m)
                                /\ \A j \in DOMAIN q : j > l => ~ Tells(q[j], m)
      BY <2>3
    <3>2. l # 1
      BY <1>1, <2>1, <3>1
    <3>3. PICK i \in DOMAIN p : i + 1 = l /\ p[i] = q[l]
      BY <1>1, <1>4, <3>1, <3>2
    <3>4. \A j \in DOMAIN p : j > i => ~ Tells(p[j], m)
      BY <1>1, <3>1, <3>3
    <3> QED
      BY <3>1, <3>3, <3>4
  <2>4. \E i \in DOMAIN q : Tells(q[i], m)
    BY <1>3, <1>5, <1>6
  <2>5. (FateIn(p, g, m) <=> LastAdds(p)) /\ (FateIn(q, h, m) <=> LastAdds(q))
    BY <2>1, <2>4 DEF FateIn
  <2> QED
    BY <1>5, <1>6, <2>2, <2>3, <2>5 DEF p
<1>7. CASE m \notin About(p)
  <2>1. \A i \in DOMAIN p : ~ Tells(p[i], m)
    BY <1>2, <1>7
  <2>2. FateIn(p, g, m) <=> m \in g
    BY <2>1 DEF FateIn
  <2>3. \A i \in DOMAIN q : i # 1 => ~ Tells(q[i], m)
    BY <1>4, <2>1
  <2>4. CASE Tells(Head(q), m)
    <3>1. LastAdds(q) <=> Head(q).op = "add"
      BY <1>1, <2>3, <2>4
    <3>2. FateIn(q, h, m) <=> LastAdds(q)
      BY <1>1, <2>4 DEF FateIn
    <3> QED
      BY <1>5, <1>7, <2>2, <2>4, <3>1, <3>2 DEF p
  <2>5. CASE ~ Tells(Head(q), m)
    <3>1. \A i \in DOMAIN q : ~ Tells(q[i], m)
      BY <1>1, <2>3, <2>5
    <3>2. FateIn(q, h, m) <=> m \in h
      BY <3>1 DEF FateIn
    <3> QED
      BY <1>5, <1>7, <2>2, <2>5, <3>2 DEF p
  <2> QED
    BY <2>4, <2>5
<1> QED
  BY <1>6, <1>7 DEF p

(* The requests of one who no longer waits                                 *)
LEMMA FateUnwaited ==
  ASSUME NEW q \in Seq(Request), NEW h, NEW m, NEW p,
         p = [i \in DOMAIN q |-> [q[i] EXCEPT !.wait = FALSE]]
  PROVE  /\ p \in Seq(Request) /\ \A i \in DOMAIN p : ~ p[i].wait
         /\ DOMAIN p = DOMAIN q /\ \A i \in DOMAIN q : p[i].op = q[i].op
         /\ \A i \in DOMAIN q : Tells(p[i], m) <=> Tells(q[i], m)
         /\ FateIn(p, h, m) <=> FateIn(q, h, m)
<1>1. DOMAIN q = 1 .. Len(q) /\ Len(q) \in Nat
      /\ \A i \in DOMAIN q : q[i] \in Request
  BY LenProperties
<1>2. ASSUME NEW i \in DOMAIN q
      PROVE  /\ p[i] \in Request /\ ~ p[i].wait
             /\ p[i].op = q[i].op /\ p[i].macs = q[i].macs
  <2>1. q[i] \in Request /\ p[i] = [q[i] EXCEPT !.wait = FALSE]
    BY <1>1
  <2>2. CASE q[i] \in [op : {"add", "del"}, macs : SUBSET Macs, wait : BOOLEAN]
    BY <2>1, <2>2 DEF Request
  <2>3. CASE q[i] \in [op : {"promisc"}, macs : Modes, wait : {FALSE}]
    BY <2>1, <2>3 DEF Request
  <2> QED
    BY <2>1, <2>2, <2>3 DEF Request
<1>3. DOMAIN p = DOMAIN q
  OBVIOUS
<1>4. p \in Seq(Request)
  BY <1>1, <1>2, SeqDef
<1>5. \A i \in DOMAIN q : Tells(p[i], m) <=> Tells(q[i], m)
  BY <1>2 DEF Tells
<1>6. (\A i \in DOMAIN p : ~ Tells(p[i], m)) <=> \A i \in DOMAIN q : ~ Tells(q[i], m)
  BY <1>3, <1>5
<1>7. ASSUME NEW i \in DOMAIN q
      PROVE  (\A j \in DOMAIN p : j > i => ~ Tells(p[j], m))
               <=> \A j \in DOMAIN q : j > i => ~ Tells(q[j], m)
  BY <1>3, <1>5
<1> DEFINE LastAdds(s, i) == /\ s[i].op = "add" /\ Tells(s[i], m)
                             /\ \A j \in DOMAIN s : j > i => ~ Tells(s[j], m)
<1>8. \A i \in DOMAIN q : LastAdds(p, i) <=> LastAdds(q, i)
  BY <1>2, <1>5, <1>7
<1>10. (FateIn(p, h, m) <=> \/ m \in h /\ \A i \in DOMAIN p : ~ Tells(p[i], m)
                           \/ \E i \in DOMAIN p : LastAdds(p, i))
       /\ (FateIn(q, h, m) <=> \/ m \in h /\ \A i \in DOMAIN q : ~ Tells(q[i], m)
                              \/ \E i \in DOMAIN q : LastAdds(q, i))
  BY DEF FateIn
<1> HIDE DEF LastAdds
<1>9. FateIn(p, h, m) <=> FateIn(q, h, m)
  BY <1>3, <1>6, <1>8, <1>10
<1> QED
  BY <1>2, <1>3, <1>4, <1>5, <1>9

--------------------------------------------------------------------------------
(* The threads by their names                                              *)

(* The ranges of what the two threads hold                                 *)
LEMMA HalvesAre ==
  ASSUME TypeInv
  PROVE  /\ Stack.pc \in {"idle", "mark", "test_up", "collect", "send", "wait",
                          "done"}
         /\ Ctl.pc \in {"idle", "mark", "test_up", "collect", "send", "wait",
                        "done"}
         /\ Stack.fn \in {"none", "sync", "unsync", "set_mac", "restore",
                          "remove"}
         /\ Ctl.fn \in {"none", "sync", "unsync", "set_mac", "restore", "remove"}
         /\ Stack.mac \in Macs /\ Ctl.mac \in Macs
         /\ Stack.batch \in Seq(Macs) /\ Ctl.batch \in Seq(Macs)
         /\ StackTells \subseteq Macs /\ CtlTells \subseteq Macs
<1>1. /\ "stack" \in Threads /\ "ctl" \in Threads
      /\ th \in [Threads -> ThreadType]
  BY DEF Threads, TypeInv
<1>2. /\ Stack.pc \in {"idle", "mark", "test_up", "collect", "send", "wait",
                       "done"}
      /\ Stack.fn \in {"none", "sync", "unsync", "set_mac", "restore", "remove"}
      /\ Stack.mac \in Macs /\ Stack.batch \in Seq(Macs)
  BY <1>1, ThreadIs DEF Stack
<1>3. /\ Ctl.pc \in {"idle", "mark", "test_up", "collect", "send", "wait",
                     "done"}
      /\ Ctl.fn \in {"none", "sync", "unsync", "set_mac", "restore", "remove"}
      /\ Ctl.mac \in Macs /\ Ctl.batch \in Seq(Macs)
  BY <1>1, ThreadIs DEF Ctl
<1>4. StackTells \subseteq Macs
  BY <1>2, Parts DEF StackTells
<1>5. CtlTells \subseteq Macs
  <2>1. Rest(Ctl.batch) \in Seq(Macs)
    BY <1>3, Parts
  <2>2. ToSet(Rest(Ctl.batch)) \subseteq Macs /\ ToSet(Ctl.batch) \subseteq Macs
    BY <1>3, <2>1, Parts
  <2> QED
    BY <2>2 DEF CtlTells
<1> QED
  BY <1>2, <1>3, <1>4, <1>5

(* Of an empty batch nothing is told.                                      *)
LEMMA EmptyTells == ToSet(<<>>) = {} /\ Rest(<<>>) = <<>>
<1>1. ToSet(<<>>) = {}
  BY DEF ToSet
<1>2. Chunk(<<>>) = <<>>
  BY BoundsAssumption DEF Chunk
<1> QED
  BY <1>1, <1>2 DEF Rest

(* The stack calls idpf_addr_sync or idpf_addr_unsync.                     *)
LEMMA StackStarts ==
  ASSUME TypeInv, PlaceInv, NEW m \in Macs, NEW fn \in {"sync", "unsync"},
         Start("stack", fn, m, "test_up")
  PROVE  /\ th' \in [Threads -> ThreadType]
         /\ Stack'.pc = "test_up" /\ Stack'.fn = fn /\ Stack'.mac = m
         /\ Stack'.batch = <<>> /\ StackTells' = {} /\ ~ Stack'.err
         /\ Stack'.alone <=> Ctl.pc = "idle"
         /\ Ctl'.pc = Ctl.pc /\ Ctl'.fn = Ctl.fn /\ Ctl'.mac = Ctl.mac
         /\ Ctl'.batch = Ctl.batch /\ (Ctl'.err <=> Ctl.err)
         /\ Ctl'.alone <=> Ctl.alone /\ Ctl.pc = "idle"
         /\ CtlTells' = CtlTells
<1>1. /\ "stack" \in Threads /\ Other("stack") = "ctl"
      /\ th \in [Threads -> ThreadType]
  BY DEF Threads, Other, TypeInv
<1>2. /\ th' \in [Threads -> ThreadType]
      /\ Stack'.pc = "test_up" /\ Stack'.fn = fn /\ Stack'.mac = m
      /\ Stack'.batch = <<>> /\ ~ Stack'.err
      /\ Stack'.alone <=> Ctl.pc = "idle"
      /\ Ctl'.pc = Ctl.pc /\ Ctl'.fn = Ctl.fn /\ Ctl'.mac = Ctl.mac
      /\ Ctl'.batch = Ctl.batch /\ (Ctl'.err <=> Ctl.err)
      /\ Ctl'.alone <=> Ctl.alone /\ Ctl.pc = "idle"
  BY <1>1, StartIs DEF Stack, Ctl
<1>3. StackTells' = {}
  BY <1>2, EmptyTells DEF StackTells
<1>4. CtlTells' = CtlTells
  BY <1>2 DEF CtlTells
<1> QED
  BY <1>2, <1>3, <1>4

(* idpf_set_mac, idpf_vport_open or idpf_vport_stop begins.                *)
LEMMA CtlStarts ==
  ASSUME TypeInv, PlaceInv, NEW m \in Macs,
         NEW fn \in {"set_mac", "restore", "remove"},
         NEW pc \in {"test_up", "collect", "mark"},
         Start("ctl", fn, m, pc)
  PROVE  /\ th' \in [Threads -> ThreadType]
         /\ Ctl'.pc = pc /\ Ctl'.fn = fn /\ Ctl'.mac = m
         /\ Ctl'.batch = <<>> /\ CtlTells' = {} /\ ~ Ctl'.err
         /\ Ctl'.alone <=> Stack.pc = "idle"
         /\ Stack'.pc = Stack.pc /\ Stack'.fn = Stack.fn
         /\ Stack'.mac = Stack.mac
         /\ Stack'.batch = Stack.batch /\ (Stack'.err <=> Stack.err)
         /\ Stack'.alone <=> Stack.alone /\ Stack.pc = "idle"
         /\ StackTells' = StackTells
<1>1. /\ "ctl" \in Threads /\ Other("ctl") = "stack"
      /\ th \in [Threads -> ThreadType]
  BY DEF Threads, Other, TypeInv
<1>2. /\ th' \in [Threads -> ThreadType]
      /\ Ctl'.pc = pc /\ Ctl'.fn = fn /\ Ctl'.mac = m
      /\ Ctl'.batch = <<>> /\ ~ Ctl'.err
      /\ Ctl'.alone <=> Stack.pc = "idle"
      /\ Stack'.pc = Stack.pc /\ Stack'.fn = Stack.fn /\ Stack'.mac = Stack.mac
      /\ Stack'.batch = Stack.batch /\ (Stack'.err <=> Stack.err)
      /\ Stack'.alone <=> Stack.alone /\ Stack.pc = "idle"
  BY <1>1, StartIs DEF Stack, Ctl
<1>3. StackTells' = StackTells
  BY <1>2 DEF StackTells
<1>4. CtlTells' = {}
  BY <1>2, EmptyTells DEF CtlTells
<1> QED
  BY <1>2, <1>3, <1>4

(* Nothing changes on the way to the device.                               *)
LEMMA FateSame ==
  ASSUME sendq' = sendq, hw' = hw
  PROVE  \A m \in Macs : Fate(m)' <=> Fate(m)
BY DEF Fate, FateIn, Tells

(* The list does not change.                                               *)
LEMMA ListSame ==
  ASSUME list' = list
  PROVE  Listed' = Listed /\ ToAdd' = ToAdd /\ ToDel' = ToDel
BY DEF Listed, ToAdd, ToDel

--------------------------------------------------------------------------------
(* The calls into the driver keep the invariant.                           *)

(* idpf_addr_sync: what is put into the list is to be told.                *)
LEMMA SyncKeeps ==
  ASSUME IInv, NEW m \in Macs, Sync(m)
  PROVE  IInv'
<1> USE DEF IInv
<1>1. /\ list' \in Seq(Entry) /\ Unique(list')
      /\ Listed' = Listed \cup {m}
      /\ ToAdd' = ToAdd \cup ({m} \ Listed) /\ ToDel' = ToDel \ {m}
  BY AddIs DEF Sync, TypeInv
<1>2. /\ th' \in [Threads -> ThreadType]
      /\ Stack'.pc = "test_up" /\ Stack'.fn = "sync" /\ Stack'.mac = m
      /\ Stack'.batch = <<>> /\ StackTells' = {} /\ ~ Stack'.err
      /\ Stack'.alone <=> Ctl.pc = "idle"
      /\ Ctl'.pc = Ctl.pc /\ Ctl'.fn = Ctl.fn /\ Ctl'.mac = Ctl.mac
      /\ Ctl'.batch = Ctl.batch /\ (Ctl'.err <=> Ctl.err)
      /\ Ctl'.alone <=> Ctl.alone /\ Ctl.pc = "idle"
      /\ CtlTells' = CtlTells
  BY StackStarts DEF Sync
<1>3. \A k \in Macs : Fate(k)' <=> Fate(k)
  BY FateSame DEF Sync
<1>4. /\ Stack.pc = "idle" /\ Stack.fn = "none"
      /\ up' = up /\ addr' = addr /\ wanted' = wanted /\ sendq' = sendq
      /\ errs' = errs /\ hw' = hw /\ flags' = flags /\ hwFlags' = hwFlags
      /\ unsent' = unsent
      /\ dropped' = dropped \ {m}
      /\ left' = IF Ctl.pc = "idle" THEN left ELSE left \cup {m}
  BY DEF Sync, Begins, Stack, Ctl, PlaceInv, Placed
<1>5. Listed \subseteq Macs /\ ToAdd \subseteq Listed /\ ToDel \subseteq Listed
  BY Entries DEF TypeInv
<1>10. TypeInv'
  BY <1>1, <1>2, <1>4 DEF TypeInv
<1>11. PlaceInv'
  BY <1>2, <1>4 DEF PlaceInv, Placed
<1>12. WaitInv'
  BY <1>2, <1>4 DEF WaitInv, CtlAdds
<1>13. AddInv'
  BY <1>1, <1>2, <1>3, <1>4, <1>5 DEF AddInv, Live, CtlAdds, WillTell
<1>14. DelInv'
  BY <1>1, <1>2, <1>3, <1>4, <1>5 DEF DelInv, Live, Removing, PlaceInv, Placed
<1>15. BatchInv'
  BY <1>1, <1>2, <1>4 DEF BatchInv, CtlAdds
<1>16. UnsyncInv'
  BY <1>2 DEF UnsyncInv
<1>17. WantInv'
  BY <1>1, <1>2, <1>4 DEF WantInv
<1>18. HealInv'
  BY <1>1, <1>2, <1>4 DEF HealInv, PlaceInv, Placed
<1> QED
  BY <1>10, <1>11, <1>12, <1>13, <1>14, <1>15, <1>16, <1>17, <1>18

(* idpf_addr_unsync: what it flags will be removed from the device.        *)
LEMMA UnsyncKeeps ==
  ASSUME IInv, NEW m \in Macs, Unsync(m)
  PROVE  IInv'
<1> USE DEF IInv
<1>1. \A k \in Macs : Fate(k)' <=> Fate(k)
  BY FateSame DEF Unsync
<1>2. /\ Stack.pc = "idle" /\ Stack.fn = "none" /\ m \in wanted
      /\ up' = up /\ addr' = addr /\ wanted' = wanted \ {m} /\ sendq' = sendq
      /\ errs' = errs /\ hw' = hw /\ flags' = flags /\ hwFlags' = hwFlags
      /\ unsent' = unsent /\ left' = left
      /\ dropped' = dropped
  BY DEF Unsync, Begins, Stack, PlaceInv, Placed, hist
<1>3. CASE UNCHANGED <<list, th>>
  <2>1. Listed' = Listed /\ ToAdd' = ToAdd /\ ToDel' = ToDel
    BY <1>3, ListSame
  <2>2. /\ Stack' = Stack /\ Ctl' = Ctl /\ StackTells' = StackTells
        /\ CtlTells' = CtlTells
    BY <1>3 DEF Stack, Ctl, StackTells, CtlTells
  <2>10. TypeInv'
    BY <1>2, <1>3 DEF TypeInv
  <2>11. PlaceInv'
    BY <1>2, <2>2 DEF PlaceInv, Placed
  <2>12. WaitInv'
    BY <1>2, <2>2 DEF WaitInv, CtlAdds
  <2>13. AddInv'
    BY <1>1, <1>2, <2>1, <2>2, Entries DEF AddInv, Live, CtlAdds, WillTell, TypeInv
  <2>14. DelInv'
    BY <1>1, <1>2, <2>1, <2>2 DEF DelInv, Live, Removing
  <2>15. BatchInv'
    BY <1>2, <2>1, <2>2 DEF BatchInv, CtlAdds
  <2>16. UnsyncInv'
    BY <1>2, <2>2 DEF UnsyncInv
  <2>17. WantInv'
    BY <1>2, <2>1, <2>2 DEF WantInv
  <2>18. HealInv'
    BY <1>2, <2>1, <2>2 DEF HealInv
  <2> QED
    BY <2>10, <2>11, <2>12, <2>13, <2>14, <2>15, <2>16, <2>17, <2>18
<1>4. CASE ~ UNCHANGED <<list, th>>
  <2> DEFINE b == TRUE
  <2>1. /\ m # addr /\ m \in Listed /\ Start("stack", "unsync", m, "test_up")
        /\ list' = [i \in DOMAIN list |->
                      IF list[i].mac = m THEN [list[i] EXCEPT !.remove = b]
                      ELSE list[i]]
        /\ b \in BOOLEAN /\ b
    BY <1>4 DEF Unsync
  <2> HIDE DEF b
  <2>2. /\ list' \in Seq(Entry) /\ Unique(list') /\ Listed' = Listed
        /\ ToAdd' = ToAdd
        /\ ToDel' = (ToDel \ {m}) \cup (IF b THEN {m} \cap Listed ELSE {})
    BY <2>1, OneRemade DEF TypeInv
  <2>3. ToDel' = ToDel \cup {m}
    BY <2>1, <2>2
  <2>4. /\ th' \in [Threads -> ThreadType]
        /\ Stack'.pc = "test_up" /\ Stack'.fn = "unsync" /\ Stack'.mac = m
        /\ Stack'.batch = <<>> /\ StackTells' = {} /\ ~ Stack'.err
        /\ Stack'.alone <=> Ctl.pc = "idle"
        /\ Ctl'.pc = Ctl.pc /\ Ctl'.fn = Ctl.fn /\ Ctl'.mac = Ctl.mac
        /\ Ctl'.batch = Ctl.batch /\ (Ctl'.err <=> Ctl.err)
        /\ Ctl'.alone <=> Ctl.alone /\ Ctl.pc = "idle"
        /\ CtlTells' = CtlTells
    BY <2>1, StackStarts
  <2>5. Listed \subseteq Macs /\ ToAdd \subseteq Listed /\ ToDel \subseteq Listed
    BY Entries DEF TypeInv
  <2>10. TypeInv'
    BY <1>2, <2>2, <2>4 DEF TypeInv
  <2>11. PlaceInv'
    BY <1>2, <2>4 DEF PlaceInv, Placed
  <2>12. WaitInv'
    BY <1>2, <2>4 DEF WaitInv, CtlAdds
  <2>13. AddInv'
    BY <1>1, <1>2, <2>2, <2>4, <2>5 DEF AddInv, Live, CtlAdds, WillTell
  <2>14. DelInv'
    BY <1>1, <1>2, <2>2, <2>3, <2>4, <2>5 DEF DelInv, Live, Removing
  <2>15. BatchInv'
    BY <1>2, <2>2, <2>4 DEF BatchInv, CtlAdds
  <2>16. UnsyncInv'
    BY <1>2, <2>1, <2>3, <2>4 DEF UnsyncInv
  <2>17. WantInv'
    BY <1>2, <2>2, <2>4 DEF WantInv
  <2>18. HealInv'
    BY <1>2, <2>2, <2>4 DEF HealInv, PlaceInv, Placed
  <2> QED
    BY <2>10, <2>11, <2>12, <2>13, <2>14, <2>15, <2>16, <2>17, <2>18
<1> QED
  BY <1>3, <1>4

(* idpf_set_mac: the new address enters the list.                          *)
LEMMA SetMacKeeps ==
  ASSUME IInv, NEW m \in Macs, SetMac(m)
  PROVE  IInv'
<1> USE DEF IInv
<1>1. /\ list' \in Seq(Entry) /\ Unique(list')
      /\ Listed' = Listed \cup {m}
      /\ ToAdd' = ToAdd \cup ({m} \ Listed) /\ ToDel' = ToDel \ {m}
  BY AddIs DEF SetMac, TypeInv
<1>2. /\ th' \in [Threads -> ThreadType]
      /\ Ctl'.pc = "test_up" /\ Ctl'.fn = "set_mac" /\ Ctl'.mac = m
      /\ Ctl'.batch = <<>> /\ CtlTells' = {} /\ ~ Ctl'.err
      /\ Ctl'.alone <=> Stack.pc = "idle"
      /\ Stack'.pc = Stack.pc /\ Stack'.fn = Stack.fn
      /\ Stack'.mac = Stack.mac
      /\ Stack'.batch = Stack.batch /\ (Stack'.err <=> Stack.err)
      /\ Stack'.alone <=> Stack.alone /\ Stack.pc = "idle"
      /\ StackTells' = StackTells
  BY CtlStarts DEF SetMac
<1>3. \A k \in Macs : Fate(k)' <=> Fate(k)
  BY FateSame DEF SetMac
<1>4. /\ Ctl.pc = "idle" /\ Ctl.fn = "none"
      /\ up' = up /\ addr' = addr /\ wanted' = wanted /\ sendq' = sendq
      /\ errs' = errs /\ hw' = hw /\ flags' = flags /\ hwFlags' = hwFlags
      /\ unsent' = unsent /\ left' = left
      /\ dropped' = dropped
  BY DEF SetMac, Begins, Ctl, PlaceInv, Placed, hist
<1>5. Listed \subseteq Macs /\ ToAdd \subseteq Listed /\ ToDel \subseteq Listed
  BY Entries DEF TypeInv
<1>10. TypeInv'
  BY <1>1, <1>2, <1>4 DEF TypeInv
<1>11. PlaceInv'
  BY <1>2, <1>4 DEF PlaceInv, Placed
<1>12. WaitInv'
  BY <1>2, <1>4 DEF WaitInv, CtlAdds
<1>13. AddInv'
  BY <1>1, <1>2, <1>3, <1>4, <1>5 DEF AddInv, Live, CtlAdds, WillTell
<1>14. DelInv'
  BY <1>1, <1>2, <1>3, <1>4, <1>5 DEF DelInv, Live, Removing
<1>15. BatchInv'
  BY <1>1, <1>2, <1>4 DEF BatchInv, CtlAdds, PlaceInv, Placed
<1>16. UnsyncInv'
  BY <1>2 DEF UnsyncInv, PlaceInv, Placed
<1>17. WantInv'
  BY <1>1, <1>2, <1>4 DEF WantInv
<1>18. HealInv'
  BY <1>2 DEF HealInv
<1> QED
  BY <1>10, <1>11, <1>12, <1>13, <1>14, <1>15, <1>16, <1>17, <1>18

(* idpf_restore_mac_filters flags the whole list.                          *)
LEMMA OpenKeeps ==
  ASSUME IInv, Open
  PROVE  IInv'
<1> USE DEF IInv
<1> DEFINE b == TRUE
<1>6. b \in BOOLEAN /\ b /\ list' = [i \in DOMAIN list |-> [list[i] EXCEPT !.add = b]]
  BY DEF Open
<1> HIDE DEF b
<1>7. /\ list' \in Seq(Entry) /\ Unique(list') /\ Listed' = Listed
      /\ ToAdd' = (IF b THEN Listed ELSE {}) /\ ToDel' = ToDel
  BY <1>6, AllRemade DEF TypeInv
<1>1. /\ list' \in Seq(Entry) /\ Unique(list') /\ Listed' = Listed
      /\ ToAdd' = Listed /\ ToDel' = ToDel
  BY <1>6, <1>7
<1>2. /\ th' \in [Threads -> ThreadType]
      /\ Ctl'.pc = "collect" /\ Ctl'.fn = "restore" /\ Ctl'.mac = addr
      /\ Ctl'.batch = <<>> /\ CtlTells' = {} /\ ~ Ctl'.err
      /\ Ctl'.alone <=> Stack.pc = "idle"
      /\ Stack'.pc = Stack.pc /\ Stack'.fn = Stack.fn
      /\ Stack'.mac = Stack.mac
      /\ Stack'.batch = Stack.batch /\ (Stack'.err <=> Stack.err)
      /\ Stack'.alone <=> Stack.alone /\ Stack.pc = "idle"
      /\ StackTells' = StackTells
  BY CtlStarts DEF Open, TypeInv
<1>3. \A k \in Macs : Fate(k)' <=> Fate(k)
  BY FateSame DEF Open
<1>4. /\ Ctl.pc = "idle" /\ Ctl.fn = "none" /\ ~ up
      /\ up' = up /\ addr' = addr /\ wanted' = wanted /\ sendq' = sendq
      /\ errs' = errs /\ hw' = hw /\ flags' = flags /\ hwFlags' = hwFlags
      /\ unsent' = unsent /\ left' = left
      /\ dropped' = dropped
  BY DEF Open, Begins, Ctl, PlaceInv, Placed, hist
<1>10. TypeInv'
  BY <1>1, <1>2, <1>4 DEF TypeInv
<1>11. PlaceInv'
  BY <1>2, <1>4 DEF PlaceInv, Placed
<1>12. WaitInv'
  BY <1>2, <1>4 DEF WaitInv, CtlAdds
<1>13. AddInv'
  BY <1>1, <1>2 DEF AddInv, CtlAdds, WillTell
<1>14. DelInv'
  BY <1>1, <1>2, <1>3, <1>4 DEF DelInv, Live, Removing
<1>15. BatchInv'
  BY <1>1, <1>2, <1>4 DEF BatchInv, CtlAdds, PlaceInv, Placed
<1>16. UnsyncInv'
  BY <1>2 DEF UnsyncInv, PlaceInv, Placed
<1>17. WantInv'
  BY <1>1, <1>2, <1>4 DEF WantInv
<1>18. HealInv'
  BY <1>1, <1>2 DEF HealInv
<1> QED
  BY <1>10, <1>11, <1>12, <1>13, <1>14, <1>15, <1>16, <1>17, <1>18

(* idpf_vport_stop: from here the list is about to be removed.             *)
LEMMA StopKeeps ==
  ASSUME IInv, Stop
  PROVE  IInv'
<1> USE DEF IInv
<1>1. list' = list /\ Listed' = Listed /\ ToAdd' = ToAdd /\ ToDel' = ToDel
  BY ListSame DEF Stop
<1>2. /\ th' \in [Threads -> ThreadType]
      /\ Ctl'.pc = "mark" /\ Ctl'.fn = "remove" /\ Ctl'.mac = addr
      /\ Ctl'.batch = <<>> /\ CtlTells' = {} /\ ~ Ctl'.err
      /\ Ctl'.alone <=> Stack.pc = "idle"
      /\ Stack'.pc = Stack.pc /\ Stack'.fn = Stack.fn
      /\ Stack'.mac = Stack.mac
      /\ Stack'.batch = Stack.batch /\ (Stack'.err <=> Stack.err)
      /\ Stack'.alone <=> Stack.alone /\ Stack.pc = "idle"
      /\ StackTells' = StackTells
  BY CtlStarts DEF Stop, TypeInv
<1>3. \A k \in Macs : Fate(k)' <=> Fate(k)
  BY FateSame DEF Stop
<1>4. /\ Ctl.pc = "idle" /\ Ctl.fn = "none" /\ up /\ ~ up' /\ up' \in BOOLEAN
      /\ addr' = addr /\ wanted' = wanted /\ sendq' = sendq
      /\ errs' = errs /\ hw' = hw /\ flags' = flags /\ hwFlags' = hwFlags
      /\ unsent' = unsent /\ left' = left
      /\ dropped' = dropped
  BY DEF Stop, Begins, Ctl, PlaceInv, Placed, hist
<1>10. TypeInv'
  BY <1>1, <1>2, <1>4 DEF TypeInv
<1>11. PlaceInv'
  BY <1>2, <1>4 DEF PlaceInv, Placed
<1>12. WaitInv'
  BY <1>2, <1>4 DEF WaitInv, CtlAdds
<1>13. AddInv'
  BY <1>2, <1>4 DEF AddInv, Live
<1>14. DelInv'
  BY <1>1, <1>2, <1>3, <1>4 DEF DelInv, Live, Removing
<1>15. BatchInv'
  BY <1>1, <1>2, <1>4 DEF BatchInv, CtlAdds, PlaceInv, Placed
<1>16. UnsyncInv'
  BY <1>2 DEF UnsyncInv, PlaceInv, Placed
<1>17. WantInv'
  BY <1>1, <1>2, <1>4 DEF WantInv
<1>18. HealInv'
  BY <1>2 DEF HealInv
<1> QED
  BY <1>10, <1>11, <1>12, <1>13, <1>14, <1>15, <1>16, <1>17, <1>18

(* idpf_remove_mac_filters flags the whole list.                           *)
LEMMA MarkRemoveKeeps ==
  ASSUME IInv, MarkRemove
  PROVE  IInv'
<1> USE DEF IInv
<1> DEFINE b == TRUE
<1>6. /\ b \in BOOLEAN /\ b
      /\ list' = [i \in DOMAIN list |-> [list[i] EXCEPT !.remove = b]]
  BY DEF MarkRemove
<1> HIDE DEF b
<1>7. /\ list' \in Seq(Entry) /\ Unique(list') /\ Listed' = Listed
      /\ ToDel' = (IF b THEN Listed ELSE {}) /\ ToAdd' = ToAdd
  BY <1>6, AllRemade DEF TypeInv
<1>1. /\ list' \in Seq(Entry) /\ Unique(list') /\ Listed' = Listed
      /\ ToDel' = Listed /\ ToAdd' = ToAdd
  BY <1>6, <1>7
<1>2. /\ "ctl" \in Threads /\ Other("ctl") = "stack"
      /\ th \in [Threads -> ThreadType]
  BY DEF Threads, Other, TypeInv
<1>3. /\ th' \in [Threads -> ThreadType]
      /\ Ctl'.pc = "collect" /\ Ctl'.fn = Ctl.fn /\ Ctl'.mac = Ctl.mac
      /\ Ctl'.batch = Ctl.batch /\ (Ctl'.err <=> Ctl.err)
      /\ Ctl'.alone <=> Ctl.alone
      /\ Stack' = Stack
  BY <1>2, GotoIs DEF MarkRemove, Stack, Ctl
<1>4. /\ Ctl.pc = "mark" /\ Ctl.fn = "remove"
      /\ up' = up /\ addr' = addr /\ wanted' = wanted /\ sendq' = sendq
      /\ errs' = errs /\ hw' = hw /\ flags' = flags /\ hwFlags' = hwFlags
      /\ unsent' = unsent /\ left' = left
      /\ dropped' = dropped
  BY DEF MarkRemove, Ctl, PlaceInv, Placed, hist
<1>5. StackTells' = StackTells /\ CtlTells' = CtlTells
  BY <1>3, <1>4 DEF StackTells, CtlTells
<1>8. \A k \in Macs : Fate(k)' <=> Fate(k)
  BY FateSame DEF MarkRemove
<1>9. ~ up
  BY <1>4 DEF PlaceInv
<1>10. TypeInv'
  BY <1>1, <1>3, <1>4 DEF TypeInv
<1>11. PlaceInv'
  BY <1>3, <1>4 DEF PlaceInv, Placed
<1>12. WaitInv'
  BY <1>3, <1>4 DEF WaitInv, CtlAdds
<1>13. AddInv'
  BY <1>3, <1>4, <1>9 DEF AddInv, Live
<1>14. DelInv'
  BY <1>1, <1>3, <1>4, <1>5, <1>8, <1>9 DEF DelInv, Live, Removing
<1>15. BatchInv'
  BY <1>1, <1>3, <1>4, <1>5 DEF BatchInv, CtlAdds
<1>16. UnsyncInv'
  BY <1>3, <1>4 DEF UnsyncInv, PlaceInv, Placed
<1>17. WantInv'
  BY <1>1, <1>3, <1>4 DEF WantInv
<1>18. HealInv'
  BY <1>3, <1>4 DEF HealInv
<1> QED
  BY <1>10, <1>11, <1>12, <1>13, <1>14, <1>15, <1>16, <1>17, <1>18

(* A reset begins a new list, and the device has forgotten all.            *)
LEMMA ResetKeeps ==
  ASSUME IInv, Reset
  PROVE  IInv'
<1> USE DEF IInv
<1>1. /\ list' \in Seq(Entry) /\ Unique(list') /\ Listed' = {Addr0}
  <2>1. list' = <<Filter(Addr0)>> /\ Filter(Addr0) \in Entry /\ Filter(Addr0).mac = Addr0
    BY AddrAssumption DEF Reset, Filter, Entry
  <2> HIDE DEF Filter
  <2> QED
    BY <2>1 DEF Unique, Listed
<1>2. /\ Stack' = Stack /\ Ctl' = Ctl /\ StackTells' = StackTells
      /\ CtlTells' = CtlTells /\ th' = th
  BY DEF Reset, Stack, Ctl, StackTells, CtlTells
<1>3. /\ Ctl.pc = "idle" /\ Ctl.fn = "none" /\ Stack.pc = "idle"
      /\ Stack.fn = "none" /\ ~ up' /\ up' \in BOOLEAN
      /\ addr' = Addr0 /\ wanted' = wanted /\ sendq' = <<>>
      /\ errs' = <<>> /\ hw' = {} /\ flags' = flags /\ hwFlags' \in Modes
      /\ unsent' = {} /\ left' = {}
      /\ dropped' = wanted \ {Addr0}
  BY DEF Reset, Begins, Ctl, Stack, PlaceInv, Placed, Modes
<1>4. \A k \in Macs : ~ Fate(k)'
  BY <1>3 DEF Fate, FateIn
<1>10. TypeInv'
  <2>1. sendq' \in Seq(Request) /\ errs' \in Seq(SUBSET Macs)
    BY <1>3, EmptySeq
  <2> QED
    BY <1>1, <1>2, <1>3, <2>1, AddrAssumption DEF TypeInv
<1>11. PlaceInv'
  BY <1>2, <1>3 DEF PlaceInv, Placed
<1>12. WaitInv'
  BY <1>2, <1>3 DEF WaitInv, CtlAdds
<1>13. AddInv'
  BY <1>2, <1>3 DEF AddInv, Live
<1>14. DelInv'
  BY <1>4 DEF DelInv
<1>15. BatchInv'
  BY <1>2, <1>3 DEF BatchInv, CtlAdds
<1>16. UnsyncInv'
  BY <1>2, <1>3 DEF UnsyncInv
<1>17. WantInv'
  BY <1>1, <1>2, <1>3 DEF WantInv
<1>18. HealInv'
  BY <1>2, <1>3 DEF HealInv
<1> QED
  BY <1>10, <1>11, <1>12, <1>13, <1>14, <1>15, <1>16, <1>17, <1>18

(* The stack finds the vport up, or tells nobody.                          *)
LEMMA StackTestUpKeeps ==
  ASSUME IInv, TestUp("stack")
  PROVE  IInv'
<1> USE DEF IInv
<1>1. list' = list /\ Listed' = Listed /\ ToAdd' = ToAdd /\ ToDel' = ToDel
  BY ListSame DEF TestUp
<1>2. \A k \in Macs : Fate(k)' <=> Fate(k)
  BY FateSame DEF TestUp
<1>3. /\ Stack.pc = "test_up" /\ Stack.fn \in {"sync", "unsync"}
      /\ Stack.batch = <<>> /\ StackTells = {} /\ ~ Stack.err
      /\ up' = up /\ addr' = addr /\ wanted' = wanted /\ sendq' = sendq
      /\ errs' = errs /\ hw' = hw /\ flags' = flags /\ hwFlags' = hwFlags
  BY EmptyTells DEF TestUp, Stack, PlaceInv, Placed, StackTells
<1>4. /\ "stack" \in Threads /\ Other("stack") = "ctl"
      /\ th \in [Threads -> ThreadType] /\ Stack.mac \in Macs
  BY HalvesAre DEF Threads, Other, TypeInv
<1>5. /\ th' \in [Threads -> ThreadType]
      /\ Stack'.pc = (IF up THEN "collect" ELSE "done")
      /\ Stack'.fn = Stack.fn /\ Stack'.mac = Stack.mac
      /\ Stack'.batch = <<>> /\ ~ Stack'.err
      /\ Stack'.alone <=> Stack.alone
      /\ Ctl' = Ctl
  <2>1. CASE up
    BY <1>3, <1>4, <2>1, GotoIs DEF TestUp, Stack, Ctl
  <2>2. CASE ~ up
    BY <1>3, <1>4, <2>2, DoneIs DEF TestUp, Stack, Ctl
  <2> QED
    BY <2>1, <2>2
<1>6. StackTells' = {} /\ CtlTells' = CtlTells
  BY <1>5, EmptyTells DEF StackTells, CtlTells
<1>7. /\ dropped' = dropped
      /\ up \/ Stack.alone => unsent' = unsent /\ left' = left
      /\ ~ up /\ ~ Stack.alone =>
           /\ unsent' = IF Stack.fn = "sync" THEN unsent \cup {Stack.mac} ELSE unsent
           /\ left' = IF Stack.fn = "sync" THEN left ELSE left \cup {Stack.mac}
  BY <1>3 DEF TestUp, Stack, Lose, Adds, hist
<1>8. Listed \subseteq Macs /\ ToAdd \subseteq Listed /\ ToDel \subseteq Listed
  BY Entries DEF TypeInv
<1>9. Stack.alone => Ctl.pc = "idle" /\ Ctl.fn = "none"
  BY <1>3 DEF PlaceInv, Placed
<1>10. TypeInv'
  BY <1>1, <1>3, <1>4, <1>5, <1>7 DEF TypeInv
<1>11. PlaceInv'
  BY <1>3, <1>5 DEF PlaceInv, Placed
<1>12. WaitInv'
  BY <1>3, <1>5 DEF WaitInv, CtlAdds
<1>13. AddInv'
  BY <1>1, <1>2, <1>3, <1>5, <1>6, <1>7, <1>8, <1>9
  DEF AddInv, Live, CtlAdds, WillTell
<1>14. DelInv'
  BY <1>1, <1>2, <1>3, <1>5, <1>6, <1>7 DEF DelInv, Live, Removing
<1>15. BatchInv'
  BY <1>1, <1>5, <1>6, <1>7 DEF BatchInv, CtlAdds
<1>16. UnsyncInv'
  BY <1>1, <1>2, <1>3, <1>4, <1>5, <1>6, <1>7, <1>9
  DEF UnsyncInv, DelInv, Live, Removing
<1>17. WantInv'
  BY <1>1, <1>3, <1>5, <1>7 DEF WantInv
<1>18. HealInv'
  BY <1>1, <1>3, <1>5 DEF HealInv
<1> QED
  BY <1>10, <1>11, <1>12, <1>13, <1>14, <1>15, <1>16, <1>17, <1>18

(* idpf_set_mac finds the vport up, or tells nobody.                       *)
LEMMA CtlTestUpKeeps ==
  ASSUME IInv, TestUp("ctl")
  PROVE  IInv'
<1> USE DEF IInv
<1>1. list' = list /\ Listed' = Listed /\ ToAdd' = ToAdd /\ ToDel' = ToDel
  BY ListSame DEF TestUp
<1>2. \A k \in Macs : Fate(k)' <=> Fate(k)
  BY FateSame DEF TestUp
<1>3. /\ Ctl.pc = "test_up" /\ Ctl.fn = "set_mac"
      /\ Ctl.batch = <<>> /\ CtlTells = {} /\ ~ Ctl.err
      /\ up' = up /\ addr' = addr /\ wanted' = wanted /\ sendq' = sendq
      /\ errs' = errs /\ hw' = hw /\ flags' = flags /\ hwFlags' = hwFlags
  BY EmptyTells DEF TestUp, Ctl, PlaceInv, Placed, CtlTells
<1>4. /\ "ctl" \in Threads /\ Other("ctl") = "stack"
      /\ th \in [Threads -> ThreadType] /\ Ctl.mac \in Macs
  BY HalvesAre DEF Threads, Other, TypeInv
<1>5. /\ th' \in [Threads -> ThreadType]
      /\ Ctl'.pc = (IF up THEN "collect" ELSE "done")
      /\ Ctl'.fn = Ctl.fn /\ Ctl'.mac = Ctl.mac
      /\ Ctl'.batch = <<>> /\ ~ Ctl'.err
      /\ Ctl'.alone <=> Ctl.alone
      /\ Stack' = Stack
  <2>1. CASE up
    BY <1>3, <1>4, <2>1, GotoIs DEF TestUp, Stack, Ctl
  <2>2. CASE ~ up
    BY <1>3, <1>4, <2>2, DoneIs DEF TestUp, Stack, Ctl
  <2> QED
    BY <2>1, <2>2
<1>6. CtlTells' = {} /\ StackTells' = StackTells
  BY <1>5, EmptyTells DEF StackTells, CtlTells
<1>7. /\ dropped' = dropped /\ left' = left /\ unsent \subseteq unsent'
      /\ unsent' \subseteq unsent \cup {Ctl.mac}
  BY <1>3 DEF TestUp, Ctl, Lose, Adds, hist
<1>8. Listed \subseteq Macs /\ ToAdd \subseteq Listed /\ ToDel \subseteq Listed
  BY Entries DEF TypeInv
<1>10. TypeInv'
  BY <1>1, <1>3, <1>4, <1>5, <1>7 DEF TypeInv
<1>11. PlaceInv'
  BY <1>3, <1>5 DEF PlaceInv, Placed
<1>12. WaitInv'
  BY <1>3, <1>5 DEF WaitInv, CtlAdds
<1>13. AddInv'
  BY <1>1, <1>2, <1>3, <1>5, <1>6, <1>7, <1>8
  DEF AddInv, Live, CtlAdds, WillTell
<1>14. DelInv'
  BY <1>1, <1>2, <1>3, <1>5, <1>6, <1>7 DEF DelInv, Live, Removing
<1>15. BatchInv'
  BY <1>1, <1>5, <1>6, <1>7 DEF BatchInv, CtlAdds
<1>16. UnsyncInv'
  BY <1>3, <1>5 DEF UnsyncInv, PlaceInv, Placed
<1>17. WantInv'
  BY <1>1, <1>3, <1>5, <1>7 DEF WantInv
<1>18. HealInv'
  BY <1>3, <1>5 DEF HealInv
<1> QED
  BY <1>10, <1>11, <1>12, <1>13, <1>14, <1>15, <1>16, <1>17, <1>18

(* Three ways to collect: nothing is flagged, the flags are taken into a   *)
(* batch, or there is no memory for it.                                    *)
LEMMA CollectIs ==
  ASSUME TypeInv, NEW t \in Threads, Collect(t), NEW ms,
         ms = IF Adds(t) THEN ToAdd ELSE ToDel
  PROVE  /\ list' \in Seq(Entry) /\ Unique(list') /\ Listed' = Listed
         /\ th' \in [Threads -> ThreadType]
         /\ th'[t].fn = th[t].fn /\ th'[t].mac = th[t].mac
         /\ th'[t].alone <=> th[t].alone
         /\ th'[Other(t)] = th[Other(t)]
         /\ dropped' = dropped
         /\ \/ /\ ms = {} /\ ToAdd' = ToAdd /\ ToDel' = ToDel
               /\ th'[t].pc = "done" /\ th'[t].batch = <<>> /\ ~ th'[t].err
               /\ unsent' = unsent /\ left' = left
            \/ /\ ToAdd' = (IF Adds(t) THEN {} ELSE ToAdd)
               /\ ToDel' = (IF Adds(t) THEN ToDel ELSE {})
               /\ th'[t].pc = "send" /\ ToSet(th'[t].batch) = ms
               /\ th'[t].err <=> th[t].err
               /\ unsent' = unsent /\ left' = left
            \/ /\ ToAdd' = ToAdd /\ ToDel' = ToDel
               /\ th'[t].pc = "done" /\ th'[t].batch = <<>> /\ th'[t].err
               /\ unsent' = IF Adds(t) THEN unsent \cup ms ELSE unsent
               /\ left' = IF Adds(t) THEN left ELSE left \cup ms
<1> DEFINE fs == {i \in DOMAIN list : Flagged(t, list[i])}
<1>1. /\ list \in Seq(Entry) /\ Unique(list) /\ th \in [Threads -> ThreadType]
      /\ fs \subseteq DOMAIN list
  BY DEF TypeInv
<1>2. ms = {list[i].mac : i \in fs}
  BY DEF ToAdd, ToDel, Flagged
<1>3. CASE fs = {} /\ Done(t, FALSE) /\ UNCHANGED <<list, faults, hist>>
  <2>1. Listed' = Listed /\ ToAdd' = ToAdd /\ ToDel' = ToDel
    BY <1>3, ListSame
  <2>2. ms = {}
    BY <1>2, <1>3
  <2> QED
    BY <1>1, <1>3, <2>1, <2>2, DoneIs DEF hist
<1>4. CASE /\ fs # {}
           /\ list' = [i \in DOMAIN list |-> Unflag(t, list[i])]
           /\ \E f \in Walk(fs) : th' = [th EXCEPT ![t].pc = "send",
                ![t].batch = [k \in DOMAIN f |-> list[f[k]].mac]]
           /\ UNCHANGED <<faults, hist>>
  <2>1. PICK f \in Walk(fs) : th' = [th EXCEPT ![t].pc = "send",
                ![t].batch = [k \in DOMAIN f |-> list[f[k]].mac]]
    BY <1>4
  <2>2. f \in Seq(fs) /\ ToSet(f) = fs /\ f \in Seq(DOMAIN list)
    BY <1>1, WalkIs
  <2> DEFINE b == [k \in DOMAIN f |-> list[f[k]].mac]
  <2>3. DOMAIN f = 1 .. Len(f) /\ Len(f) \in Nat /\ \A k \in DOMAIN f : f[k] \in fs
    BY <2>2, LenProperties
  <2>4. b \in Seq(Macs)
    <3>1. \A k \in 1 .. Len(f) : b[k] \in Macs
      BY <1>1, <2>3, Entries
    <3>2. b \in [1 .. Len(f) -> Macs]
      BY <2>3, <3>1
    <3> QED
      BY <2>3, <3>2, SeqDef
  <2>5. ToSet(b) = ms
    <3>1. \A i \in fs : \E k \in DOMAIN f : f[k] = i
      BY <2>2 DEF ToSet
    <3>2. \A k \in DOMAIN f : b[k] = list[f[k]].mac
      OBVIOUS
    <3>3. DOMAIN b = DOMAIN f
      OBVIOUS
    <3> HIDE DEF b, fs
    <3> QED
      BY <1>2, <2>3, <3>1, <3>2, <3>3 DEF ToSet
  <2>6. th' = [th EXCEPT ![t].pc = "send", ![t].batch = b]
    BY <2>1
  <2> HIDE DEF b
  <2>7. /\ th' \in [Threads -> ThreadType]
        /\ th'[t].pc = "send" /\ th'[t].fn = th[t].fn /\ th'[t].mac = th[t].mac
        /\ th'[t].batch = b /\ (th'[t].err <=> th[t].err)
        /\ th'[t].alone <=> th[t].alone
        /\ th'[Other(t)] = th[Other(t)]
    BY <1>1, <2>4, <2>6, BatchIs
  <2> DEFINE c == FALSE
  <2>8. c \in BOOLEAN /\ ~ c
    OBVIOUS
  <2>9. list' = IF Adds(t) THEN [i \in DOMAIN list |-> [list[i] EXCEPT !.add = c]]
                ELSE [i \in DOMAIN list |-> [list[i] EXCEPT !.remove = c]]
    BY <1>4 DEF Unflag
  <2> HIDE DEF c
  <2>10. /\ list' \in Seq(Entry) /\ Unique(list') /\ Listed' = Listed
         /\ ToAdd' = (IF Adds(t) THEN {} ELSE ToAdd)
         /\ ToDel' = (IF Adds(t) THEN ToDel ELSE {})
    <3>1. CASE Adds(t)
      BY <1>1, <2>8, <2>9, <3>1, AllRemade
    <3>2. CASE ~ Adds(t)
      BY <1>1, <2>8, <2>9, <3>2, AllRemade
    <3> QED
      BY <3>1, <3>2
  <2> QED
    BY <1>4, <2>5, <2>7, <2>10 DEF hist
<1>5. CASE fs # {} /\ Done(t, TRUE) /\ Lose(t, ms) /\ UNCHANGED list
  <2>1. Listed' = Listed /\ ToAdd' = ToAdd /\ ToDel' = ToDel
    BY <1>5, ListSame
  <2> QED
    BY <1>1, <1>5, <2>1, FailedIs DEF Lose
<1> QED
  BY <1>2, <1>3, <1>4, <1>5 DEF Collect

(* The stack takes all flagged filters, whoever flagged them.              *)
LEMMA StackCollectKeeps ==
  ASSUME IInv, Collect("stack")
  PROVE  IInv'
<1> USE DEF IInv
<1>1. /\ Stack.pc = "collect" /\ Stack.fn \in {"sync", "unsync"}
      /\ StackTells = {} /\ ~ Stack.err
      /\ up' = up /\ addr' = addr /\ wanted' = wanted /\ sendq' = sendq
      /\ errs' = errs /\ hw' = hw /\ flags' = flags /\ hwFlags' = hwFlags
  BY EmptyTells DEF Collect, Stack, PlaceInv, Placed, StackTells
<1>2. \A k \in Macs : Fate(k)' <=> Fate(k)
  BY FateSame DEF Collect
<1>3. Listed \subseteq Macs /\ ToAdd \subseteq Listed /\ ToDel \subseteq Listed
  BY Entries DEF TypeInv
<1> DEFINE adds == Stack.fn = "sync"
           ms == IF adds THEN ToAdd ELSE ToDel
<1>4. /\ list' \in Seq(Entry) /\ Unique(list') /\ Listed' = Listed
      /\ th' \in [Threads -> ThreadType]
      /\ Stack'.fn = Stack.fn /\ Stack'.mac = Stack.mac
      /\ Stack'.alone <=> Stack.alone
      /\ Ctl' = Ctl /\ dropped' = dropped
      /\ \/ /\ ms = {} /\ ToAdd' = ToAdd /\ ToDel' = ToDel
            /\ Stack'.pc = "done" /\ Stack'.batch = <<>> /\ ~ Stack'.err
            /\ unsent' = unsent /\ left' = left
         \/ /\ ToAdd' = (IF adds THEN {} ELSE ToAdd)
            /\ ToDel' = (IF adds THEN ToDel ELSE {})
            /\ Stack'.pc = "send" /\ ToSet(Stack'.batch) = ms
            /\ Stack'.err <=> Stack.err
            /\ unsent' = unsent /\ left' = left
         \/ /\ ToAdd' = ToAdd /\ ToDel' = ToDel
            /\ Stack'.pc = "done" /\ Stack'.batch = <<>> /\ Stack'.err
            /\ unsent' = IF adds THEN unsent \cup ms ELSE unsent
            /\ left' = IF adds THEN left ELSE left \cup ms
  <2>1. "stack" \in Threads /\ Other("stack") = "ctl"
    BY DEF Threads, Other
  <2>2. Adds("stack") <=> adds
    BY <1>1 DEF Adds, Stack
  <2> QED
    BY <2>1, <2>2, CollectIs DEF Stack, Ctl
<1>5. /\ CtlTells' = CtlTells
      /\ \/ /\ ms = {} /\ ToAdd' = ToAdd /\ ToDel' = ToDel
            /\ Stack'.pc = "done" /\ StackTells' = {} /\ ~ Stack'.err
            /\ unsent' = unsent /\ left' = left
         \/ /\ ToAdd' = (IF adds THEN {} ELSE ToAdd)
            /\ ToDel' = (IF adds THEN ToDel ELSE {})
            /\ Stack'.pc = "send" /\ StackTells' = ms /\ ~ Stack'.err
            /\ unsent' = unsent /\ left' = left
         \/ /\ ToAdd' = ToAdd /\ ToDel' = ToDel
            /\ Stack'.pc = "done" /\ StackTells' = {} /\ Stack'.err
            /\ unsent' = IF adds THEN unsent \cup ms ELSE unsent
            /\ left' = IF adds THEN left ELSE left \cup ms
  BY <1>1, <1>4, EmptyTells DEF StackTells, CtlTells
<1>6. Stack.alone => Ctl.pc = "idle" /\ Ctl.fn = "none"
  BY <1>1 DEF PlaceInv, Placed
<1>10. TypeInv'
  BY <1>1, <1>3, <1>4 DEF TypeInv
<1>11. PlaceInv'
  BY <1>1, <1>4 DEF PlaceInv, Placed
<1>12. WaitInv'
  BY <1>1, <1>4 DEF WaitInv, CtlAdds
<1>13. AddInv'
  BY <1>1, <1>2, <1>3, <1>4, <1>5 DEF AddInv, Live, CtlAdds, WillTell
<1>14. DelInv'
  BY <1>1, <1>2, <1>4, <1>5 DEF DelInv, Live, Removing
<1>15. BatchInv'
  BY <1>1, <1>3, <1>4, <1>5 DEF BatchInv, CtlAdds
<1>16. UnsyncInv'
  <2>1. Stack.mac \in Macs
    BY HalvesAre
  <2> QED
    BY <1>1, <1>2, <1>4, <1>5, <2>1 DEF UnsyncInv
<1>17. WantInv'
  BY <1>1, <1>4 DEF WantInv
<1>18. HealInv'
  BY <1>1, <1>4 DEF HealInv, PlaceInv, Placed
<1> QED
  BY <1>10, <1>11, <1>12, <1>13, <1>14, <1>15, <1>16, <1>17, <1>18

(* The control thread takes all flagged filters.                           *)
LEMMA CtlCollectKeeps ==
  ASSUME IInv, Collect("ctl")
  PROVE  IInv'
<1> USE DEF IInv
<1>1. /\ Ctl.pc = "collect" /\ Ctl.fn \in {"set_mac", "restore", "remove"}
      /\ CtlTells = {} /\ ~ Ctl.err
      /\ up' = up /\ addr' = addr /\ wanted' = wanted /\ sendq' = sendq
      /\ errs' = errs /\ hw' = hw /\ flags' = flags /\ hwFlags' = hwFlags
  BY EmptyTells DEF Collect, Ctl, PlaceInv, Placed, CtlTells
<1>2. \A k \in Macs : Fate(k)' <=> Fate(k)
  BY FateSame DEF Collect
<1>3. Listed \subseteq Macs /\ ToAdd \subseteq Listed /\ ToDel \subseteq Listed
  BY Entries DEF TypeInv
<1> DEFINE ms == IF CtlAdds THEN ToAdd ELSE ToDel
<1>4. /\ list' \in Seq(Entry) /\ Unique(list') /\ Listed' = Listed
      /\ th' \in [Threads -> ThreadType]
      /\ Ctl'.fn = Ctl.fn /\ Ctl'.mac = Ctl.mac
      /\ Ctl'.alone <=> Ctl.alone
      /\ Stack' = Stack /\ dropped' = dropped
      /\ \/ /\ ms = {} /\ ToAdd' = ToAdd /\ ToDel' = ToDel
            /\ Ctl'.pc = "done" /\ Ctl'.batch = <<>> /\ ~ Ctl'.err
            /\ unsent' = unsent /\ left' = left
         \/ /\ ToAdd' = (IF CtlAdds THEN {} ELSE ToAdd)
            /\ ToDel' = (IF CtlAdds THEN ToDel ELSE {})
            /\ Ctl'.pc = "send" /\ ToSet(Ctl'.batch) = ms
            /\ Ctl'.err <=> Ctl.err
            /\ unsent' = unsent /\ left' = left
         \/ /\ ToAdd' = ToAdd /\ ToDel' = ToDel
            /\ Ctl'.pc = "done" /\ Ctl'.batch = <<>> /\ Ctl'.err
            /\ unsent' = IF CtlAdds THEN unsent \cup ms ELSE unsent
            /\ left' = IF CtlAdds THEN left ELSE left \cup ms
  <2>1. "ctl" \in Threads /\ Other("ctl") = "stack"
    BY DEF Threads, Other
  <2>2. Adds("ctl") <=> CtlAdds
    BY <1>1 DEF Adds, Ctl, CtlAdds
  <2> QED
    BY <2>1, <2>2, CollectIs DEF Stack, Ctl
<1>5. /\ StackTells' = StackTells /\ (CtlAdds' <=> CtlAdds)
      /\ CtlAdds <=> Ctl.fn # "remove"
      /\ \/ /\ ms = {} /\ ToAdd' = ToAdd /\ ToDel' = ToDel
            /\ Ctl'.pc = "done" /\ CtlTells' = {} /\ ~ Ctl'.err
            /\ unsent' = unsent /\ left' = left
         \/ /\ ToAdd' = (IF CtlAdds THEN {} ELSE ToAdd)
            /\ ToDel' = (IF CtlAdds THEN ToDel ELSE {})
            /\ Ctl'.pc = "send" /\ CtlTells' = ms /\ ~ Ctl'.err
            /\ unsent' = unsent /\ left' = left
         \/ /\ ToAdd' = ToAdd /\ ToDel' = ToDel
            /\ Ctl'.pc = "done" /\ CtlTells' = {} /\ Ctl'.err
            /\ unsent' = IF CtlAdds THEN unsent \cup ms ELSE unsent
            /\ left' = IF CtlAdds THEN left ELSE left \cup ms
  BY <1>1, <1>4, EmptyTells DEF StackTells, CtlTells, CtlAdds
<1>6. /\ Ctl.alone => Stack.pc = "idle" /\ Stack.fn = "none"
      /\ Stack.alone => Stack.pc = "idle" /\ Stack.fn = "none"
      /\ Ctl.fn = "remove" => ~ up
  BY <1>1 DEF PlaceInv, Placed
<1>10. TypeInv'
  BY <1>1, <1>3, <1>4 DEF TypeInv
<1>11. PlaceInv'
  BY <1>1, <1>4 DEF PlaceInv, Placed
<1>12. WaitInv'
  BY <1>1, <1>4, <1>5 DEF WaitInv
<1>13. AddInv'
  BY <1>1, <1>2, <1>3, <1>4, <1>5, <1>6 DEF AddInv, Live, WillTell
<1>14. DelInv'
  BY <1>1, <1>2, <1>4, <1>5 DEF DelInv, Live, Removing
<1>15. BatchInv'
  BY <1>1, <1>3, <1>4, <1>5, <1>6 DEF BatchInv
<1>16. UnsyncInv'
  BY <1>4, <1>6 DEF UnsyncInv
<1>17. WantInv'
  BY <1>1, <1>4 DEF WantInv
<1>18. HealInv'
  BY <1>1, <1>3, <1>4, <1>5 DEF HealInv, CtlAdds
<1> QED
  BY <1>10, <1>11, <1>12, <1>13, <1>14, <1>15, <1>16, <1>17, <1>18

(* The stack's request is on its way, or its batch is lost.                *)
LEMMA StackSendKeeps ==
  ASSUME IInv, Send("stack")
  PROVE  IInv'
<1> USE DEF IInv
<1> DEFINE b == Stack.batch
           c == ToSet(Chunk(b))
           rest == ToSet(Rest(b))
           adds == Stack.fn = "sync"
           req == [op |-> IF adds THEN "add" ELSE "del", macs |-> c,
                   wait |-> FALSE]
<1>1. /\ Stack.pc = "send" /\ Stack.fn \in {"sync", "unsync"} /\ ~ Stack.err
      /\ up' = up /\ addr' = addr /\ wanted' = wanted
      /\ errs' = errs /\ hw' = hw /\ flags' = flags /\ hwFlags' = hwFlags
      /\ list' = list /\ dropped' = dropped
  BY DEF Send, Stack, PlaceInv, Placed, Lose
<1>2. Listed' = Listed /\ ToAdd' = ToAdd /\ ToDel' = ToDel
  BY <1>1, ListSame
<1>3. /\ "stack" \in Threads /\ Other("stack") = "ctl"
      /\ th \in [Threads -> ThreadType] /\ b \in Seq(Macs)
      /\ StackTells = c \cup rest /\ StackTells \subseteq Macs
      /\ Rest(b) \in Seq(Macs)
      /\ Listed \subseteq Macs /\ Stack.mac \in Macs
  BY HalvesAre, Parts, Entries DEF Threads, Other, TypeInv, StackTells
<1>4. /\ Adds("stack") <=> adds
      /\ Async("stack") /\ th["stack"].batch = b
      /\ th["stack"].alone <=> Stack.alone
      /\ StaleFlags("stack") = IF adds THEN {} ELSE (c \cup rest) \ {Stack.mac}
  BY <1>1, <1>3 DEF Adds, Async, Stack, StaleFlags, StackTells
<1>5. CASE /\ sendq' = Append(sendq, req)
           /\ IF Rest(b) = <<>> THEN Done("stack", FALSE)
              ELSE th' = [th EXCEPT !["stack"].batch = Rest(b)]
           /\ IF Stack.alone
              THEN unsent' = unsent \cup StaleFlags("stack") /\ left' = left
              ELSE unsent' = unsent \cup c /\ left' = left \cup c
  <2>1. req \in Request /\ req.macs = c /\ req.op = (IF adds THEN "add" ELSE "del")
        /\ ~ req.wait
    BY <1>3 DEF Request
  <2>2. /\ th' \in [Threads -> ThreadType]
        /\ Stack'.pc \in {"send", "done"} /\ Stack'.fn = Stack.fn
        /\ Stack'.mac = Stack.mac /\ Stack'.batch = Rest(b) /\ ~ Stack'.err
        /\ Stack'.pc = "done" => Stack'.batch = <<>>
        /\ Stack'.alone <=> Stack.alone
        /\ Ctl' = Ctl
    <3>1. CASE Rest(b) = <<>>
      BY <1>1, <1>3, <1>5, <3>1, DoneIs DEF Stack, Ctl
    <3>2. CASE Rest(b) # <<>>
      BY <1>1, <1>3, <1>5, <3>2, RestIs DEF Stack, Ctl
    <3> QED
      BY <3>1, <3>2
  <2>3. StackTells' = rest /\ CtlTells' = CtlTells
    BY <2>2 DEF StackTells, CtlTells
  <2> HIDE DEF req, c, rest, b
  <2>4. \A m \in Macs : /\ m \in c => (Fate(m)' <=> adds)
                        /\ m \notin c => (Fate(m)' <=> Fate(m))
    <3>1. \A m \in Macs : Tells(req, m) <=> m \in c
      BY <2>1 DEF Tells
    <3>2. \A m \in Macs :
            /\ Tells(req, m) => (FateIn(Append(sendq, req), hw, m) <=> req.op = "add")
            /\ ~ Tells(req, m) =>
                 (FateIn(Append(sendq, req), hw, m) <=> FateIn(sendq, hw, m))
      BY <2>1, FateSent DEF TypeInv
    <3>3. \A m \in Macs : Fate(m)' <=> FateIn(Append(sendq, req), hw, m)
      BY <1>1, <1>5 DEF Fate, FateIn, Tells, req
    <3> QED
      BY <2>1, <3>1, <3>2, <3>3 DEF Fate
  <2>5. /\ sendq' \in Seq(Request) /\ DOMAIN sendq' = 1 .. Len(sendq) + 1
        /\ sendq'[Len(sendq) + 1] = req
        /\ DOMAIN sendq = 1 .. Len(sendq) /\ Len(sendq) \in Nat
        /\ \A i \in DOMAIN sendq : sendq'[i] = sendq[i]
    BY <1>5, <2>1, AppendProperties, LenProperties DEF TypeInv, req, c, rest, b
  <2>6. \A i \in DOMAIN sendq' : sendq'[i].wait =>
          i \in DOMAIN sendq /\ sendq'[i] = sendq[i]
    BY <2>1, <2>5
  <2>7. /\ unsent' \subseteq Macs /\ left' \subseteq Macs
        /\ unsent \subseteq unsent' /\ left \subseteq left'
        /\ ~ Stack.alone => c \subseteq unsent' /\ c \subseteq left'
        /\ ~ adds => c \ {Stack.mac} \subseteq unsent'
    BY <1>3, <1>4, <1>5 DEF TypeInv, c, rest, b
  <2>8. Stack.alone => /\ up /\ Ctl.pc = "idle" /\ Ctl.fn = "none"
    BY <1>1 DEF PlaceInv, Placed
  <2>10. TypeInv'
    BY <1>1, <2>2, <2>5, <2>7 DEF TypeInv
  <2>11. PlaceInv'
    BY <1>1, <2>2 DEF PlaceInv, Placed
  <2>12. WaitInv'
    BY <2>2, <2>6 DEF WaitInv, CtlAdds
  <2>13. AddInv'
    BY <1>1, <1>2, <1>3, <2>2, <2>3, <2>4, <2>7
    DEF AddInv, Live, CtlAdds, WillTell
  <2>14. DelInv'
    BY <1>1, <1>2, <1>3, <2>2, <2>3, <2>4, <2>7, <2>8
    DEF DelInv, Live, Removing, BatchInv
  <2>15. BatchInv'
    BY <1>2, <1>3, <2>2, <2>3, <2>7 DEF BatchInv, CtlAdds
  <2>16. UnsyncInv'
    BY <1>1, <1>2, <1>3, <2>2, <2>3, <2>4, <2>7 DEF UnsyncInv
  <2>17. WantInv'
    BY <1>1, <1>2, <2>2 DEF WantInv
  <2>18. HealInv'
    BY <1>1, <2>2 DEF HealInv, PlaceInv, Placed
  <2> QED
    BY <2>10, <2>11, <2>12, <2>13, <2>14, <2>15, <2>16, <2>17, <2>18
<1>6. CASE Done("stack", TRUE) /\ Lose("stack", ToSet(b)) /\ sendq' = sendq
  <2>1. /\ th' \in [Threads -> ThreadType]
        /\ Stack'.pc = "done" /\ Stack'.fn = Stack.fn /\ Stack'.mac = Stack.mac
        /\ Stack'.batch = <<>> /\ Stack'.err /\ (Stack'.alone <=> Stack.alone)
        /\ Ctl' = Ctl
    BY <1>3, <1>6, FailedIs DEF Stack, Ctl
  <2>2. StackTells' = {} /\ CtlTells' = CtlTells
    BY <2>1, EmptyTells DEF StackTells, CtlTells
  <2>3. \A m \in Macs : Fate(m)' <=> Fate(m)
    BY <1>1, <1>6, FateSame
  <2>4. /\ unsent' = IF adds THEN unsent \cup StackTells ELSE unsent
        /\ left' = IF adds THEN left ELSE left \cup StackTells
    BY <1>4, <1>6 DEF Lose, StackTells
  <2> HIDE DEF b
  <2>10. TypeInv'
    BY <1>1, <1>3, <1>6, <2>1, <2>4 DEF TypeInv
  <2>11. PlaceInv'
    BY <1>1, <2>1 DEF PlaceInv, Placed
  <2>12. WaitInv'
    BY <1>6, <2>1 DEF WaitInv, CtlAdds
  <2>13. AddInv'
    BY <1>1, <1>2, <1>3, <2>1, <2>2, <2>3, <2>4
    DEF AddInv, Live, CtlAdds, WillTell
  <2>14. DelInv'
    BY <1>1, <1>2, <2>1, <2>2, <2>3, <2>4 DEF DelInv, Live, Removing
  <2>15. BatchInv'
    BY <1>2, <2>1, <2>2, <2>4 DEF BatchInv, CtlAdds
  <2>16. UnsyncInv'
    BY <1>1, <2>1 DEF UnsyncInv
  <2>17. WantInv'
    BY <1>1, <1>2, <2>1 DEF WantInv
  <2>18. HealInv'
    BY <1>1, <2>1 DEF HealInv, PlaceInv, Placed
  <2> QED
    BY <2>10, <2>11, <2>12, <2>13, <2>14, <2>15, <2>16, <2>17, <2>18
<1> QED
  BY <1>4, <1>5, <1>6 DEF Send, Stack

(* The control thread waits for its request, or its batch is lost.         *)
LEMMA CtlSendKeeps ==
  ASSUME IInv, Send("ctl")
  PROVE  IInv'
<1> USE DEF IInv
<1> DEFINE b == Ctl.batch
           c == ToSet(Chunk(b))
           rest == ToSet(Rest(b))
           req == [op |-> IF CtlAdds THEN "add" ELSE "del", macs |-> c,
                   wait |-> TRUE]
<1>1. /\ Ctl.pc = "send" /\ Ctl.fn \in {"set_mac", "restore", "remove"}
      /\ ~ Ctl.err
      /\ up' = up /\ addr' = addr /\ wanted' = wanted
      /\ errs' = errs /\ hw' = hw /\ flags' = flags /\ hwFlags' = hwFlags
      /\ list' = list /\ dropped' = dropped
  BY DEF Send, Ctl, PlaceInv, Placed, Lose
<1>2. Listed' = Listed /\ ToAdd' = ToAdd /\ ToDel' = ToDel
  BY <1>1, ListSame
<1>3. /\ "ctl" \in Threads /\ Other("ctl") = "stack"
      /\ th \in [Threads -> ThreadType] /\ b \in Seq(Macs)
      /\ CtlTells = c \cup rest /\ CtlTells \subseteq Macs
      /\ CtlTells = ToSet(b)
      /\ Rest(b) \in Seq(Macs)
      /\ Listed \subseteq Macs
  BY <1>1, HalvesAre, Parts, Entries DEF Threads, Other, TypeInv, CtlTells
<1>4. /\ Adds("ctl") <=> CtlAdds
      /\ ~ Async("ctl") /\ th["ctl"].batch = b
      /\ th["ctl"].alone <=> Ctl.alone
      /\ StaleFlags("ctl") = {}
      /\ CtlAdds <=> Ctl.fn # "remove"
  BY <1>1 DEF Adds, Async, Ctl, CtlAdds, StaleFlags
<1>5. CASE /\ sendq' = Append(sendq, req)
           /\ Goto("ctl", "wait")
           /\ IF Ctl.alone
              THEN unsent' = unsent \cup {} /\ left' = left
              ELSE unsent' = unsent \cup c /\ left' = left \cup c
  <2>1. req \in Request /\ req.macs = c /\ req.wait
        /\ req.op = (IF CtlAdds THEN "add" ELSE "del")
    BY <1>3 DEF Request
  <2>2. /\ th' \in [Threads -> ThreadType]
        /\ Ctl'.pc = "wait" /\ Ctl'.fn = Ctl.fn
        /\ Ctl'.mac = Ctl.mac /\ Ctl'.batch = b /\ ~ Ctl'.err
        /\ Ctl'.alone <=> Ctl.alone
        /\ Stack' = Stack
    BY <1>1, <1>3, <1>5, GotoIs DEF Stack, Ctl
  <2>3. CtlTells' = rest /\ StackTells' = StackTells /\ (CtlAdds' <=> CtlAdds)
    BY <2>2 DEF StackTells, CtlTells, CtlAdds
  <2>4. \A m \in Macs : /\ m \in c => (Fate(m)' <=> CtlAdds)
                        /\ m \notin c => (Fate(m)' <=> Fate(m))
    <3> HIDE DEF c, rest, b, req
    <3>1. \A m \in Macs : Tells(req, m) <=> m \in c
      BY <2>1 DEF Tells
    <3>2. \A m \in Macs :
            /\ Tells(req, m) => (FateIn(Append(sendq, req), hw, m) <=> req.op = "add")
            /\ ~ Tells(req, m) =>
                 (FateIn(Append(sendq, req), hw, m) <=> FateIn(sendq, hw, m))
      BY <2>1, FateSent DEF TypeInv
    <3>3. \A m \in Macs : Fate(m)' <=> FateIn(Append(sendq, req), hw, m)
      BY <1>1, <1>5 DEF Fate, FateIn, Tells, req
    <3> QED
      BY <2>1, <3>1, <3>2, <3>3 DEF Fate
  <2>5. /\ sendq' \in Seq(Request) /\ DOMAIN sendq' = 1 .. Len(sendq) + 1
        /\ sendq'[Len(sendq) + 1] = req
        /\ DOMAIN sendq = 1 .. Len(sendq) /\ Len(sendq) \in Nat
        /\ \A i \in DOMAIN sendq : sendq'[i] = sendq[i]
    <3> HIDE DEF c, rest, b, req
    <3> QED
      BY <1>5, <2>1, AppendProperties, LenProperties DEF TypeInv, req, c, rest, b
  <2>6. \A i \in DOMAIN sendq : ~ sendq[i].wait
    BY <1>1 DEF WaitInv
  <2>7. \A i \in DOMAIN sendq' : sendq'[i].wait => i = Len(sendq) + 1
    BY <2>5, <2>6
  <2>8. /\ unsent' \subseteq Macs /\ left' \subseteq Macs
        /\ unsent \subseteq unsent' /\ left \subseteq left'
        /\ ~ Ctl.alone => c \subseteq unsent' /\ c \subseteq left'
    BY <1>3, <1>5 DEF TypeInv
  <2>9. /\ Ctl.fn = "set_mac" => up
        /\ Ctl.fn = "remove" => ~ up
        /\ Ctl.alone => Stack.pc = "idle" /\ Stack.fn = "none"
        /\ Stack.alone => Stack.pc = "idle" /\ Stack.fn = "none"
    BY <1>1 DEF PlaceInv, Placed
  <2>19. HealInv'
    <3>1. ASSUME Ctl.fn = "restore", Ctl.alone,
                 NEW m \in Listed, m \notin ToSet(b)
          PROVE  m \in hw /\ \A i \in DOMAIN sendq' : ~ Tells(sendq'[i], m)
      <4>1. m \in hw /\ \A i \in DOMAIN sendq : ~ Tells(sendq[i], m)
        BY <1>1, <3>1 DEF HealInv
      <4>2. ~ Tells(req, m)
        BY <1>3, <2>1, <3>1 DEF Tells
      <4> HIDE DEF c, rest, b, req
      <4> QED
        BY <2>5, <4>1, <4>2
    <3>2. \A i, j \in DOMAIN sendq' : sendq'[i].wait => ~ j > i
      BY <2>5, <2>7
    <3> QED
      BY <1>1, <1>2, <2>2, <3>1, <3>2 DEF HealInv
  <2>12. WaitInv'
    <3>1. \A i \in DOMAIN sendq' : sendq'[i].wait =>
            /\ Ctl'.pc = "wait"
            /\ sendq'[i].op = IF CtlAdds' THEN "add" ELSE "del"
            /\ sendq'[i].macs = ToSet(Chunk(Ctl'.batch))
      BY <2>1, <2>2, <2>3, <2>5, <2>7
    <3> QED
      BY <2>7, <3>1 DEF WaitInv
  <2> HIDE DEF req, c, rest, b
  <2>10. TypeInv'
    BY <1>1, <2>2, <2>5, <2>8 DEF TypeInv
  <2>11. PlaceInv'
    BY <1>1, <2>2 DEF PlaceInv, Placed
  <2>13. AddInv'
    BY <1>1, <1>2, <1>3, <1>4, <2>2, <2>3, <2>4, <2>8, <2>9
    DEF AddInv, Live, WillTell
  <2>14. DelInv'
    BY <1>1, <1>2, <1>3, <1>4, <2>2, <2>3, <2>4, <2>8, <2>9
    DEF DelInv, Live, Removing, BatchInv
  <2>15. BatchInv'
    BY <1>2, <1>3, <2>2, <2>3, <2>8 DEF BatchInv
  <2>16. UnsyncInv'
    BY <2>2, <2>9 DEF UnsyncInv
  <2>17. WantInv'
    BY <1>1, <1>2, <2>2 DEF WantInv
  <2> QED
    BY <2>10, <2>11, <2>12, <2>13, <2>14, <2>15, <2>16, <2>17, <2>19
<1>6. CASE Done("ctl", TRUE) /\ Lose("ctl", ToSet(b)) /\ sendq' = sendq
  <2>1. /\ th' \in [Threads -> ThreadType]
        /\ Ctl'.pc = "done" /\ Ctl'.fn = Ctl.fn /\ Ctl'.mac = Ctl.mac
        /\ Ctl'.batch = <<>> /\ Ctl'.err /\ (Ctl'.alone <=> Ctl.alone)
        /\ Stack' = Stack
    BY <1>3, <1>6, FailedIs DEF Stack, Ctl
  <2>2. CtlTells' = {} /\ StackTells' = StackTells /\ (CtlAdds' <=> CtlAdds)
    BY <2>1, EmptyTells DEF StackTells, CtlTells, CtlAdds
  <2>3. \A m \in Macs : Fate(m)' <=> Fate(m)
    BY <1>1, <1>6, FateSame
  <2>4. /\ unsent' = IF CtlAdds THEN unsent \cup CtlTells ELSE unsent
        /\ left' = IF CtlAdds THEN left ELSE left \cup CtlTells
    BY <1>3, <1>4, <1>6 DEF Lose
  <2>5. /\ Stack.alone => Stack.pc = "idle" /\ Stack.fn = "none"
        /\ Ctl.fn = "remove" => ~ up
    BY <1>1 DEF PlaceInv, Placed
  <2> HIDE DEF b
  <2>10. TypeInv'
    BY <1>1, <1>3, <1>6, <2>1, <2>4 DEF TypeInv
  <2>11. PlaceInv'
    BY <1>1, <2>1 DEF PlaceInv, Placed
  <2>12. WaitInv'
    BY <1>1, <1>6, <2>1 DEF WaitInv
  <2>13. AddInv'
    BY <1>1, <1>2, <1>3, <1>4, <2>1, <2>2, <2>3, <2>4, <2>5
    DEF AddInv, Live, WillTell
  <2>14. DelInv'
    BY <1>1, <1>2, <1>4, <2>1, <2>2, <2>3, <2>4 DEF DelInv, Live, Removing
  <2>15. BatchInv'
    BY <1>2, <2>1, <2>2, <2>4 DEF BatchInv
  <2>16. UnsyncInv'
    BY <2>1, <2>5 DEF UnsyncInv
  <2>17. WantInv'
    BY <1>1, <1>2, <2>1 DEF WantInv
  <2>18. HealInv'
    BY <2>1 DEF HealInv
  <2> QED
    BY <2>10, <2>11, <2>12, <2>13, <2>14, <2>15, <2>16, <2>17, <2>18
<1> QED
  BY <1>4, <1>5, <1>6 DEF Send, Ctl

(* The wait is given up: the rest of the batch is never sent.              *)
LEMMA TimeoutKeeps ==
  ASSUME IInv, Timeout
  PROVE  IInv'
<1> USE DEF IInv
<1>1. /\ Ctl.pc = "wait" /\ Ctl.fn \in {"set_mac", "restore", "remove"}
      /\ up' = up /\ addr' = addr /\ wanted' = wanted
      /\ errs' = errs /\ hw' = hw /\ flags' = flags /\ hwFlags' = hwFlags
      /\ list' = list /\ dropped' = dropped
  BY DEF Timeout, Ctl, PlaceInv, Placed, Lose
<1>2. Listed' = Listed /\ ToAdd' = ToAdd /\ ToDel' = ToDel
  BY <1>1, ListSame
<1>3. /\ "ctl" \in Threads /\ Other("ctl") = "stack"
      /\ th \in [Threads -> ThreadType]
      /\ CtlTells \subseteq ToSet(Ctl.batch) /\ ToSet(Ctl.batch) \subseteq Macs
      /\ Listed \subseteq Macs
  BY <1>1, HalvesAre, Parts, Entries DEF Threads, Other, TypeInv, CtlTells
<1>4. /\ Adds("ctl") <=> CtlAdds
      /\ CtlAdds <=> Ctl.fn # "remove"
  BY <1>1 DEF Adds, Ctl, CtlAdds
<1>5. /\ th' \in [Threads -> ThreadType]
      /\ Ctl'.pc = "done" /\ Ctl'.fn = Ctl.fn /\ Ctl'.mac = Ctl.mac
      /\ Ctl'.batch = <<>> /\ Ctl'.err /\ (Ctl'.alone <=> Ctl.alone)
      /\ Stack' = Stack
  BY <1>3, FailedIs DEF Timeout, Stack, Ctl
<1>6. CtlTells' = {} /\ StackTells' = StackTells /\ (CtlAdds' <=> CtlAdds)
  BY <1>5, EmptyTells DEF StackTells, CtlTells, CtlAdds
<1>7. /\ sendq' \in Seq(Request) /\ \A i \in DOMAIN sendq' : ~ sendq'[i].wait
      /\ \A m \in Macs : Fate(m)' <=> Fate(m)
  <2>1. sendq' = [i \in DOMAIN sendq |-> [sendq[i] EXCEPT !.wait = FALSE]]
    BY DEF Timeout
  <2>2. sendq \in Seq(Request)
    BY DEF TypeInv
  <2>3. \A m \in Macs :
          /\ sendq' \in Seq(Request) /\ \A i \in DOMAIN sendq' : ~ sendq'[i].wait
          /\ FateIn(sendq', hw, m) <=> FateIn(sendq, hw, m)
    BY <2>1, <2>2, FateUnwaited
  <2>4. \A m \in Macs : Fate(m)' <=> FateIn(sendq', hw, m)
    BY <1>1 DEF Fate, FateIn, Tells
  <2> QED
    BY <2>3, <2>4, AddrAssumption DEF Fate
<1>8. /\ unsent' = IF CtlAdds THEN unsent \cup ToSet(Ctl.batch) ELSE unsent
      /\ left' = IF CtlAdds THEN left ELSE left \cup ToSet(Ctl.batch)
  BY <1>4 DEF Timeout, Lose, Ctl
<1>9. /\ Stack.alone => Stack.pc = "idle" /\ Stack.fn = "none"
      /\ Ctl.fn = "remove" => ~ up
  BY <1>1 DEF PlaceInv, Placed
<1>10. TypeInv'
  BY <1>1, <1>3, <1>5, <1>7, <1>8 DEF TypeInv
<1>11. PlaceInv'
  BY <1>1, <1>5 DEF PlaceInv, Placed
<1>12. WaitInv'
  BY <1>7 DEF WaitInv
<1>13. AddInv'
  BY <1>1, <1>2, <1>3, <1>4, <1>5, <1>6, <1>7, <1>8, <1>9
  DEF AddInv, Live, WillTell
<1>14. DelInv'
  BY <1>1, <1>2, <1>3, <1>4, <1>5, <1>6, <1>7, <1>8 DEF DelInv, Live, Removing
<1>15. BatchInv'
  BY <1>2, <1>5, <1>6, <1>8 DEF BatchInv
<1>16. UnsyncInv'
  BY <1>5, <1>9 DEF UnsyncInv
<1>17. WantInv'
  BY <1>1, <1>2, <1>5 DEF WantInv
<1>18. HealInv'
  BY <1>5 DEF HealInv
<1> QED
  BY <1>10, <1>11, <1>12, <1>13, <1>14, <1>15, <1>16, <1>17, <1>18

--------------------------------------------------------------------------------
(* The callers' ends keep it.                                              *)

(* idpf_addr_sync and idpf_addr_unsync return.                             *)
LEMMA StackEndKeeps ==
  ASSUME IInv, End("stack")
  PROVE  IInv'
<1> USE DEF IInv
<1>1. /\ Stack.pc = "done" /\ Stack.fn \in {"sync", "unsync"}
      /\ Stack.batch = <<>> /\ StackTells = {}
      /\ sendq' = sendq /\ errs' = errs /\ hw' = hw /\ flags' = flags
      /\ hwFlags' = hwFlags
  BY EmptyTells DEF End, Stack, PlaceInv, Placed, StackTells
<1>2. \A k \in Macs : Fate(k)' <=> Fate(k)
  BY FateSame DEF End
<1>3. /\ "stack" \in Threads /\ Other("stack") = "ctl"
      /\ th \in [Threads -> ThreadType] /\ Stack.mac \in Macs
      /\ Listed \subseteq Macs /\ ToAdd \subseteq Listed /\ ToDel \subseteq Listed
  BY HalvesAre, Entries DEF Threads, Other, TypeInv
<1>4. /\ th' \in [Threads -> ThreadType]
      /\ Stack'.pc = "idle" /\ Stack'.fn = "none" /\ Stack'.batch = <<>>
      /\ ~ Stack'.err
      /\ Ctl' = Ctl
  BY <1>3, IdleIs DEF End, Stack, Ctl
<1>5. StackTells' = {} /\ CtlTells' = CtlTells
  BY <1>4, EmptyTells DEF StackTells, CtlTells
<1>6. Stack.alone \/ Ctl.alone => Ctl.pc = "idle" /\ Ctl.fn = "none"
  BY <1>1 DEF PlaceInv, Placed
<1>7. /\ up' = up /\ addr' = addr
      /\ list' \in Seq(Entry) /\ Unique(list')
      /\ \/ /\ Stack.fn = "sync"
            /\ wanted \subseteq wanted' /\ wanted' \subseteq wanted \cup {Stack.mac}
            /\ Listed' = Listed /\ ToAdd' = ToAdd /\ ToDel' = ToDel
            /\ unsent' = unsent /\ left' = left /\ dropped' = dropped
         \/ /\ Stack.fn = "unsync" /\ Stack.err
            /\ wanted' = wanted
            /\ Listed' = Listed /\ ToAdd' = ToAdd /\ ToDel' = ToDel
            /\ unsent' = unsent \cup {Stack.mac}
            /\ left' = left \cup (IF Stack.alone THEN {} ELSE {Stack.mac})
            /\ dropped' = dropped \cup (IF Stack.alone THEN {} ELSE {Stack.mac})
         \/ /\ Stack.fn = "unsync" /\ ~ Stack.err
            /\ wanted' = wanted
            /\ Listed' = Listed \ {Stack.mac} /\ ToAdd' = ToAdd \ {Stack.mac}
            /\ ToDel' = ToDel \ {Stack.mac}
            /\ unsent' = unsent
            /\ left' = left \cup (IF Stack.alone THEN {} ELSE {Stack.mac})
            /\ dropped' = dropped \cup (IF Stack.alone THEN {} ELSE {Stack.mac})
  <2>1. list \in Seq(Entry) /\ Unique(list)
    BY DEF TypeInv
  <2>2. CASE SyncEnd
    BY <2>1, <2>2, ListSame DEF SyncEnd, Stack, hist
  <2>3. CASE UnsyncEnd
    <3>1. CASE Stack.err
      BY <2>1, <2>3, <3>1, ListSame DEF UnsyncEnd, Stack
    <3>2. CASE ~ Stack.err
      <4>1. Without({Stack.mac})
        BY <2>3, <3>2 DEF UnsyncEnd, Stack
      <4>2. /\ list' \in Seq(Entry) /\ Unique(list')
            /\ Listed' = Listed \ {Stack.mac} /\ ToAdd' = ToAdd \ {Stack.mac}
            /\ ToDel' = ToDel \ {Stack.mac}
        BY <2>1, <4>1, WithoutIs
      <4> QED
        BY <2>3, <3>2, <4>2 DEF UnsyncEnd, Stack
    <3> QED
      BY <3>1, <3>2
  <2> QED
    BY <2>2, <2>3 DEF End
<1>10. TypeInv'
  BY <1>1, <1>3, <1>4, <1>7 DEF TypeInv
<1>11. PlaceInv'
  BY <1>4, <1>7 DEF PlaceInv, Placed
<1>12. WaitInv'
  BY <1>1, <1>4 DEF WaitInv, CtlAdds
<1>13. AddInv'
  BY <1>1, <1>2, <1>3, <1>4, <1>5, <1>7 DEF AddInv, Live, CtlAdds, WillTell
<1>14. DelInv'
  BY <1>1, <1>2, <1>4, <1>5, <1>6, <1>7
  DEF DelInv, Live, Removing, UnsyncInv
<1>15. BatchInv'
  BY <1>4, <1>5, <1>6, <1>7 DEF BatchInv, CtlAdds
<1>16. UnsyncInv'
  BY <1>4 DEF UnsyncInv
<1>17. WantInv'
  BY <1>4, <1>6, <1>7 DEF WantInv, UnsyncInv
<1>18. HealInv'
  BY <1>4, <1>6 DEF HealInv
<1> QED
  BY <1>10, <1>11, <1>12, <1>13, <1>14, <1>15, <1>16, <1>17, <1>18

(* idpf_set_mac, idpf_vport_open and idpf_vport_stop go on.                *)
LEMMA CtlEndKeeps ==
  ASSUME IInv, End("ctl")
  PROVE  IInv'
<1> USE DEF IInv
<1>1. /\ Ctl.pc = "done" /\ Ctl.fn \in {"set_mac", "restore", "remove"}
      /\ Ctl.batch = <<>> /\ CtlTells = {}
      /\ sendq' = sendq /\ errs' = errs /\ hw' = hw /\ flags' = flags
      /\ hwFlags' = hwFlags
  BY EmptyTells DEF End, Ctl, PlaceInv, Placed, CtlTells
<1>2. \A k \in Macs : Fate(k)' <=> Fate(k)
  BY FateSame DEF End
<1>3. /\ "ctl" \in Threads /\ Other("ctl") = "stack"
      /\ th \in [Threads -> ThreadType] /\ Ctl.mac \in Macs /\ addr \in Macs
      /\ Listed \subseteq Macs /\ ToAdd \subseteq Listed /\ ToDel \subseteq Listed
  BY HalvesAre, Entries DEF Threads, Other, TypeInv
<1>4. /\ th' \in [Threads -> ThreadType]
      /\ Ctl'.pc = "idle" /\ Ctl'.fn = "none" /\ Ctl'.batch = <<>>
      /\ ~ Ctl'.err
      /\ Stack' = Stack
  BY <1>3, IdleIs DEF End, Stack, Ctl
<1>5. CtlTells' = {} /\ StackTells' = StackTells
  BY <1>4, EmptyTells DEF StackTells, CtlTells
<1>6. /\ Stack.alone => Stack.pc = "idle" /\ Stack.fn = "none"
      /\ Ctl.fn \in {"restore", "remove"} => ~ up
  BY <1>1 DEF PlaceInv, Placed
<1>7. /\ wanted' = wanted /\ unsent' = unsent
      /\ list' \in Seq(Entry) /\ Unique(list')
      /\ \/ /\ Ctl.fn = "set_mac" /\ up' = up
            /\ \E gone \in Macs :
                 /\ addr' = addr \/ (addr' = Ctl.mac /\ gone = addr)
                 /\ Listed' = Listed \ {gone} /\ ToAdd' = ToAdd \ {gone}
                 /\ ToDel' = ToDel \ {gone}
                 /\ left' = left \cup {gone} /\ dropped' = dropped \cup {gone}
         \/ /\ Ctl.fn \in {"restore", "remove"}
            /\ \/ up' /\ Ctl.fn = "restore" /\ left' = left
               \/ up' = up /\ Ctl.fn = "restore" /\ left' = left \cup Listed
               \/ up' = up /\ Ctl.fn = "remove" /\ left' = left
            /\ addr' = addr /\ dropped' = dropped
            /\ Listed' = Listed /\ ToAdd' = ToAdd /\ ToDel' = ToDel
  <2>1. list \in Seq(Entry) /\ Unique(list)
    BY DEF TypeInv
  <2>2. CASE SetMacEnd
    <3>1. PICK gone \in Macs : gone = IF Ctl.err THEN Ctl.mac ELSE addr
      BY <1>3
    <3>2. Without({gone})
      BY <2>2, <3>1 DEF SetMacEnd, Ctl
    <3>3. /\ list' \in Seq(Entry) /\ Unique(list')
          /\ Listed' = Listed \ {gone} /\ ToAdd' = ToAdd \ {gone}
          /\ ToDel' = ToDel \ {gone}
      BY <2>1, <3>2, WithoutIs
    <3>4. /\ Ctl.fn = "set_mac" /\ up' = up /\ wanted' = wanted
          /\ unsent' = unsent
          /\ left' = left \cup {gone} /\ dropped' = dropped \cup {gone}
          /\ addr' = IF Ctl.err THEN addr ELSE Ctl.mac
      BY <2>2, <3>1 DEF SetMacEnd, Ctl
    <3>5. addr' = addr \/ (addr' = Ctl.mac /\ gone = addr)
      BY <3>1, <3>4
    <3> QED
      BY <3>3, <3>4, <3>5
  <2>3. CASE RestoreEnd
    BY <2>1, <2>3, ListSame DEF RestoreEnd, Ctl, hist
  <2>4. CASE RemoveEnd
    BY <2>1, <2>4, ListSame DEF RemoveEnd, Ctl, hist
  <2>5. CASE RestoreFail
    BY <2>1, <2>5, ListSame DEF RestoreFail, Ctl
  <2> QED
    BY <2>2, <2>3, <2>4, <2>5 DEF End
<1>10. TypeInv'
  BY <1>1, <1>3, <1>4, <1>7 DEF TypeInv
<1>11. PlaceInv'
  BY <1>1, <1>4, <1>6, <1>7 DEF PlaceInv, Placed
<1>12. WaitInv'
  BY <1>1 DEF WaitInv
<1>13. AddInv'
  BY <1>1, <1>2, <1>3, <1>4, <1>5, <1>6, <1>7 DEF AddInv, Live, CtlAdds, WillTell
<1>14. DelInv'
  <2>1. ASSUME NEW m \in Macs, Fate(m)'
        PROVE  \/ m \in left \/ (Live /\ m \in Listed)
               \/ Stack.fn = "unsync" /\ m \in StackTells
    BY <1>1, <1>2, <2>1 DEF DelInv, Removing
  <2>2. CASE Ctl.fn = "set_mac"
    BY <1>1, <1>4, <1>5, <1>7, <2>1, <2>2 DEF DelInv, Live
  <2>3. CASE Ctl.fn \in {"restore", "remove"}
    BY <1>1, <1>4, <1>5, <1>6, <1>7, <2>1, <2>3 DEF DelInv, Live
  <2> QED
    BY <1>1, <2>2, <2>3
<1>15. BatchInv'
  BY <1>4, <1>5, <1>6 DEF BatchInv, CtlAdds
<1>16. UnsyncInv'
  BY <1>4, <1>6 DEF UnsyncInv
<1>17. WantInv'
  BY <1>4, <1>7 DEF WantInv
<1>18. HealInv'
  BY <1>4 DEF HealInv
<1> QED
  BY <1>10, <1>11, <1>12, <1>13, <1>14, <1>15, <1>16, <1>17, <1>18

(* idpf_set_rx_mode: a request about the modes tells of no address.        *)
LEMMA SetRxModeKeeps ==
  ASSUME IInv, NEW p \in BOOLEAN, NEW a \in BOOLEAN, SetRxMode(p, a)
  PROVE  IInv'
<1> USE DEF IInv
<1> DEFINE req == [op |-> "promisc",
                   macs |-> [uc |-> flags'.uc, mc |-> flags'.mc], wait |-> FALSE]
<1>1. /\ Stack.pc = "idle" /\ Stack.fn = "none"
      /\ up' = up /\ addr' = addr /\ wanted' = wanted /\ list' = list
      /\ th' = th /\ errs' = errs /\ hw' = hw /\ hwFlags' = hwFlags
      /\ unsent' = unsent /\ left' = left /\ dropped' = dropped
      /\ sendq' = sendq \/ sendq' = Append(sendq, req)
  BY DEF SetRxMode, Begins, Stack, PlaceInv, Placed, hist
<1>2. Listed' = Listed /\ ToAdd' = ToAdd /\ ToDel' = ToDel
  BY <1>1, ListSame
<1>3. /\ Stack' = Stack /\ Ctl' = Ctl /\ StackTells' = StackTells
      /\ CtlTells' = CtlTells
  BY <1>1 DEF Stack, Ctl, StackTells, CtlTells
<1>4. flags' \in [promisc : BOOLEAN, allmulti : BOOLEAN, uc : BOOLEAN, mc : BOOLEAN]
  BY DEF SetRxMode, UserFlags, TypeInv
<1>5. req \in Request /\ req.op = "promisc" /\ ~ req.wait
  <2>1. [uc |-> flags'.uc, mc |-> flags'.mc] \in Modes
    BY <1>4 DEF Modes
  <2> QED
    BY <2>1 DEF Request
<1> HIDE DEF req
<1>6. sendq \in Seq(Request) /\ Listed \subseteq Macs
  BY Entries DEF TypeInv
<1>7. \A m \in Macs : Fate(m)' <=> Fate(m)
  <2>1. CASE sendq' = sendq
    BY <1>1, <2>1, FateSame
  <2>2. CASE sendq' = Append(sendq, req)
    <3>1. \A m \in Macs : FateIn(Append(sendq, req), hw, m) <=> FateIn(sendq, hw, m)
      <4>1. \A m \in Macs : ~ Tells(req, m)
        BY <1>5 DEF Tells
      <4> QED
        BY <1>5, <1>6, <4>1, FateSent
    <3>2. \A m \in Macs : Fate(m)' <=> FateIn(Append(sendq, req), hw, m)
      BY <1>1, <2>2 DEF Fate, FateIn, Tells
    <3> QED
      BY <3>1, <3>2 DEF Fate
  <2> QED
    BY <1>1, <2>1, <2>2
<1>8. /\ sendq' \in Seq(Request)
      /\ \A i \in DOMAIN sendq' : i \in DOMAIN sendq \/ i = Len(sendq) + 1
      /\ \A i \in DOMAIN sendq : i \in DOMAIN sendq' /\ sendq'[i] = sendq[i]
      /\ \A i \in DOMAIN sendq' \ DOMAIN sendq : sendq'[i] = req
      /\ DOMAIN sendq = 1 .. Len(sendq) /\ Len(sendq) \in Nat
  <2>1. CASE sendq' = sendq
    BY <1>6, <2>1, LenProperties
  <2>2. CASE sendq' = Append(sendq, req)
    BY <1>5, <1>6, <2>2, AppendProperties, LenProperties
  <2> QED
    BY <1>1, <2>1, <2>2
<1>9. \A i \in DOMAIN sendq' : sendq'[i].wait => i \in DOMAIN sendq
  BY <1>5, <1>8
<1>10. TypeInv'
  BY <1>1, <1>4, <1>8 DEF TypeInv
<1>11. PlaceInv'
  BY <1>1, <1>3 DEF PlaceInv, Placed
<1>12. WaitInv'
  <2>1. \A i, j \in DOMAIN sendq' : sendq'[i].wait /\ sendq'[j].wait => i = j
    BY <1>8, <1>9 DEF WaitInv
  <2>2. CtlAdds' <=> CtlAdds
    BY <1>3 DEF CtlAdds
  <2> QED
    BY <1>3, <1>8, <1>9, <2>1, <2>2 DEF WaitInv
<1>13. AddInv'
  BY <1>1, <1>2, <1>3, <1>6, <1>7 DEF AddInv, Live, CtlAdds, WillTell
<1>14. DelInv'
  BY <1>1, <1>2, <1>3, <1>7 DEF DelInv, Live, Removing
<1>15. BatchInv'
  BY <1>1, <1>2, <1>3 DEF BatchInv, CtlAdds
<1>16. UnsyncInv'
  BY <1>1, <1>3 DEF UnsyncInv
<1>17. WantInv'
  BY <1>1, <1>2, <1>3 DEF WantInv
<1>18. HealInv'
  <2>1. \A m : ~ Tells(req, m)
    BY <1>5 DEF Tells
  <2>2. ASSUME NEW m, \A i \in DOMAIN sendq : ~ Tells(sendq[i], m)
        PROVE  \A i \in DOMAIN sendq' : ~ Tells(sendq'[i], m)
    BY <1>8, <2>1, <2>2
  <2>3. ASSUME Ctl.fn = "restore", Ctl.alone, ~ Ctl.err, Ctl.pc = "wait",
               NEW i \in DOMAIN sendq', NEW j \in DOMAIN sendq',
               sendq'[i].wait, j > i
        PROVE  sendq'[j].op = "promisc"
    <3>1. i \in DOMAIN sendq /\ sendq[i].wait
      BY <1>8, <1>9, <2>3
    <3>2. CASE j \in DOMAIN sendq
      BY <1>8, <2>3, <3>1, <3>2 DEF HealInv
    <3>3. CASE j \notin DOMAIN sendq
      BY <1>5, <1>8, <3>3
    <3> QED
      BY <3>2, <3>3
  <2> QED
    BY <1>1, <1>2, <1>3, <2>2, <2>3 DEF HealInv
<1> QED
  BY <1>10, <1>11, <1>12, <1>13, <1>14, <1>15, <1>16, <1>17, <1>18

(* idpf_mac_filter_async_handler puts what it drops on record.             *)
LEMMA AsyncHandlerKeeps ==
  ASSUME IInv, AsyncHandler
  PROVE  IInv'
<1> USE DEF IInv
<1>1. PICK ms \in SUBSET Macs : ms = Head(errs)
  <2>1. Head(errs) \in SUBSET Macs
    BY HeadTailProperties DEF AsyncHandler, TypeInv
  <2> QED
    BY <2>1
<1>2. /\ up' = up /\ addr' = addr /\ wanted' = wanted /\ sendq' = sendq
      /\ th' = th /\ hw' = hw /\ flags' = flags /\ hwFlags' = hwFlags
      /\ unsent' = unsent
      /\ left' = left \cup ms /\ dropped' = dropped \cup ms
  BY <1>1 DEF AsyncHandler
<1>3. /\ list' \in Seq(Entry) /\ Unique(list')
      /\ Listed' = Listed \ ms /\ ToAdd' = ToAdd \ ms /\ ToDel' = ToDel \ ms
  <2>1. Without(ms)
    BY <1>1 DEF AsyncHandler
  <2> QED
    BY <2>1, WithoutIs DEF TypeInv
<1>4. /\ Stack' = Stack /\ Ctl' = Ctl /\ StackTells' = StackTells
      /\ CtlTells' = CtlTells
  BY <1>2 DEF Stack, Ctl, StackTells, CtlTells
<1>5. \A m \in Macs : Fate(m)' <=> Fate(m)
  BY <1>2, FateSame
<1>6. errs' \in Seq(SUBSET Macs)
  BY HeadTailProperties DEF AsyncHandler, TypeInv
<1>7. Listed \subseteq Macs /\ ToAdd \subseteq Listed /\ ToDel \subseteq Listed
  BY Entries DEF TypeInv
<1>10. TypeInv'
  BY <1>1, <1>2, <1>3, <1>6 DEF TypeInv
<1>11. PlaceInv'
  BY <1>2, <1>4 DEF PlaceInv, Placed
<1>12. WaitInv'
  BY <1>2, <1>4 DEF WaitInv, CtlAdds
<1>13. AddInv'
  BY <1>2, <1>3, <1>4, <1>5, <1>7 DEF AddInv, Live, CtlAdds, WillTell
<1>14. DelInv'
  BY <1>2, <1>3, <1>4, <1>5 DEF DelInv, Live, Removing
<1>15. BatchInv'
  BY <1>2, <1>3, <1>4 DEF BatchInv, CtlAdds
<1>16. UnsyncInv'
  <2>1. Stack.mac \in Macs
    BY HalvesAre
  <2> QED
    BY <1>2, <1>3, <1>4, <1>5, <2>1 DEF UnsyncInv
<1>17. WantInv'
  BY <1>2, <1>3, <1>4 DEF WantInv
<1>18. HealInv'
  BY <1>2, <1>3, <1>4 DEF HealInv
<1> QED
  BY <1>10, <1>11, <1>12, <1>13, <1>14, <1>15, <1>16, <1>17, <1>18

--------------------------------------------------------------------------------
(* The device's answers keep it.                                           *)

(* What an answer means to the one who waits for it, if anybody does       *)
LEMMA AnswerIs ==
  ASSUME TypeInv, PlaceInv, NEW r \in Request, NEW ok \in BOOLEAN,
         Answer(r, ok), r.wait => Ctl.pc = "wait"
  PROVE  /\ th' \in [Threads -> ThreadType] /\ errs' \in Seq(SUBSET Macs)
         /\ Stack' = Stack /\ StackTells' = StackTells
         /\ Ctl'.fn = Ctl.fn /\ Ctl'.mac = Ctl.mac
         /\ Ctl'.alone <=> Ctl.alone
         /\ ~ r.wait => Ctl' = Ctl /\ CtlTells' = CtlTells
         /\ r.wait /\ ok => /\ Ctl'.pc \in {"send", "done"} /\ ~ Ctl'.err
                            /\ Ctl'.batch = Rest(Ctl.batch)
                            /\ Ctl'.pc = "done" => Ctl'.batch = <<>>
                            /\ CtlTells' = CtlTells
         /\ r.wait /\ ~ ok => /\ Ctl'.pc = "done" /\ Ctl'.err
                              /\ Ctl'.batch = <<>> /\ CtlTells' = {}
<1>1. /\ "ctl" \in Threads /\ Other("ctl") = "stack"
      /\ th \in [Threads -> ThreadType] /\ Ctl.batch \in Seq(Macs)
      /\ Rest(Ctl.batch) \in Seq(Macs) /\ errs \in Seq(SUBSET Macs)
  BY HalvesAre, Parts DEF Threads, Other, TypeInv
<1>2. CASE ~ r.wait
  <2>1. th' = th /\ (errs' = errs \/ (r.op # "promisc" /\ errs' = Append(errs, r.macs)))
    BY <1>2 DEF Answer
  <2>2. r.op # "promisc" => r.macs \in SUBSET Macs
    BY RequestIs
  <2>3. errs' \in Seq(SUBSET Macs)
    BY SMTT(30), <1>1, <2>1, <2>2, AppendProperties
  <2> QED
    BY <1>1, <1>2, <2>1, <2>3 DEF Stack, Ctl, StackTells, CtlTells
<1>3. CASE r.wait
  <2>1. Ctl.pc = "wait" /\ ~ Ctl.err
    BY <1>3 DEF PlaceInv, Placed
  <2>2. errs' = errs
    BY <1>3 DEF Answer
  <2>3. CASE ok /\ Rest(Ctl.batch) = <<>>
    <3>1. Done("ctl", FALSE)
      BY <1>3, <2>3 DEF Answer, Ctl, Done
    <3>2. /\ th' \in [Threads -> ThreadType]
          /\ Ctl'.pc = "done" /\ Ctl'.fn = Ctl.fn /\ Ctl'.mac = Ctl.mac
          /\ Ctl'.batch = <<>> /\ ~ Ctl'.err /\ (Ctl'.alone <=> Ctl.alone)
          /\ Stack' = Stack
      BY <1>1, <3>1, DoneIs DEF Stack, Ctl
    <3>3. CtlTells' = CtlTells /\ StackTells' = StackTells
      BY <2>1, <2>3, <3>2, EmptyTells DEF CtlTells, StackTells
    <3> QED
      BY <1>1, <1>3, <2>2, <2>3, <3>2, <3>3
  <2>4. CASE ok /\ Rest(Ctl.batch) # <<>>
    <3>1. th' = [th EXCEPT !["ctl"].pc = "send", !["ctl"].batch = Rest(Ctl.batch)]
      BY <1>3, <2>4 DEF Answer, Ctl
    <3>2. /\ th' \in [Threads -> ThreadType]
          /\ Ctl'.pc = "send" /\ Ctl'.fn = Ctl.fn /\ Ctl'.mac = Ctl.mac
          /\ Ctl'.batch = Rest(Ctl.batch) /\ (Ctl'.err <=> Ctl.err)
          /\ Ctl'.alone <=> Ctl.alone
          /\ Stack' = Stack
      BY ZenonT(30), <1>1, <3>1, BatchIs DEF Stack, Ctl
    <3>3. CtlTells' = CtlTells /\ StackTells' = StackTells
      BY <2>1, <3>2 DEF CtlTells, StackTells
    <3> QED
      BY <1>1, <1>3, <2>1, <2>2, <2>4, <3>2, <3>3
  <2>5. CASE ~ ok
    <3>1. Done("ctl", TRUE)
      BY <1>3, <2>5 DEF Answer, Done
    <3>2. /\ th' \in [Threads -> ThreadType]
          /\ Ctl'.pc = "done" /\ Ctl'.fn = Ctl.fn /\ Ctl'.mac = Ctl.mac
          /\ Ctl'.batch = <<>> /\ Ctl'.err /\ (Ctl'.alone <=> Ctl.alone)
          /\ Stack' = Stack
      BY <1>1, <3>1, FailedIs DEF Stack, Ctl
    <3>3. CtlTells' = {} /\ StackTells' = StackTells
      BY <3>2, EmptyTells DEF CtlTells, StackTells
    <3> QED
      BY <1>1, <1>3, <2>2, <2>5, <3>2, <3>3
  <2> QED
    BY <2>3, <2>4, <2>5
<1> QED
  BY <1>2, <1>3

(* What is left of the requests that are waited for                        *)
LEMMA WaitTail ==
  ASSUME TypeInv, PlaceInv, WaitInv, sendq # <<>>, sendq' = Tail(sendq),
         NEW ok \in BOOLEAN, Answer(Head(sendq), ok)
  PROVE  /\ Head(sendq).wait =>
              /\ Ctl.pc = "wait"
              /\ Head(sendq).op = IF CtlAdds THEN "add" ELSE "del"
              /\ Head(sendq).macs = ToSet(Chunk(Ctl.batch))
         /\ WaitInv' /\ sendq' \in Seq(Request)
<1>1. /\ 1 \in DOMAIN sendq /\ sendq[1] = Head(sendq)
      /\ Head(sendq) \in Request /\ sendq' \in Seq(Request)
      /\ \A i \in DOMAIN sendq' : i + 1 \in DOMAIN sendq /\ i + 1 > 1
                                  /\ sendq'[i] = sendq[i + 1]
      /\ DOMAIN sendq' \subseteq Nat
  BY TailIs, LenProperties DEF TypeInv
<1>2. Head(sendq).wait =>
              /\ Ctl.pc = "wait"
              /\ Head(sendq).op = IF CtlAdds THEN "add" ELSE "del"
              /\ Head(sendq).macs = ToSet(Chunk(Ctl.batch))
  BY <1>1 DEF WaitInv
<1>3. \A i, j \in DOMAIN sendq' : sendq'[i].wait /\ sendq'[j].wait => i = j
  <2>1. ASSUME NEW i \in DOMAIN sendq', NEW j \in DOMAIN sendq',
               sendq'[i].wait, sendq'[j].wait
        PROVE  i = j
    <3>1. i + 1 = j + 1
      BY <1>1, <2>1 DEF WaitInv
    <3> QED
      BY <1>1, <3>1
  <2> QED
    BY <2>1
<1>4. ASSUME NEW i \in DOMAIN sendq', sendq'[i].wait
      PROVE  /\ Ctl'.pc = "wait"
             /\ sendq'[i].op = IF CtlAdds' THEN "add" ELSE "del"
             /\ sendq'[i].macs = ToSet(Chunk(Ctl'.batch))
  <2>1. sendq[i + 1].wait /\ i + 1 \in DOMAIN sendq /\ i + 1 # 1
    BY <1>1, <1>4
  <2>2. ~ Head(sendq).wait
    BY <1>1, <2>1 DEF WaitInv
  <2>3. Ctl' = Ctl
    BY <1>1, <2>2, AnswerIs
  <2> QED
    BY <1>1, <1>4, <2>1, <2>3 DEF WaitInv, CtlAdds
<1> QED
  BY <1>1, <1>2, <1>3, <1>4 DEF WaitInv

(* The device executes a request: no address changes its fate.             *)
LEMMA ExecuteKeeps ==
  ASSUME IInv, Execute
  PROVE  IInv'
<1> USE DEF IInv
<1> DEFINE r == Head(sendq)
           q == Tail(sendq)
           ctl == Ctl.batch
           last == r.macs \ (About(q) \cup ToSet(Stack.batch)
                     \cup ToSet(IF r.wait THEN Rest(ctl) ELSE ctl))
<1>1. /\ sendq # <<>> /\ sendq' = q /\ sendq \in Seq(Request)
      /\ up' = up /\ addr' = addr /\ wanted' = wanted /\ list' = list
      /\ flags' = flags /\ dropped' = dropped
      /\ Answer(r, TRUE)
  BY DEF Execute, TypeInv
<1>2. Listed' = Listed /\ ToAdd' = ToAdd /\ ToDel' = ToDel
  BY <1>1, ListSame
<1>3. /\ r \in Request /\ 1 \in DOMAIN sendq /\ sendq[1] = r
      /\ \A i \in DOMAIN q : i + 1 \in DOMAIN sendq /\ i + 1 > 1
                             /\ q[i] = sendq[i + 1]
      /\ \A i, j \in DOMAIN q : i > j <=> i + 1 > j + 1
  BY <1>1, TailIs
<1>4. /\ r.op \in {"add", "del", "promisc"}
      /\ r.op # "promisc" => r.macs \subseteq Macs
      /\ r.op = "promisc" => r.macs \in Modes /\ ~ r.wait
  BY <1>3, RequestIs
<1>5. \/ /\ r.op = "add" /\ hw' = hw \cup r.macs /\ unsent' = unsent \ last
         /\ hwFlags' = hwFlags /\ left' = left
      \/ /\ r.op = "del" /\ hw' = hw \ r.macs /\ left' = left \ last
         /\ hwFlags' = hwFlags /\ unsent' = unsent
      \/ /\ r.op = "promisc" /\ hwFlags' = r.macs
         /\ hw' = hw /\ unsent' = unsent /\ left' = left
  BY <1>4 DEF Execute, Stack, Ctl
<1>6. /\ r.wait => /\ Ctl.pc = "wait"
                   /\ r.op = IF CtlAdds THEN "add" ELSE "del"
                   /\ r.macs = ToSet(Chunk(Ctl.batch))
      /\ WaitInv' /\ sendq' \in Seq(Request)
  BY <1>1, WaitTail
<1>7. /\ th' \in [Threads -> ThreadType] /\ errs' \in Seq(SUBSET Macs)
      /\ Stack' = Stack /\ StackTells' = StackTells
      /\ Ctl'.fn = Ctl.fn /\ Ctl'.mac = Ctl.mac
      /\ Ctl'.alone <=> Ctl.alone
      /\ CtlTells' = CtlTells
      /\ ~ r.wait => Ctl' = Ctl
      /\ r.wait => /\ Ctl'.pc \in {"send", "done"} /\ ~ Ctl'.err
                   /\ Ctl'.batch = Rest(Ctl.batch)
                   /\ Ctl'.pc = "done" => Ctl'.batch = <<>>
  <2>1. r.wait \in BOOLEAN
    BY <1>3, RequestIs
  <2> HIDE DEF r
  <2>2. PICK ok \in BOOLEAN : ok /\ Answer(r, ok)
    BY <1>1
  <2> QED
    BY <1>3, <1>6, <2>1, <2>2, AnswerIs
<1>8. (CtlAdds' <=> CtlAdds) /\ Listed \subseteq Macs
  BY <1>7, Entries DEF CtlAdds, TypeInv
<1>9. \A m \in last : m \in r.macs /\ m \notin About(q) /\ m \notin StackTells
                      /\ m \notin CtlTells
  <2>1. CtlTells \subseteq ToSet(IF r.wait THEN Rest(ctl) ELSE ctl)
    <3>1. ToSet(Rest(ctl)) \subseteq ToSet(ctl)
      BY HalvesAre, Parts
    <3> QED
      BY <1>6, <3>1 DEF CtlTells
  <2> QED
    BY <2>1 DEF StackTells
<1>10. \A m \in Macs : Fate(m)' <=> Fate(m)
  <2> SUFFICES ASSUME NEW m \in Macs PROVE FateIn(q, hw', m) <=> FateIn(sendq, hw, m)
    BY <1>1 DEF Fate, FateIn, Tells
  <2> HIDE DEF r, q, last
  <2>1. /\ m \in About(q) => (FateIn(q, hw', m) <=> FateIn(sendq, hw, m))
        /\ m \notin About(q) /\ Tells(r, m) =>
             /\ FateIn(q, hw', m) <=> m \in hw'
             /\ FateIn(sendq, hw, m) <=> r.op = "add"
        /\ m \notin About(q) /\ ~ Tells(r, m) =>
             /\ FateIn(q, hw', m) <=> m \in hw'
             /\ FateIn(sendq, hw, m) <=> m \in hw
    BY <1>1, FateTail DEF r, q
  <2>2. CASE Tells(r, m)
    BY <1>5, <2>1, <2>2 DEF Tells
  <2>3. CASE ~ Tells(r, m)
    BY <1>5, <2>1, <2>3 DEF Tells
  <2> QED
    BY <2>2, <2>3
<1>11. \A m \in last : m \in Macs => (r.op = "add" => Fate(m)')
                                     /\ (r.op = "del" => ~ Fate(m)')
  <2> SUFFICES ASSUME NEW m \in last, m \in Macs
               PROVE  /\ r.op = "add" => FateIn(q, hw', m)
                      /\ r.op = "del" => ~ FateIn(q, hw', m)
    BY <1>1 DEF Fate, FateIn, Tells
  <2>1. m \notin About(q) /\ m \in r.macs
    BY <1>9
  <2> HIDE DEF r, q, last
  <2>2. r.op # "promisc" => (FateIn(q, hw', m) <=> m \in hw')
    BY <1>1, <2>1, FateTail DEF r, q, Tells
  <2> QED
    BY <1>5, <2>1, <2>2
<1>24. hwFlags' \in Modes
  BY <1>4, <1>5 DEF TypeInv
<1>18. HealInv'
  <2> SUFFICES ASSUME Ctl.fn = "restore", Ctl.alone, ~ Ctl'.err
               PROVE  /\ Ctl'.pc = "collect" => Listed \subseteq ToAdd
                      /\ Ctl'.pc \in {"send", "wait", "done"} =>
                           \A m \in Listed \ ToSet(Ctl'.batch) :
                             m \in hw' /\ \A i \in DOMAIN q : ~ Tells(q[i], m)
                      /\ Ctl'.pc = "wait" => \A i, j \in DOMAIN q :
                           q[i].wait /\ j > i => q[j].op = "promisc"
    BY <1>1, <1>2, <1>7 DEF HealInv
  <2> HIDE DEF r, q, last, ctl
  <2>1. ~ Ctl.err
    <3>1. r.wait => Ctl.pc # "done"
      BY <1>6
    <3>2. r.wait => ~ Ctl.err
      BY <3>1 DEF PlaceInv, Placed
    <3> QED
      BY <1>7, <3>2
  <2>2. CASE ~ r.wait
    <3>1. Ctl' = Ctl
      BY <1>7, <2>2
    <3>2. ASSUME Ctl.pc \in {"send", "wait", "done"},
                 NEW m \in Listed \ ToSet(Ctl.batch)
          PROVE  m \in hw' /\ \A i \in DOMAIN q : ~ Tells(q[i], m)
      <4>1. m \in hw /\ \A i \in DOMAIN sendq : ~ Tells(sendq[i], m)
        BY <2>1, <3>2 DEF HealInv
      <4>2. ~ Tells(r, m)
        BY <1>3, <4>1
      <4>3. m \in hw'
        BY <1>5, <4>1, <4>2 DEF Tells
      <4> QED
        BY <1>3, <4>1, <4>3
    <3>3. ASSUME Ctl.pc = "wait", NEW i \in DOMAIN q, NEW j \in DOMAIN q,
                 q[i].wait, j > i
          PROVE  q[j].op = "promisc"
      BY <1>3, <2>1, <3>3 DEF HealInv
    <3> QED
      BY <2>1, <3>1, <3>2, <3>3 DEF HealInv
  <2>3. CASE r.wait
    <3>1. /\ Ctl.pc = "wait" /\ r.op = "add" /\ r.macs = ToSet(Chunk(Ctl.batch))
          /\ Ctl'.pc \in {"send", "done"} /\ Ctl'.batch = Rest(Ctl.batch)
      BY <1>6, <1>7, <2>3 DEF CtlAdds
    <3>2. hw' = hw \cup r.macs
      BY <1>5, <3>1
    <3>3. ToSet(Ctl.batch) = r.macs \cup ToSet(Ctl'.batch)
      BY <3>1, HalvesAre, Parts
    <3>4. \A i \in DOMAIN q : q[i].op = "promisc"
      BY <1>3, <2>1, <2>3, <3>1 DEF HealInv
    <3>5. ASSUME NEW m \in Listed \ ToSet(Ctl'.batch) PROVE m \in hw'
      BY <2>1, <3>1, <3>2, <3>3 DEF HealInv
    <3> QED
      BY <3>1, <3>4, <3>5 DEF Tells
  <2> QED
    BY <2>2, <2>3
<1> HIDE DEF r, q, last, ctl
<1>25. /\ \A m \in unsent \ unsent' : m \in last /\ r.op = "add"
       /\ \A m \in left \ left' : m \in last /\ r.op = "del"
       /\ unsent' \subseteq unsent /\ left' \subseteq left /\ hw' \subseteq Macs
  BY <1>4, <1>5 DEF TypeInv
<1>20. TypeInv'
  BY <1>1, <1>6, <1>7, <1>24, <1>25 DEF TypeInv
<1>21. PlaceInv'
  BY <1>1, <1>6, <1>7 DEF PlaceInv, Placed
<1>13. AddInv'
  <2>1. r.wait => Ctl.pc = "wait"
    BY <1>6
  <2> QED
    BY <1>1, <1>2, <1>7, <1>8, <1>10, <1>11, <1>25, <2>1
    DEF AddInv, Live, WillTell
<1>14. DelInv'
  <2>1. r.wait => Ctl.pc = "wait"
    BY <1>6
  <2> QED
    BY <1>1, <1>2, <1>7, <1>10, <1>11, <1>25, <2>1
    DEF DelInv, Live, Removing
<1>15. BatchInv'
  BY <1>2, <1>7, <1>8, <1>9, <1>25 DEF BatchInv
<1>16. UnsyncInv'
  <2>1. Stack.mac \in Macs
    BY HalvesAre
  <2> QED
    BY <1>1, <1>2, <1>7, <1>10, <1>11, <1>25, <2>1 DEF UnsyncInv
<1>17. WantInv'
  BY <1>1, <1>2, <1>7 DEF WantInv
<1> QED
  BY <1>6, <1>13, <1>14, <1>15, <1>16, <1>17, <1>18, <1>20, <1>21

(* The device refuses a request: what it was about is on record.           *)
LEMMA RefuseKeeps ==
  ASSUME IInv, Refuse
  PROVE  IInv'
<1> USE DEF IInv
<1> DEFINE r == Head(sendq)
           q == Tail(sendq)
           ms == IF r.wait THEN ToSet(Ctl.batch) ELSE r.macs
<1>1. /\ sendq # <<>> /\ sendq' = q /\ sendq \in Seq(Request)
      /\ up' = up /\ addr' = addr /\ wanted' = wanted /\ list' = list
      /\ hw' = hw /\ hwFlags' = hwFlags
      /\ flags' = flags /\ dropped' = dropped
      /\ Answer(r, FALSE)
      /\ unsent' = IF r.op = "add" THEN unsent \cup ms ELSE unsent
      /\ left'   = IF r.op = "del" THEN left \cup ms ELSE left
  BY DEF Refuse, TypeInv, Ctl
<1>2. Listed' = Listed /\ ToAdd' = ToAdd /\ ToDel' = ToDel
  BY <1>1, ListSame
<1>3. /\ r \in Request /\ 1 \in DOMAIN sendq /\ sendq[1] = r
      /\ \A i \in DOMAIN q : i + 1 \in DOMAIN sendq /\ i + 1 > 1
                             /\ q[i] = sendq[i + 1]
      /\ \A i, j \in DOMAIN q : i > j <=> i + 1 > j + 1
  BY <1>1, TailIs
<1>4. /\ r.op \in {"add", "del", "promisc"}
      /\ r.op # "promisc" => r.macs \subseteq Macs
      /\ r.op = "promisc" => ~ r.wait
  BY <1>3, RequestIs
<1>5. /\ r.wait => /\ Ctl.pc = "wait"
                   /\ r.op = IF CtlAdds THEN "add" ELSE "del"
                   /\ r.macs = ToSet(Chunk(Ctl.batch))
      /\ WaitInv' /\ sendq' \in Seq(Request)
  <2>1. FALSE \in BOOLEAN
    OBVIOUS
  <2> QED
    BY <1>1, <2>1, WaitTail
<1>6. /\ th' \in [Threads -> ThreadType] /\ errs' \in Seq(SUBSET Macs)
      /\ Stack' = Stack /\ StackTells' = StackTells
      /\ Ctl'.fn = Ctl.fn /\ Ctl'.mac = Ctl.mac
      /\ Ctl'.alone <=> Ctl.alone
      /\ ~ r.wait => Ctl' = Ctl /\ CtlTells' = CtlTells
      /\ r.wait => /\ Ctl'.pc = "done" /\ Ctl'.err
                   /\ Ctl'.batch = <<>> /\ CtlTells' = {}
  <2>1. r.wait \in BOOLEAN
    BY <1>3, RequestIs
  <2> HIDE DEF r
  <2>2. PICK ok \in BOOLEAN : ~ ok /\ Answer(r, ok)
    BY <1>1
  <2> QED
    BY <1>3, <1>5, <2>1, <2>2, AnswerIs
<1>7. /\ (CtlAdds' <=> CtlAdds) /\ Listed \subseteq Macs
      /\ r.op # "promisc" => r.macs \subseteq ms /\ ms \subseteq Macs
      /\ r.wait => CtlTells \subseteq ms
      /\ Ctl.fn = "remove" => ~ up
  <2>1. /\ ToSet(Ctl.batch) = ToSet(Chunk(Ctl.batch)) \cup ToSet(Rest(Ctl.batch))
        /\ ToSet(Ctl.batch) \subseteq Macs
    BY HalvesAre, Parts
  <2>2. CtlTells \subseteq ToSet(Ctl.batch)
    BY <2>1 DEF CtlTells
  <2>3. CtlAdds' <=> CtlAdds
    BY <1>6 DEF CtlAdds
  <2>4. Listed \subseteq Macs
    BY Entries DEF TypeInv
  <2>5. Ctl.fn = "remove" => ~ up
    BY DEF PlaceInv
  <2>6. r.op # "promisc" => r.macs \subseteq ms /\ ms \subseteq Macs
    BY <1>4, <1>5, <2>1
  <2> QED
    BY <2>2, <2>3, <2>4, <2>5, <2>6
<1> HIDE DEF r, q, ms
<1>8. \A m \in Macs :
        /\ Fate(m)' => Fate(m) \/ m \in left'
        /\ Fate(m) => Fate(m)' \/ m \in unsent'
  <2> SUFFICES ASSUME NEW m \in Macs
               PROVE  /\ FateIn(q, hw, m) => FateIn(sendq, hw, m) \/ m \in left'
                      /\ FateIn(sendq, hw, m) => FateIn(q, hw, m) \/ m \in unsent'
    BY <1>1 DEF Fate, FateIn, Tells
  <2>1. /\ m \in About(q) => (FateIn(q, hw, m) <=> FateIn(sendq, hw, m))
        /\ m \notin About(q) /\ Tells(r, m) =>
             /\ FateIn(q, hw, m) <=> m \in hw
             /\ FateIn(sendq, hw, m) <=> r.op = "add"
        /\ m \notin About(q) /\ ~ Tells(r, m) =>
             /\ FateIn(q, hw, m) <=> m \in hw
             /\ FateIn(sendq, hw, m) <=> m \in hw
    BY <1>1, FateTail DEF r, q
  <2>2. Tells(r, m) => m \in ms /\ r.op \in {"add", "del"}
    BY <1>4, <1>7 DEF Tells
  <2> QED
    BY <1>1, <2>1, <2>2
<1>9. /\ unsent \subseteq unsent' /\ left \subseteq left'
      /\ unsent' \subseteq Macs /\ left' \subseteq Macs
  BY <1>1, <1>7 DEF TypeInv
<1>10. TypeInv'
  BY <1>1, <1>5, <1>6, <1>9 DEF TypeInv
<1>11. PlaceInv'
  BY <1>1, <1>5, <1>6 DEF PlaceInv, Placed
<1>13. AddInv'
  <2>1. r.wait /\ CtlAdds => CtlTells \subseteq unsent'
    BY <1>1, <1>5, <1>7
  <2> QED
    BY <1>1, <1>2, <1>5, <1>6, <1>7, <1>8, <1>9, <2>1 DEF AddInv, Live, WillTell
<1>14. DelInv'
  <2>1. r.wait /\ ~ CtlAdds => CtlTells \subseteq left'
    BY <1>1, <1>5, <1>7
  <2>2. Ctl.fn = "remove" => ~ CtlAdds
    BY DEF CtlAdds
  <2> QED
    BY <1>1, <1>2, <1>5, <1>6, <1>7, <1>8, <1>9, <2>1, <2>2
    DEF DelInv, Live, Removing
<1>15. BatchInv'
  BY <1>2, <1>6, <1>7, <1>9 DEF BatchInv
<1>16. UnsyncInv'
  <2>1. Stack.mac \in Macs
    BY HalvesAre
  <2> QED
    BY <1>1, <1>2, <1>6, <1>8, <1>9, <2>1 DEF UnsyncInv
<1>17. WantInv'
  BY <1>1, <1>2, <1>6 DEF WantInv
<1>18. HealInv'
  <2>1. CASE r.wait
    BY <1>6, <2>1 DEF HealInv
  <2>2. CASE ~ r.wait
    <3>1. Ctl' = Ctl
      BY <1>6, <2>2
    <3>2. \A m : (\A i \in DOMAIN sendq : ~ Tells(sendq[i], m)) =>
                 \A i \in DOMAIN q : ~ Tells(q[i], m)
      BY <1>3
    <3>3. \A i, j \in DOMAIN q : q[i].wait /\ j > i =>
            \E k, l \in DOMAIN sendq : /\ sendq[k].wait /\ l > k
                                       /\ q[j].op = sendq[l].op
      BY <1>3
    <3> QED
      BY <1>1, <1>2, <3>1, <3>2, <3>3 DEF HealInv
  <2> QED
    BY <2>1, <2>2
<1> QED
  BY <1>5, <1>10, <1>11, <1>13, <1>14, <1>15, <1>16, <1>17, <1>18

--------------------------------------------------------------------------------
(* The promiscuous modes                                                   *)

(* The last request about the modes of a queue q, and the device's if it   *)
(* has none                                                                *)
LastModes(q, h, x) ==
  \/ h = x /\ \A i \in DOMAIN q : q[i].op # "promisc"
  \/ \E i \in DOMAIN q :
       /\ q[i].op = "promisc" /\ q[i].macs = x
       /\ \A j \in DOMAIN q : j > i => q[j].op # "promisc"

(* A request joins the queue.                                              *)
LEMMA ModesSent ==
  ASSUME NEW q \in Seq(Request), NEW r \in Request, NEW h, NEW x, NEW y
  PROVE  /\ r.op # "promisc" /\ LastModes(q, h, x) => LastModes(Append(q, r), h, x)
         /\ r.op = "promisc" /\ r.macs = x => LastModes(Append(q, r), h, x)
<1>1. /\ Len(q) \in Nat /\ DOMAIN q = 1 .. Len(q)
      /\ DOMAIN Append(q, r) = 1 .. Len(q) + 1
      /\ Append(q, r)[Len(q) + 1] = r
      /\ \A i \in DOMAIN q : Append(q, r)[i] = q[i]
  BY AppendProperties, LenProperties
<1> DEFINE p == Append(q, r)
           n == Len(q) + 1
<1>2. /\ n \in DOMAIN p /\ p[n] = r
      /\ \A i \in DOMAIN p : i = n \/ (i \in DOMAIN q /\ p[i] = q[i])
      /\ \A i \in DOMAIN q : i \in DOMAIN p /\ p[i] = q[i]
      /\ \A i \in DOMAIN p : ~ i > n
  BY <1>1
<1> HIDE DEF p, n
<1>3. ASSUME r.op # "promisc", LastModes(q, h, x) PROVE LastModes(p, h, x)
  BY <1>2, <1>3 DEF LastModes
<1>4. ASSUME r.op = "promisc", r.macs = x PROVE LastModes(p, h, x)
  BY <1>2, <1>4 DEF LastModes
<1> QED
  BY <1>3, <1>4 DEF p

(* The first request leaves the queue.                                     *)
LEMMA ModesTail ==
  ASSUME NEW q \in Seq(Request), q # <<>>, NEW h, NEW x, LastModes(q, h, x)
  PROVE  /\ Head(q).op # "promisc" => LastModes(Tail(q), h, x)
         /\ Head(q).op = "promisc" => LastModes(Tail(q), Head(q).macs, x)
<1> DEFINE p == Tail(q)
<1>1. /\ 1 \in DOMAIN q /\ q[1] = Head(q)
      /\ \A i \in DOMAIN q : i >= 1
      /\ \A i \in DOMAIN p : i + 1 \in DOMAIN q /\ i + 1 > 1 /\ p[i] = q[i + 1]
      /\ \A i \in DOMAIN q : i # 1 => i - 1 \in DOMAIN p /\ p[i - 1] = q[i]
      /\ \A i, j \in DOMAIN p : i > j <=> i + 1 > j + 1
      /\ DOMAIN q \subseteq Nat /\ DOMAIN p \subseteq Nat
  BY TailIs, LenProperties
<1> HIDE DEF p
<1>2. CASE h = x /\ \A i \in DOMAIN q : q[i].op # "promisc"
  BY <1>1, <1>2 DEF LastModes, p
<1>3. CASE \E i \in DOMAIN q :
             /\ q[i].op = "promisc" /\ q[i].macs = x
             /\ \A j \in DOMAIN q : j > i => q[j].op # "promisc"
  <2>1. PICK i \in DOMAIN q :
             /\ q[i].op = "promisc" /\ q[i].macs = x
             /\ \A j \in DOMAIN q : j > i => q[j].op # "promisc"
    BY <1>3
  <2>2. CASE i = 1
    <3>1. Head(q).op = "promisc" /\ Head(q).macs = x
      BY <1>1, <2>1, <2>2
    <3>2. \A j \in DOMAIN p : p[j].op # "promisc"
      BY <1>1, <2>1, <2>2
    <3> QED
      BY <3>1, <3>2 DEF LastModes, p
  <2>3. CASE i # 1
    <3>1. PICK k \in DOMAIN p : k = i - 1 /\ p[k] = q[i]
      BY <1>1, <2>3
    <3>2. \A j \in DOMAIN p : j > k => p[j].op # "promisc"
      <4>1. ASSUME NEW j \in DOMAIN p, j > k PROVE p[j].op # "promisc"
        <5>1. k + 1 = i /\ j + 1 > i
          BY SMTT(30), <1>1, <3>1, <4>1
        <5> QED
          BY <1>1, <2>1, <5>1
      <4> QED
        BY <4>1
    <3> QED
      BY <2>1, <3>1, <3>2 DEF LastModes, p
  <2> QED
    BY <2>2, <2>3
<1> QED
  BY <1>2, <1>3 DEF LastModes

(* Every step keeps the modes.                                             *)
LEMMA PromKeeps ==
  ASSUME IInv, PromInv, [Next]_vars
  PROVE  PromInv'
<1> DEFINE Same == /\ flags' = flags
                   /\ pfail' = pfail
           Flags == /\ flags.uc <=> flags.promisc
                    /\ flags.allmulti => flags.mc
                    /\ flags.mc => flags.allmulti \/ flags.promisc
<1>1. /\ PromInv <=> Flags /\ (~ pfail => LastModes(sendq, hwFlags, UserModes))
      /\ PromInv' <=> Flags' /\ (~ pfail' => LastModes(sendq', hwFlags', UserModes'))
  BY DEF PromInv, LastModes
<1>2. flags' = flags => UserModes' = UserModes /\ (Flags' <=> Flags)
  BY DEF UserModes
<1>3. /\ sendq \in Seq(Request)
      /\ flags \in [promisc : BOOLEAN, allmulti : BOOLEAN, uc : BOOLEAN, mc : BOOLEAN]
  BY DEF IInv, TypeInv
<1>4. CASE Same /\ sendq' = sendq /\ hwFlags' = hwFlags
  BY <1>1, <1>2, <1>4
<1>5. ASSUME NEW t \in Threads, Send(t)
      PROVE  PromInv'
  <2>1. Same /\ hwFlags' = hwFlags
    BY <1>5 DEF Send
  <2>2. CASE sendq' = sendq
    BY <1>4, <2>1, <2>2
  <2>3. CASE sendq' # sendq
    <3>1. PICK r : /\ sendq' = Append(sendq, r)
                   /\ r = [op |-> IF Adds(t) THEN "add" ELSE "del",
                           macs |-> ToSet(Chunk(th[t].batch)), wait |-> ~ Async(t)]
      BY <1>5, <2>3 DEF Send
    <3>2. r \in Request /\ r.op # "promisc"
      <4>1. ToSet(Chunk(th[t].batch)) \subseteq Macs
        <5>1. th[t].batch \in Seq(Macs)
          BY ThreadIs DEF IInv, TypeInv
        <5>2. Chunk(th[t].batch) \in Seq(Macs)
          BY <5>1, Parts
        <5> QED
          BY <5>2, Parts
      <4>2. (~ Async(t)) \in BOOLEAN
        OBVIOUS
      <4>3. PICK w \in BOOLEAN : w = ~ Async(t)
        BY <4>2
      <4>4. PICK ms \in SUBSET Macs : ms = ToSet(Chunk(th[t].batch))
        BY <4>1
      <4>5. PICK op \in {"add", "del"} : op = IF Adds(t) THEN "add" ELSE "del"
        OBVIOUS
      <4>6. r = [op |-> op, macs |-> ms, wait |-> w]
        BY <3>1, <4>3, <4>4, <4>5
      <4> QED
        BY <4>6 DEF Request
    <3>3. LastModes(sendq, hwFlags, UserModes) => LastModes(sendq', hwFlags, UserModes)
      BY <1>3, <3>1, <3>2, ModesSent
    <3> QED
      BY <1>1, <1>2, <2>1, <3>3
  <2> QED
    BY <2>2, <2>3
<1>6. ASSUME Timeout
      PROVE  PromInv'
  <2>1. Same /\ hwFlags' = hwFlags
    BY <1>6 DEF Timeout
  <2>2. /\ DOMAIN sendq' = DOMAIN sendq
        /\ \A i \in DOMAIN sendq : sendq'[i] = [sendq[i] EXCEPT !.wait = FALSE]
    BY <1>6 DEF Timeout
  <2>3. \A i \in DOMAIN sendq : /\ sendq'[i].op = sendq[i].op
                                /\ sendq'[i].macs = sendq[i].macs
    <3>1. ASSUME NEW i \in DOMAIN sendq
          PROVE  sendq'[i].op = sendq[i].op /\ sendq'[i].macs = sendq[i].macs
      <4>1. sendq[i] \in Request
        BY <1>3, LenProperties
      <4> QED
        BY <2>2, <4>1 DEF Request
    <3> QED
      BY <3>1
  <2>4. LastModes(sendq, hwFlags, UserModes) => LastModes(sendq', hwFlags, UserModes)
    BY <2>2, <2>3 DEF LastModes
  <2> QED
    BY <1>1, <1>2, <2>1, <2>4
<1>7. ASSUME Reset
      PROVE  PromInv'
  <2>1. /\ flags' = flags /\ sendq' = <<>>
        /\ hwFlags' = [uc |-> FALSE, mc |-> FALSE]
        /\ pfail' <=> (flags.uc \/ flags.mc)
    BY <1>7 DEF Reset
  <2>2. ~ pfail' => hwFlags' = UserModes
    <3>1. flags.uc \in BOOLEAN /\ flags.mc \in BOOLEAN
      BY <1>3
    <3> QED
      BY <2>1, <3>1 DEF UserModes
  <2>3. DOMAIN sendq' = {}
    BY <2>1
  <2>4. ~ pfail' => LastModes(sendq', hwFlags', UserModes')
    BY <1>2, <2>1, <2>2, <2>3 DEF LastModes
  <2> QED
    BY <1>1, <1>2, <2>1, <2>4
<1>8. ASSUME NEW p \in BOOLEAN, NEW a \in BOOLEAN, SetRxMode(p, a)
      PROVE  PromInv'
  <2>1. /\ flags' = [promisc |-> p, allmulti |-> a, uc |-> p,
                     mc |-> a \/ (flags.mc /\ p)]
        /\ hwFlags' = hwFlags
    BY <1>8 DEF SetRxMode, UserFlags
  <2>2. Flags'
    BY <2>1
  <2>3. UserModes' = [uc |-> flags'.uc, mc |-> flags'.mc] /\ UserModes' \in Modes
    BY <2>1 DEF UserModes, Modes
  <2>4. CASE /\ <<flags'.uc, flags'.mc>> = <<flags.uc, flags.mc>>
             /\ sendq' = sendq /\ pfail' = pfail
    <3>1. UserModes' = UserModes
      BY <2>4 DEF UserModes
    <3> QED
      BY <1>1, <2>1, <2>2, <2>4, <3>1
  <2>5. CASE /\ sendq' = Append(sendq, [op |-> "promisc",
                            macs |-> [uc |-> flags'.uc, mc |-> flags'.mc],
                            wait |-> FALSE])
             /\ pfail' = pfail
    <3>1. PICK r : r = [op |-> "promisc", macs |-> UserModes', wait |-> FALSE]
      OBVIOUS
    <3>2. r \in Request /\ r.op = "promisc" /\ r.macs = UserModes'
      BY <2>3, <3>1 DEF Request
    <3>3. sendq' = Append(sendq, r)
      BY <2>3, <2>5, <3>1
    <3>4. LastModes(sendq', hwFlags', UserModes')
      BY <1>3, <3>2, <3>3, ModesSent
    <3> QED
      BY <1>1, <2>2, <3>4
  <2>6. CASE pfail' = TRUE
    BY <1>1, <2>2, <2>6
  <2> QED
    BY <1>8, <2>4, <2>5, <2>6 DEF SetRxMode
<1>9. ASSUME Execute
      PROVE  PromInv'
  <2> DEFINE r == Head(sendq)
  <2>1. /\ Same /\ sendq # <<>> /\ sendq' = Tail(sendq)
        /\ hwFlags' = IF r.op = "promisc" THEN r.macs ELSE hwFlags
    <3>1. r \in Request /\ sendq # <<>>
      BY <1>3, <1>9, TailIs DEF Execute
    <3>2. r.op \in {"add", "del", "promisc"}
      BY <3>1, RequestIs
    <3> QED
      BY <1>9, <3>2 DEF Execute
  <2>2. LastModes(sendq, hwFlags, UserModes) =>
          LastModes(sendq', hwFlags', UserModes)
    BY <1>3, <2>1, ModesTail
  <2> QED
    BY <1>1, <1>2, <2>1, <2>2
<1>14. ASSUME Refuse
       PROVE  PromInv'
  <2> DEFINE r == Head(sendq)
  <2>1. /\ flags' = flags /\ hwFlags' = hwFlags
        /\ sendq # <<>> /\ sendq' = Tail(sendq)
        /\ ~ pfail' => ~ pfail /\ r.op # "promisc"
    BY <1>14 DEF Refuse
  <2>2. LastModes(sendq, hwFlags, UserModes) /\ r.op # "promisc" =>
          LastModes(sendq', hwFlags', UserModes)
    BY <1>3, <2>1, ModesTail
  <2> QED
    BY <1>1, <1>2, <2>1, <2>2
<1>10. ASSUME NEW t \in Threads, TestUp(t) \/ Collect(t) \/ End(t)
       PROVE  PromInv'
  BY <1>4, <1>10 DEF TestUp, Collect, End
<1>11. ASSUME NEW m \in Macs, Sync(m) \/ Unsync(m) \/ SetMac(m)
       PROVE  PromInv'
  BY <1>4, <1>11 DEF Sync, Unsync, SetMac
<1>12. CASE Open \/ Stop \/ MarkRemove \/ AsyncHandler
  BY <1>4, <1>12 DEF Open, Stop, MarkRemove, AsyncHandler
<1>13. CASE UNCHANGED vars
  BY <1>4, <1>13 DEF vars
<1> QED
  BY <1>5, <1>6, <1>7, <1>8, <1>9, <1>10, <1>11, <1>12, <1>13, <1>14 DEF Next

--------------------------------------------------------------------------------
(* A vport begins with its address in the list and nothing under way.      *)
LEMMA InitIs == Init => IInv /\ PromInv
<1> SUFFICES ASSUME Init PROVE IInv /\ PromInv
  OBVIOUS
<1>1. /\ list \in Seq(Entry) /\ Unique(list) /\ Listed = {Addr0}
  <2>1. /\ list = <<Filter(Addr0)>> /\ Filter(Addr0) \in Entry
        /\ Filter(Addr0).mac = Addr0
    BY AddrAssumption DEF Init, Filter, Entry
  <2> HIDE DEF Filter
  <2> QED
    BY <2>1 DEF Unique, Listed
<1>2. /\ th \in [Threads -> ThreadType]
      /\ Stack.pc = "idle" /\ Stack.fn = "none" /\ Stack.batch = <<>>
      /\ Ctl.pc = "idle" /\ Ctl.fn = "none" /\ Ctl.batch = <<>>
      /\ ~ Stack.err /\ ~ Ctl.err
  <2>1. /\ IdleThread \in ThreadType /\ IdleThread.pc = "idle"
        /\ IdleThread.fn = "none" /\ IdleThread.batch = <<>>
    <3>1. PICK b \in Seq(Macs) : b = <<>>
      BY EmptySeq
    <3>2. IdleThread = [pc |-> "idle", fn |-> "none", mac |-> Addr0, batch |-> b,
                        err |-> FALSE, alone |-> TRUE]
      BY <3>1 DEF IdleThread
    <3> QED
      BY <3>1, <3>2, AddrAssumption DEF ThreadType
  <2>2. ~ IdleThread.err
    BY DEF IdleThread
  <2>3. /\ th = [t \in Threads |-> IdleThread]
        /\ "stack" \in Threads /\ "ctl" \in Threads
    BY DEF Init, Threads
  <2> QED
    BY <2>1, <2>2, <2>3 DEF Stack, Ctl
<1>3. \A m \in Macs : ~ Fate(m)
  BY DEF Init, Fate, FateIn
<1>4. TypeInv
  <2>1. sendq \in Seq(Request) /\ errs \in Seq(SUBSET Macs)
    BY EmptySeq DEF Init
  <2>2. hwFlags \in Modes
    BY DEF Init, Modes
  <2>3. flags \in [promisc : BOOLEAN, allmulti : BOOLEAN, uc : BOOLEAN, mc : BOOLEAN]
    BY DEF Init
  <2> QED
    BY <1>1, <1>2, <2>1, <2>2, <2>3, AddrAssumption DEF Init, TypeInv
<1>5. PlaceInv
  BY <1>2 DEF Init, PlaceInv, Placed
<1>6. WaitInv
  BY DEF Init, WaitInv
<1>7. AddInv
  BY <1>2 DEF Init, AddInv, Live
<1>8. DelInv
  BY <1>3 DEF DelInv
<1>9. BatchInv /\ UnsyncInv /\ HealInv
  BY <1>2 DEF BatchInv, CtlAdds, UnsyncInv, HealInv
<1>10. WantInv
  BY <1>1, <1>2 DEF Init, WantInv
<1>11. PromInv
  BY DEF Init, PromInv, UserModes
<1> QED
  BY <1>4, <1>5, <1>6, <1>7, <1>8, <1>9, <1>10, <1>11 DEF IInv

(* Every step keeps the invariant.                                         *)
LEMMA NextKeeps == IInv /\ [Next]_vars => IInv'
<1> SUFFICES ASSUME IInv, [Next]_vars PROVE IInv'
  OBVIOUS
<1>1. ASSUME NEW m \in Macs, Sync(m) \/ Unsync(m) \/ SetMac(m) PROVE IInv'
  BY <1>1, SyncKeeps, UnsyncKeeps, SetMacKeeps
<1>2. CASE Open \/ Stop \/ MarkRemove \/ Reset
  BY <1>2, OpenKeeps, StopKeeps, MarkRemoveKeeps, ResetKeeps
<1>3. ASSUME NEW t \in Threads, TestUp(t) \/ Collect(t) \/ Send(t) \/ End(t)
      PROVE  IInv'
  <2>1. CASE t = "stack"
    BY <1>3, <2>1, StackTestUpKeeps, StackCollectKeeps, StackSendKeeps,
       StackEndKeeps
  <2>2. CASE t = "ctl"
    BY <1>3, <2>2, CtlTestUpKeeps, CtlCollectKeeps, CtlSendKeeps, CtlEndKeeps
  <2> QED
    BY <2>1, <2>2 DEF Threads
<1>4. CASE Timeout
  BY <1>4, TimeoutKeeps
<1>5. ASSUME NEW p \in BOOLEAN, NEW a \in BOOLEAN, SetRxMode(p, a) PROVE IInv'
  BY <1>5, SetRxModeKeeps
<1>6. CASE Execute \/ Refuse \/ AsyncHandler
  BY <1>6, ExecuteKeeps, RefuseKeeps, AsyncHandlerKeeps
<1>7. CASE UNCHANGED vars
  <2>1. Listed' = Listed /\ ToAdd' = ToAdd /\ ToDel' = ToDel
    BY <1>7, ListSame DEF vars
  <2>2. /\ Stack' = Stack /\ Ctl' = Ctl /\ StackTells' = StackTells
        /\ CtlTells' = CtlTells
    BY <1>7 DEF vars, Stack, Ctl, StackTells, CtlTells
  <2>3. \A m \in Macs : Fate(m)' <=> Fate(m)
    BY <1>7, FateSame DEF vars
  <2>4. Listed \subseteq Macs
    BY Entries DEF IInv, TypeInv
  <2>5. /\ up' = up /\ addr' = addr /\ wanted' = wanted /\ sendq' = sendq
        /\ hw' = hw /\ unsent' = unsent /\ left' = left /\ dropped' = dropped
    BY <1>7 DEF vars, hist
  <2> USE DEF IInv
  <2>10. TypeInv'
    BY <1>7 DEF vars, hist, TypeInv
  <2>11. PlaceInv'
    BY <2>2, <2>5 DEF PlaceInv, Placed
  <2>12. WaitInv'
    BY <2>2, <2>5 DEF WaitInv, CtlAdds
  <2>13. AddInv'
    BY <2>1, <2>2, <2>3, <2>4, <2>5 DEF AddInv, Live, CtlAdds, WillTell
  <2>14. DelInv'
    BY <2>1, <2>2, <2>3, <2>5 DEF DelInv, Live, Removing
  <2>15. BatchInv'
    BY <2>1, <2>2, <2>5 DEF BatchInv, CtlAdds
  <2>16. UnsyncInv'
    <3>1. Stack.mac \in Macs
      BY HalvesAre
    <3> QED
      BY <2>1, <2>2, <2>3, <2>5, <3>1 DEF UnsyncInv
  <2>17. WantInv'
    BY <2>1, <2>2, <2>5 DEF WantInv
  <2>18. HealInv'
    BY <2>1, <2>2, <2>5 DEF HealInv
  <2> QED
    BY <2>10, <2>11, <2>12, <2>13, <2>14, <2>15, <2>16, <2>17, <2>18
<1> QED
  BY <1>1, <1>2, <1>3, <1>4, <1>5, <1>6, <1>7 DEF Next

(* The invariant holds always.                                             *)
LEMMA FiltersKept == Spec => [](IInv /\ PromInv)
<1>1. IInv /\ PromInv /\ [Next]_vars => (IInv /\ PromInv)'
  BY NextKeeps, PromKeeps
<1> QED
  BY <1>1, InitIs, PTL DEF Spec

(* What the invariant says when nothing is under way                       *)
LEMMA Agree == IInv => FiltersAgree
<1> SUFFICES ASSUME IInv PROVE FiltersAgree
  OBVIOUS
<1> USE DEF IInv
<1>1. TypeOK
  <2>1. \A t \in Threads :
          /\ th[t].pc \in {"idle", "mark", "test_up", "collect", "send", "wait",
                           "done"}
          /\ th[t].batch \in Seq(Macs)
    BY ThreadIs DEF TypeInv
  <2> QED
    BY <2>1 DEF TypeInv, TypeOK, Entry, Unique
<1>2. ASSUME Quiet
      PROVE  /\ Stack.pc = "idle" /\ Ctl.pc = "idle"
             /\ Stack.fn = "none" /\ Ctl.fn = "none"
             /\ StackTells = {} /\ CtlTells = {}
             /\ \A m \in Macs : Fate(m) <=> m \in hw
             /\ Listed \subseteq Macs
  <2>1. Stack.pc = "idle" /\ Ctl.pc = "idle"
    BY <1>2 DEF Quiet, Threads, Stack, Ctl
  <2>2. \A m \in Macs : Fate(m) <=> m \in hw
    BY <1>2 DEF Quiet, Fate, FateIn
  <2>3. Listed \subseteq Macs
    BY Entries DEF TypeInv
  <2> QED
    BY <2>1, <2>2, <2>3, EmptyTells DEF PlaceInv, Placed, StackTells, CtlTells
<1>3. ListInDevice
  BY <1>2 DEF ListInDevice, AddInv, Live, CtlAdds
<1>4. DeviceInList
  BY <1>2 DEF DeviceInList, DelInv, Live, Removing, TypeInv
<1>5. WantedListed
  BY DEF WantedListed, WantInv
<1> QED
  BY <1>1, <1>3, <1>4, <1>5 DEF FiltersAgree

(* Whenever nothing is under way, the driver's list, the device and the    *)
(* stack agree on the filters, up to the losses that the code accepts      *)
(* (idpf_add_del_mac_filters and its callers).                             *)
THEOREM FiltersSafe == Spec => []FiltersAgree
BY FiltersKept, Agree, PTL

(* Once all requests were executed, and unless one was lost, the device is *)
(* in no promiscuous mode that the stack has not asked for                 *)
(* (idpf_set_rx_mode).                                                     *)
THEOREM PromiscSafe == Spec => []PromiscLeft
<1>1. IInv /\ PromInv => PromiscLeft
  <2> SUFFICES ASSUME IInv, PromInv, sendq = <<>>, ~ pfail
               PROVE  /\ hwFlags.uc => flags.promisc
                      /\ hwFlags.mc => flags.allmulti \/ flags.promisc
    BY DEF PromiscLeft
  <2>1. hwFlags = UserModes
    BY DEF PromInv
  <2>2. (hwFlags.uc <=> flags.uc) /\ (hwFlags.mc <=> flags.mc)
    BY <2>1 DEF UserModes
  <2> QED
    BY <2>2 DEF PromInv
<1> QED
  BY <1>1, FiltersKept, PTL

(* A vport that comes up after idpf_restore_mac_filters was answered, with *)
(* nobody beside it, has the whole list in the device.                     *)
THEOREM HealsSafe == Spec => RestoreHeals
<1> DEFINE Heals == (~ up /\ up' /\ ~ th["ctl"].err /\ th["ctl"].alone)
                      => Listed \subseteq hw
<1>1. IInv /\ [Next]_vars => [Heals]_vars
  <2> SUFFICES ASSUME IInv, Next, ~ up, up', ~ Ctl.err, Ctl.alone
               PROVE  Listed \subseteq hw
    BY DEF Ctl
  <2>1. End("ctl") /\ RestoreEnd
    BY DEF Next, Sync, Unsync, SetMac, Open, Stop, MarkRemove, Reset, TestUp,
       Collect, Send, End, Timeout, SetRxMode, Execute, Refuse, AsyncHandler,
       SyncEnd, UnsyncEnd, SetMacEnd, RestoreFail, RemoveEnd, Threads
  <2>2. Ctl.pc = "done" /\ Ctl.fn = "restore" /\ ToSet(Ctl.batch) = {}
    BY <2>1, EmptyTells DEF End, RestoreEnd, Ctl, IInv, PlaceInv, Placed
  <2> QED
    BY <2>2 DEF IInv, HealInv
<1> QED
  BY <1>1, FiltersKept, PTL DEF Spec, RestoreHeals
================================================================================
