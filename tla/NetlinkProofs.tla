---------------------------- MODULE NetlinkProofs ----------------------------
(***************************************************************************)
(* Proofs about Netlink and NetadapterList for any number of interfaces,   *)
(* addresses, threads in update() and changes of the kernel and any size   *)
(* of the receive buffer.                                                  *)
(***************************************************************************)
EXTENDS Netlink, FiniteSetTheorems, SequenceTheorems, TLAPS

Indices == Hardware \cup {0}
Kind == Addrs \cup {"link"}     \* of an entry: its address, or the link itself
EntryType == Ifs \X Kind
Lists == UNION {[D -> [name : Ifs, v4 : Seq(Addrs)]] : D \in SUBSET Indices}

Called == [at |-> "getifaddrs"]
Working == [at : {"entry", "index"}, rest : Seq(EntryType), map : Lists, base : Nat, clean : BOOLEAN]

Running(t) == job[t].at \in {"entry", "index"}

LinkMessages ==
  [type : {"RTM_NEWLINK"}, up : BOOLEAN, index : Hardware, at : Nat]
    \cup [type : {"RTM_DELLINK"}, up : {FALSE}, index : Hardware, at : Nat]
AddressMessages == [type : {"RTM_NEWADDR", "RTM_DELADDR"}, index : Hardware, address : Addrs, at : Nat]
Messages == LinkMessages \cup AddressMessages \cup [type : {"other"}, at : Nat]

(* Every variable has its type, and nothing is from the future. *)
ListTypes ==
  /\ kernel \in [Ifs -> {Gone} \cup Seq(Addrs)]
  /\ version \in Nat
  /\ shown \in Nat /\ shown <= version
  /\ adapters \in Lists
  /\ job \in [Threads -> {Idle, Called} \cup Working]
  /\ \A t \in Threads : Running(t) => job[t].base <= version
  /\ \A t \in Threads : At(t, "index") => job[t].rest # <<>> /\ Head(job[t].rest)[1] \in Hardware
  /\ excused \in BOOLEAN

Stages == {"idle", "receive", "update", "callback"}
Handling(t) == stage[t] \in {"update", "callback"}

SocketTypes ==
  /\ up \subseteq Hardware
  /\ links \subseteq Hardware
  /\ known \subseteq Hardware \X Addrs
  /\ queue \in Seq(Messages)
  /\ socket \in {"none", "bound", "started", "stopped"}
  /\ stage \in [Threads -> Stages]
  /\ message \in [Threads -> Messages \cup {NoMessage}]
  /\ \A t \in Threads : message[t] \in Messages <=> Handling(t)
  /\ missed \in BOOLEAN /\ overrun \in BOOLEAN /\ ready \in BOOLEAN

(* Messages are of changes that were made.  They are queued in the order of *)
(* the changes, after the ones that are being handled.                      *)
Dated ==
  /\ \A n \in 1..Len(queue) : queue[n].at <= version
  /\ \A n, k \in 1..Len(queue) : n < k => queue[n].at <= queue[k].at
  /\ \A t \in Threads : message[t] \in Messages =>
       message[t].at <= version /\ \A n \in 1..Len(queue) : message[t].at <= queue[n].at

Distinct(s) == \A m, n \in DOMAIN s : m # n => s[m] # s[n]

(* The kernel has an address once; what has no hardware address does not     *)
(* change; what is gone is not up.                                           *)
KernelInv ==
  /\ \A i \in Ifs : Exists(i) => Distinct(kernel[i])
  /\ \A i \in Ifs \ Hardware : kernel[i] = <<>>
  /\ \A i \in Ifs : ~Exists(i) => i \notin up

Types == ListTypes /\ SocketTypes /\ Dated /\ KernelInv

(* What a change of the kernel has to keep. *)
KernelTypes == kernel \in [Ifs -> {Gone} \cup Seq(Addrs)] /\ up \subseteq Hardware /\ KernelInv

InKernel(k, i, a) == k[i] # Gone /\ Contains(k[i], a)

(* The messages about a link, and about an address. *)
OfLink(m, i) == m.type \in {"RTM_NEWLINK", "RTM_DELLINK"} /\ m.index = i
OfPair(m, i, a) == m.type \in {"RTM_NEWADDR", "RTM_DELADDR"} /\ m.index = i /\ m.address = a

(* A message tells what a step of the kernel changes. *)
Tells(m) ==
  /\ \A i \in Hardware :
       IF OfLink(m, i) THEN m.up <=> i \in up' ELSE i \in up' <=> i \in up
  /\ \A i \in Hardware, a \in Addrs :
       IF OfPair(m, i, a)
         THEN (m.type = "RTM_NEWADDR") <=> <<i, a>> \in Pairs'
         ELSE <<i, a>> \in Pairs' <=> <<i, a>> \in Pairs

-----------------------------------------------------------------------------
(* Lists and sequences *)

(* Taking the first entry or message off. *)
LEMMA Takes ==
  ASSUME NEW S, NEW s \in Seq(S), s # <<>>
  PROVE  /\ Head(s) \in S
         /\ Head(s) = s[1]
         /\ Tail(s) \in Seq(S)
         /\ Len(s) \in Nat \ {0}
         /\ Len(Tail(s)) = Len(s) - 1
         /\ \A n \in 1..Len(Tail(s)) : Tail(s)[n] = s[n + 1]
         /\ ToSet(s) = {Head(s)} \cup ToSet(Tail(s))
<1>1. /\ Head(s) = s[1] /\ Head(s) \in S /\ Tail(s) \in Seq(S) /\ Len(Tail(s)) = Len(s) - 1
      /\ \A n \in 1..Len(Tail(s)) : Tail(s)[n] = s[n + 1]
  BY HeadTailProperties
<1>2. Len(s) \in Nat \ {0} /\ DOMAIN s = 1..Len(s) /\ DOMAIN Tail(s) = 1..Len(Tail(s))
  BY <1>1, EmptySeq, LenProperties
<1>3. \A n \in 2..Len(s) : n - 1 \in 1..Len(Tail(s)) /\ Tail(s)[n - 1] = s[n]
  BY <1>1, <1>2
<1>4. \A n \in 1..Len(s) : n = 1 \/ n \in 2..Len(s)
  BY <1>2
<1>5. ToSet(s) \subseteq {Head(s)} \cup ToSet(Tail(s))
  <2> SUFFICES ASSUME NEW n \in 1..Len(s), s[n] # Head(s)
               PROVE  \E k \in DOMAIN Tail(s) : Tail(s)[k] = s[n]
    BY <1>2 DEF ToSet
  <2>1. n - 1 \in DOMAIN Tail(s) /\ Tail(s)[n - 1] = s[n]
    BY <1>1, <1>2, <1>3, <1>4
  <2> QED BY <2>1
<1>6. \A n \in 1..Len(Tail(s)) : n + 1 \in 1..Len(s)
  BY <1>1, <1>2
<1>7. {Head(s)} \cup ToSet(Tail(s)) \subseteq ToSet(s)
  BY <1>1, <1>2, <1>6 DEF ToSet
<1> QED BY <1>1, <1>2, <1>5, <1>7

(* What a list is. *)
LEMMA ListIs ==
  ASSUME NEW list \in Lists
  PROVE  /\ DOMAIN list \subseteq Indices
         /\ \A n \in DOMAIN list : list[n] \in [name : Ifs, v4 : Seq(Addrs)]
BY DEF Lists

LEMMA IsAList ==
  ASSUME NEW D \in SUBSET Indices, NEW list \in [D -> [name : Ifs, v4 : Seq(Addrs)]]
  PROVE  list \in Lists
BY DEF Lists

LEMMA EmptyList == <<>> \in Lists /\ DOMAIN <<>> = {}
<1>1. <<>> \in [{} -> [name : Ifs, v4 : Seq(Addrs)]]
  OBVIOUS
<1> QED BY <1>1, IsAList

(* One more entry: "apipa address at the end!" *)
LEMMA WithAddressIs ==
  ASSUME NEW v4 \in Seq(Addrs), NEW a \in Kind
  PROVE  /\ WithAddress(v4, a) \in Seq(Addrs)
         /\ ToSet(WithAddress(v4, a)) = ToSet(v4) \cup ({a} \cap Addrs)
         /\ a = "link" => WithAddress(v4, a) = v4
         /\ a \in Apipa =>
              /\ Len(WithAddress(v4, a)) = Len(v4) + 1
              /\ \A n \in 1..Len(v4) : WithAddress(v4, a)[n] = v4[n]
              /\ WithAddress(v4, a)[Len(v4) + 1] = a
         /\ a \in Addrs \ Apipa =>
              /\ Len(WithAddress(v4, a)) = Len(v4) + 1
              /\ WithAddress(v4, a)[1] = a
              /\ \A n \in 1..Len(v4) : WithAddress(v4, a)[n + 1] = v4[n]
<1> USE AddrsAssumption
<1> DEFINE w == WithAddress(v4, a)
<1>0. Len(v4) \in Nat /\ DOMAIN v4 = 1..Len(v4)
  BY LenProperties
<1>1. CASE a = "link"
  BY <1>1 DEF WithAddress
<1>2. CASE a \in Apipa
  <2>1. w = Append(v4, a) /\ a # "link" /\ a \in Addrs
    BY <1>2 DEF WithAddress
  <2>2. /\ w \in Seq(Addrs) /\ Len(w) = Len(v4) + 1 /\ w[Len(v4) + 1] = a
        /\ \A n \in 1..Len(v4) : w[n] = v4[n]
    BY <2>1, AppendProperties
  <2>3. DOMAIN w = 1..Len(v4) + 1
    BY <2>2, LenProperties
  <2>4. ToSet(w) = ToSet(v4) \cup {a}
    BY <1>0, <2>2, <2>3 DEF ToSet
  <2> QED BY <1>2, <2>1, <2>2, <2>4
<1>3. CASE a \in Addrs \ Apipa
  <2>1. w = <<a>> \o v4 /\ a # "link"
    BY <1>3 DEF WithAddress
  <2>2. <<a>> \in Seq(Addrs) /\ Len(<<a>>) = 1
    BY <1>3
  <2>3. /\ w \in Seq(Addrs) /\ Len(w) = Len(v4) + 1 /\ w[1] = a
        /\ \A n \in 1..Len(v4) : w[n + 1] = v4[n]
    BY <1>0, <2>1, <2>2, ConcatProperties
  <2>4. DOMAIN w = 1..Len(v4) + 1 /\ \A n \in 2..Len(v4) + 1 : n - 1 \in 1..Len(v4) /\ w[n] = v4[n - 1]
    <3>1. \A n \in 2..Len(v4) + 1 : n - 1 \in 1..Len(v4) /\ (n - 1) + 1 = n
      BY <1>0
    <3> QED BY <2>3, <3>1, LenProperties
  <2>5. \A n \in 1..Len(v4) + 1 : n = 1 \/ n \in 2..Len(v4) + 1
    BY <1>0
  <2>6. \A n \in 1..Len(v4) : n + 1 \in 1..Len(v4) + 1
    BY <1>0
  <2>7. ToSet(w) \subseteq ToSet(v4) \cup {a}
    BY <1>0, <2>3, <2>4, <2>5 DEF ToSet
  <2>8. ToSet(v4) \cup {a} \subseteq ToSet(w)
    <3>1. a \in ToSet(w)
      BY <1>0, <2>3, <2>4 DEF ToSet
    <3>2. ASSUME NEW n \in 1..Len(v4) PROVE v4[n] \in ToSet(w)
      <4>1. n + 1 \in DOMAIN w /\ w[n + 1] = v4[n]
        BY <2>3, <2>4, <2>6
      <4> QED BY <4>1 DEF ToSet
    <3> QED BY <1>0, <3>1, <3>2 DEF ToSet
  <2> QED BY <1>3, <2>1, <2>3, <2>7, <2>8
<1> QED BY <1>1, <1>2, <1>3 DEF Kind

(* x is list with an entry of interface i added at index. *)
Extends(x, list, index, i, a) ==
  /\ x \in Lists
  /\ DOMAIN x = DOMAIN list \cup {index}
  /\ \A n \in DOMAIN list \ {index} : x[n] = list[n]
  /\ index \in DOMAIN list =>
       x[index].name = list[index].name /\ x[index].v4 = WithAddress(list[index].v4, a)
  /\ index \notin DOMAIN list => x[index].name = i /\ x[index].v4 = WithAddress(<<>>, a)

LEMMA ExtendedIs ==
  ASSUME NEW list \in Lists, NEW index \in Indices, NEW i \in Ifs, NEW a \in Kind
  PROVE  Extends(Extended(list, index, i, a), list, index, i, a)
<1>1. /\ DOMAIN list \subseteq Indices
      /\ \A n \in DOMAIN list : list[n] \in [name : Ifs, v4 : Seq(Addrs)]
  BY ListIs
<1> DEFINE x == Extended(list, index, i, a)
           new == IF index \in DOMAIN list
                    THEN [name |-> list[index].name, v4 |-> WithAddress(list[index].v4, a)]
                    ELSE [name |-> i, v4 |-> WithAddress(<<>>, a)]
<1>2. x = [n \in DOMAIN list \cup {index} |-> IF n = index THEN new ELSE list[n]]
  BY DEF Extended
<1>3. new \in [name : Ifs, v4 : Seq(Addrs)]
  <2>1. CASE index \in DOMAIN list
    <3>1. list[index].name \in Ifs /\ list[index].v4 \in Seq(Addrs)
      BY <1>1, <2>1
    <3>2. WithAddress(list[index].v4, a) \in Seq(Addrs)
      BY <3>1, WithAddressIs
    <3> QED BY <2>1, <3>1, <3>2
  <2>2. CASE index \notin DOMAIN list
    <3>0. <<>> \in Seq(Addrs)
      OBVIOUS
    <3>1. WithAddress(<<>>, a) \in Seq(Addrs)
      BY ONLY <3>0, WithAddressIs, a \in Kind
    <3> QED BY <2>2, <3>1
  <2> QED BY <2>1, <2>2
<1> HIDE DEF new
<1>4. x \in [DOMAIN list \cup {index} -> [name : Ifs, v4 : Seq(Addrs)]]
  BY <1>1, <1>2, <1>3
<1>5. x \in Lists
  BY <1>1, <1>4, IsAList
<1>6. x[index] = new
  BY <1>2
<1>7. index \in DOMAIN list => x[index].name = list[index].name /\ x[index].v4 = WithAddress(list[index].v4, a)
  BY <1>6 DEF new
<1>8. index \notin DOMAIN list => x[index].name = i /\ x[index].v4 = WithAddress(<<>>, a)
  BY <1>6 DEF new
<1>9. DOMAIN x = DOMAIN list \cup {index} /\ \A n \in DOMAIN list \ {index} : x[n] = list[n]
  BY <1>2
<1> QED BY <1>5, <1>7, <1>8, <1>9 DEF Extends

(* What getifaddrs() returns. *)
LEMMA EntriesAre ==
  ASSUME NEW entries \in Entries
  PROVE  /\ entries \in Seq(EntryType)
         /\ ToSet(entries) = Entry
         /\ \A j, k \in DOMAIN entries : j < k => Precedes(entries[j], entries[k])
<1> DEFINE n == Cardinality(Entry)
<1>1. IsFiniteSet({"link"}) /\ IsFiniteSet(Kind)
  BY AddrsAssumption, FS_Singleton, FS_Union DEF Kind
<1>2. IsFiniteSet(EntryType)
  BY <1>1, IfsAssumption, FS_Product DEF EntryType
<1>3. IsFiniteSet(Entry) /\ n \in Nat /\ Entry \subseteq EntryType
  BY <1>2, FS_Subset, FS_CardinalityType DEF Entry, EntryType, Kind
<1>4. entries \in [1..n -> Entry] /\ \A i, j \in 1..n : i # j => entries[i] # entries[j]
  BY DEF Entries, SetToSeqs
<1>5. IsFiniteSet(1..n) /\ Cardinality(1..n) = n
  BY <1>3, FS_Interval
<1>6. entries \in Surjection(1..n, Entry)
  <2>1. entries \in Injection(1..n, Entry)
    BY <1>4 DEF Injection, IsInjective
  <2> QED BY <2>1, <1>3, <1>5, FS_Injection
<1>7. ToSet(entries) = Entry
  BY <1>4, <1>6 DEF Surjection, ToSet
<1>8. entries \in Seq(EntryType)
  BY <1>3, <1>4
<1> QED BY <1>7, <1>8 DEF Entries

LEMMA ContainsIs ==
  ASSUME NEW S, NEW s \in Seq(S), NEW e
  PROVE  Contains(s, e) <=> e \in ToSet(s)
<1>1. DOMAIN s = 1..Len(s)
  BY LenProperties
<1> QED BY <1>1 DEF Contains, ToSet

LEMMA Appended ==
  ASSUME NEW S, NEW s \in Seq(S), NEW e \in S
  PROVE  /\ Append(s, e) \in Seq(S)
         /\ Len(Append(s, e)) = Len(s) + 1
         /\ \A n \in 1..Len(s) : Append(s, e)[n] = s[n]
         /\ Append(s, e)[Len(s) + 1] = e
         /\ ToSet(Append(s, e)) = ToSet(s) \cup {e}
<1>1. /\ Append(s, e) \in Seq(S)
      /\ Len(Append(s, e)) = Len(s) + 1
      /\ \A n \in 1..Len(s) : Append(s, e)[n] = s[n]
      /\ Append(s, e)[Len(s) + 1] = e
  BY AppendProperties
<1>2. Len(s) \in Nat /\ DOMAIN s = 1..Len(s) /\ DOMAIN Append(s, e) = 1..Len(s) + 1
  BY <1>1, LenProperties
<1>3. \A n \in 1..Len(s) + 1 : n \in 1..Len(s) \/ n = Len(s) + 1
  BY <1>2
<1>4. \A n \in 1..Len(s) : n \in 1..Len(s) + 1
  BY <1>2
<1>5. Len(s) + 1 \in 1..Len(s) + 1
  BY <1>2
<1>6. ToSet(Append(s, e)) = ToSet(s) \cup {e}
  BY <1>1, <1>2, <1>3, <1>4, <1>5 DEF ToSet
<1> QED BY <1>1, <1>6

LEMMA AppendedDistinct ==
  ASSUME NEW S, NEW s \in Seq(S), NEW e \in S, Distinct(s), e \notin ToSet(s)
  PROVE  Distinct(Append(s, e))
<1>1. /\ Append(s, e) \in Seq(S)
      /\ Len(Append(s, e)) = Len(s) + 1
      /\ \A n \in 1..Len(s) : Append(s, e)[n] = s[n]
      /\ Append(s, e)[Len(s) + 1] = e
  BY Appended
<1>2. Len(s) \in Nat /\ DOMAIN s = 1..Len(s) /\ DOMAIN Append(s, e) = 1..Len(s) + 1
  BY <1>1, LenProperties
<1>3. \A n \in 1..Len(s) + 1 : n \in 1..Len(s) \/ n = Len(s) + 1
  BY <1>2
<1>4. \A n \in 1..Len(s) : s[n] # e
  BY <1>2 DEF ToSet
<1>5. \A m, n \in 1..Len(s) : m # n => s[m] # s[n]
  BY <1>2 DEF Distinct
<1> QED BY <1>1, <1>2, <1>3, <1>4, <1>5 DEF Distinct

LEMMA Removed ==
  ASSUME NEW S, NEW s \in Seq(S), NEW n \in DOMAIN s, Distinct(s)
  PROVE  /\ RemoveAt(s, n) \in Seq(S)
         /\ ToSet(RemoveAt(s, n)) = ToSet(s) \ {s[n]}
         /\ Distinct(RemoveAt(s, n))
<1> DEFINE p == SubSeq(s, 1, n - 1)
           q == SubSeq(s, n + 1, Len(s))
           r == RemoveAt(s, n)
<1>1. Len(s) \in Nat /\ n \in 1..Len(s) /\ DOMAIN s = 1..Len(s) /\ n - 1 \in Int /\ n + 1 \in Int /\ n \in Int
  BY LenProperties
<1>2. \A k \in 1..Len(s) : s[k] \in S
  BY ElementOfSeq
<1>3. p \in Seq(S) /\ Len(p) = n - 1 /\ \A k \in 1..n - 1 : p[k] = s[k]
  <2>1. \A k \in 1..n - 1 : s[k] \in S /\ 1 + k - 1 = k /\ k \in 1..(n - 1) - 1 + 1
    BY <1>1, <1>2
  <2>2. /\ p \in Seq(S) /\ Len(p) = IF 1 <= n - 1 THEN n - 1 - 1 + 1 ELSE 0
        /\ \A k \in 1..(n - 1) - 1 + 1 : p[k] = s[1 + k - 1]
    BY <1>1, <2>1, SubSeqProperties
  <2> HIDE DEF p
  <2>3. Len(p) = n - 1
    BY <1>1, <2>2
  <2>4. \A k \in 1..n - 1 : p[k] = s[k]
    BY ONLY <2>1, <2>2
  <2> QED BY <2>2, <2>3, <2>4
<1>4. q \in Seq(S) /\ Len(q) = Len(s) - n /\ \A k \in 1..Len(s) - n : q[k] = s[n + k]
  <2>1. \A k \in n + 1..Len(s) : s[k] \in S
    BY <1>1, <1>2
  <2>2. \A k \in 1..Len(s) - n : k \in 1..Len(s) - (n + 1) + 1 /\ n + k = (n + 1) + k - 1
    BY <1>1
  <2>3. /\ q \in Seq(S) /\ Len(q) = IF n + 1 <= Len(s) THEN Len(s) - (n + 1) + 1 ELSE 0
        /\ \A k \in 1..Len(s) - (n + 1) + 1 : q[k] = s[(n + 1) + k - 1]
    BY <1>1, <2>1, SubSeqProperties
  <2> HIDE DEF q
  <2> QED BY <1>1, <2>2, <2>3
<1> HIDE DEF p, q
<1>5. /\ r \in Seq(S) /\ Len(r) = Len(s) - 1
      /\ \A k \in 1..Len(s) - 1 : r[k] = IF k <= n - 1 THEN p[k] ELSE q[k - (n - 1)]
  <2>1. r = p \o q
    BY DEF RemoveAt, p, q
  <2>2. /\ p \o q \in Seq(S) /\ Len(p \o q) = Len(p) + Len(q)
        /\ \A k \in 1..Len(p) + Len(q) : (p \o q)[k] = IF k <= Len(p) THEN p[k] ELSE q[k - Len(p)]
    BY <1>3, <1>4, ConcatProperties
  <2>3. Len(p) + Len(q) = Len(s) - 1
    BY <1>1, <1>3, <1>4
  <2> HIDE DEF r
  <2> QED BY <1>3, <2>1, <2>2, <2>3
<1> HIDE DEF r
<1>6. \A k \in 1..Len(s) - 1 : IF k < n THEN r[k] = s[k] ELSE r[k] = s[k + 1]
  <2> SUFFICES ASSUME NEW k \in 1..Len(s) - 1
               PROVE  IF k < n THEN r[k] = s[k] ELSE r[k] = s[k + 1]
    OBVIOUS
  <2>1. CASE k < n
    <3>1. k \in 1..n - 1 /\ k <= n - 1
      BY <1>1, <2>1
    <3> QED BY <1>3, <1>5, <2>1, <3>1
  <2>2. CASE ~(k < n)
    <3>1. ~(k <= n - 1) /\ k - (n - 1) \in 1..Len(s) - n /\ n + (k - (n - 1)) = k + 1
      BY <1>1, <2>2
    <3> QED BY <1>4, <1>5, <2>2, <3>1
  <2> QED BY <2>1, <2>2
<1>7. DOMAIN r = 1..Len(s) - 1
  BY <1>5, LenProperties
<1>8. Distinct(r)
  <2> SUFFICES ASSUME NEW j \in 1..Len(s) - 1, NEW k \in 1..Len(s) - 1, j # k
               PROVE  r[j] # r[k]
    BY <1>7 DEF Distinct
  <2>1. \A x \in 1..Len(s), y \in 1..Len(s) : x # y => s[x] # s[y]
    BY <1>1 DEF Distinct
  <2>2. PICK x \in 1..Len(s) : r[j] = s[x] /\ x = IF j < n THEN j ELSE j + 1
    BY <1>1, <1>6
  <2>3. PICK y \in 1..Len(s) : r[k] = s[y] /\ y = IF k < n THEN k ELSE k + 1
    BY <1>1, <1>6
  <2>4. x # y
    BY <1>1, <2>2, <2>3
  <2> QED BY <2>1, <2>2, <2>3, <2>4
<1>9. ToSet(r) \subseteq ToSet(s) \ {s[n]}
  <2> SUFFICES ASSUME NEW k \in 1..Len(s) - 1 PROVE r[k] \in ToSet(s) /\ r[k] # s[n]
    BY <1>7 DEF ToSet
  <2>1. PICK x \in 1..Len(s) : r[k] = s[x] /\ x = IF k < n THEN k ELSE k + 1
    BY <1>1, <1>6
  <2>2. x # n
    BY <1>1, <2>1
  <2>3. s[x] # s[n]
    BY <1>1, <2>2 DEF Distinct
  <2> QED BY <1>1, <2>1, <2>3 DEF ToSet
<1>10. ToSet(s) \ {s[n]} \subseteq ToSet(r)
  <2> SUFFICES ASSUME NEW x \in 1..Len(s), x # n PROVE s[x] \in ToSet(r)
    BY <1>1 DEF ToSet
  <2>1. PICK k \in 1..Len(s) - 1 : x = IF k < n THEN k ELSE k + 1
    <3>1. CASE x < n
      BY <1>1, <3>1
    <3>2. CASE x > n
      <4>1. x - 1 \in 1..Len(s) - 1 /\ ~(x - 1 < n) /\ x = (x - 1) + 1
        BY <1>1, <3>2
      <4> QED BY <4>1
    <3> QED BY <1>1, <3>1, <3>2
  <2>2. r[k] = s[x]
    BY <1>6, <2>1
  <2> QED BY <1>7, <2>2 DEF ToSet
<1> QED BY <1>5, <1>8, <1>9, <1>10 DEF r

-----------------------------------------------------------------------------
(* The kernel *)

LEMMA PairIs ==
  ASSUME NEW i \in Ifs, NEW a \in Addrs
  PROVE  /\ <<i, a>> \in Pairs <=> InKernel(kernel, i, a)
         /\ <<i, a>> \in Pairs' <=> InKernel(kernel', i, a)
BY DEF Pairs, InKernel, Exists

(* A change of one interface changes the pairs of this interface only. *)
LEMMA OtherPairsStay ==
  ASSUME NEW i \in Ifs, NEW v, kernel \in [Ifs -> {Gone} \cup Seq(Addrs)],
         kernel' = [kernel EXCEPT ![i] = v]
  PROVE  /\ \A j \in Ifs : kernel'[j] = IF j = i THEN v ELSE kernel[j]
         /\ \A j \in Ifs, a \in Addrs : j # i => (<<j, a>> \in Pairs' <=> <<j, a>> \in Pairs)
<1>1. \A j \in Ifs : kernel'[j] = IF j = i THEN v ELSE kernel[j]
  OBVIOUS
<1>2. ASSUME NEW j \in Ifs, NEW a \in Addrs, j # i PROVE <<j, a>> \in Pairs' <=> <<j, a>> \in Pairs
  BY <1>1, <1>2, PairIs DEF InKernel
<1> QED BY <1>1, <1>2

(* Each change of the kernel is reported by a message that tells it. *)
LEMMA KernelReports ==
  ASSUME Types, KernelStep
  PROVE  \E m \in Messages : m.at = version + 1 /\ Report(m) /\ Tells(m) /\ KernelTypes'
<1> USE IfsAssumption, AddrsAssumption, GoneAssumption
<1>0. /\ kernel \in [Ifs -> {Gone} \cup Seq(Addrs)] /\ up \subseteq Hardware
      /\ version \in Nat /\ version + 1 \in Nat /\ KernelInv /\ Hardware \subseteq Ifs
      /\ <<>> \in Seq(Addrs) /\ Gone # <<>>
  <2>1. <<>> \in Seq(Addrs)
    OBVIOUS
  <2>2. Gone # <<>>
    BY ONLY <2>1, GoneAssumption
  <2> QED BY <2>1, <2>2 DEF Types, ListTypes, SocketTypes
<1>1. ASSUME NEW i \in Hardware, CreateLink(i)
      PROVE  \E m \in Messages : m.at = version + 1 /\ Report(m) /\ Tells(m) /\ KernelTypes'
  <2> DEFINE m == [type |-> "RTM_NEWLINK", up |-> FALSE, index |-> i, at |-> version + 1]
  <2>1. /\ Report(m) /\ up' = up /\ kernel' = [kernel EXCEPT ![i] = <<>>] /\ ~Exists(i)
        /\ m \in Messages /\ m.at = version + 1
    BY <1>0, <1>1 DEF CreateLink, Messages, LinkMessages
  <2>2. /\ \A j \in Ifs : kernel'[j] = IF j = i THEN <<>> ELSE kernel[j]
        /\ \A j \in Ifs, a \in Addrs : j # i => (<<j, a>> \in Pairs' <=> <<j, a>> \in Pairs)
    BY <1>0, <2>1, OtherPairsStay
  <2>3. \A a \in Addrs : <<i, a>> \notin Pairs' /\ <<i, a>> \notin Pairs
    BY <1>0, <2>1, <2>2, PairIs DEF InKernel, Exists, Contains
  <2>4. i \notin up
    BY <1>0, <2>1 DEF KernelInv
  <2>5. Tells(m)
    BY <1>0, <2>1, <2>2, <2>3, <2>4 DEF Tells, OfLink, OfPair
  <2>6. KernelTypes'
    <3>1. kernel' \in [Ifs -> {Gone} \cup Seq(Addrs)]
      BY <1>0, <2>1
    <3>2. Distinct(<<>>)
      BY DEF Distinct
    <3>3. KernelInv'
      BY <1>0, <2>1, <2>2, <2>4, <3>2 DEF KernelInv, Exists
    <3> QED BY <1>0, <2>1, <3>1, <3>3 DEF KernelTypes
  <2> QED BY <2>1, <2>5, <2>6
<1>2. ASSUME NEW i \in Hardware, RemoveLink(i)
      PROVE  \E m \in Messages : m.at = version + 1 /\ Report(m) /\ Tells(m) /\ KernelTypes'
  <2> DEFINE m == [type |-> "RTM_DELLINK", up |-> FALSE, index |-> i, at |-> version + 1]
  <2>1. /\ Report(m) /\ up' = up /\ kernel' = [kernel EXCEPT ![i] = Gone] /\ kernel[i] = <<>> /\ i \notin up
        /\ m \in Messages /\ m.at = version + 1
    BY <1>0, <1>2 DEF RemoveLink, Messages, LinkMessages
  <2>2. /\ \A j \in Ifs : kernel'[j] = IF j = i THEN Gone ELSE kernel[j]
        /\ \A j \in Ifs, a \in Addrs : j # i => (<<j, a>> \in Pairs' <=> <<j, a>> \in Pairs)
    BY <1>0, <2>1, OtherPairsStay
  <2>3. \A a \in Addrs : <<i, a>> \notin Pairs' /\ <<i, a>> \notin Pairs
    BY <1>0, <2>1, <2>2, PairIs DEF InKernel, Contains
  <2>5. Tells(m)
    BY <1>0, <2>1, <2>2, <2>3 DEF Tells, OfLink, OfPair
  <2>6. KernelTypes'
    <3>1. kernel' \in [Ifs -> {Gone} \cup Seq(Addrs)]
      BY <1>0, <2>1
    <3>3. KernelInv'
      BY <1>0, <2>1, <2>2 DEF KernelInv, Exists
    <3> QED BY <1>0, <2>1, <3>1, <3>3 DEF KernelTypes
  <2> QED BY <2>1, <2>5, <2>6
<1>3. ASSUME NEW i \in Hardware, SwitchLink(i)
      PROVE  \E m \in Messages : m.at = version + 1 /\ Report(m) /\ Tells(m) /\ KernelTypes'
  <2> DEFINE m == [type |-> "RTM_NEWLINK", up |-> i \in up', index |-> i, at |-> version + 1]
  <2>1. /\ Report(m) /\ up' = (IF i \in up THEN up \ {i} ELSE up \cup {i}) /\ kernel' = kernel /\ Exists(i)
        /\ m \in Messages /\ m.at = version + 1
    BY <1>0, <1>3 DEF SwitchLink, Messages, LinkMessages
  <2>2. Pairs' = Pairs
    BY <2>1 DEF Pairs, Exists
  <2>5. Tells(m)
    BY <1>0, <2>1, <2>2 DEF Tells, OfLink, OfPair
  <2>6. KernelTypes'
    BY <1>0, <2>1 DEF KernelTypes, KernelInv, Exists
  <2> QED BY <2>1, <2>5, <2>6
<1>4. ASSUME NEW i \in Hardware, NEW a \in Addrs, AddAddress(i, a)
      PROVE  \E m \in Messages : m.at = version + 1 /\ Report(m) /\ Tells(m) /\ KernelTypes'
  <2> DEFINE m == [type |-> "RTM_NEWADDR", index |-> i, address |-> a, at |-> version + 1]
             new == Append(kernel[i], a)
  <2>1. /\ Report(m) /\ up' = up /\ kernel' = [kernel EXCEPT ![i] = new]
        /\ Exists(i) /\ ~Contains(kernel[i], a)
        /\ m \in Messages /\ m.at = version + 1 /\ kernel[i] \in Seq(Addrs)
    BY <1>0, <1>4 DEF AddAddress, Messages, AddressMessages, Exists
  <2>2. new \in Seq(Addrs) /\ ToSet(new) = ToSet(kernel[i]) \cup {a} /\ Distinct(new)
    <3>1. Distinct(kernel[i]) /\ a \notin ToSet(kernel[i])
      BY <1>0, <2>1, ContainsIs DEF KernelInv
    <3> QED BY <2>1, <3>1, Appended, AppendedDistinct
  <2>3. new # Gone
    BY <2>2
  <2> HIDE DEF new
  <2>4. /\ \A j \in Ifs : kernel'[j] = IF j = i THEN new ELSE kernel[j]
        /\ \A j \in Ifs, b \in Addrs : j # i => (<<j, b>> \in Pairs' <=> <<j, b>> \in Pairs)
    BY <1>0, <2>1, OtherPairsStay
  <2>5. \A b \in Addrs : <<i, b>> \in Pairs' <=> b = a \/ <<i, b>> \in Pairs
    <3>1. kernel'[i] = new /\ kernel[i] # Gone
      BY <1>0, <2>1, <2>4 DEF Exists
    <3>2. ASSUME NEW b \in Addrs PROVE <<i, b>> \in Pairs' <=> b = a \/ <<i, b>> \in Pairs
      <4>1. Contains(new, b) <=> b = a \/ Contains(kernel[i], b)
        BY <2>1, <2>2, ContainsIs
      <4> QED BY <1>0, <2>3, <3>1, <4>1, PairIs DEF InKernel
    <3> QED BY <3>2
  <2>6. Tells(m)
    <3>1. \A j \in Hardware : ~OfLink(m, j)
      BY DEF OfLink
    <3>2. \A j \in Hardware, b \in Addrs : OfPair(m, j, b) <=> j = i /\ b = a
      BY DEF OfPair
    <3> QED BY <1>0, <2>1, <2>4, <2>5, <3>1, <3>2 DEF Tells
  <2>7. KernelTypes'
    <3>1. kernel' \in [Ifs -> {Gone} \cup Seq(Addrs)]
      BY <1>0, <2>1, <2>2
    <3>3. KernelInv'
      BY <1>0, <2>1, <2>2, <2>3, <2>4 DEF KernelInv, Exists
    <3> QED BY <1>0, <2>1, <3>1, <3>3 DEF KernelTypes
  <2> QED BY <2>1, <2>6, <2>7
<1>5. ASSUME NEW i \in Hardware, NEW a \in Addrs, RemoveAddress(i, a)
      PROVE  \E m \in Messages : m.at = version + 1 /\ Report(m) /\ Tells(m) /\ KernelTypes'
  <2> DEFINE m == [type |-> "RTM_DELADDR", index |-> i, address |-> a, at |-> version + 1]
  <2>0. PICK n \in DOMAIN kernel[i] :
             kernel[i][n] = a /\ kernel' = [kernel EXCEPT ![i] = RemoveAt(kernel[i], n)]
    BY <1>0, <1>5 DEF RemoveAddress
  <2> DEFINE new == RemoveAt(kernel[i], n)
  <2>1. /\ Report(m) /\ up' = up /\ kernel' = [kernel EXCEPT ![i] = new]
        /\ Exists(i)
        /\ m \in Messages /\ m.at = version + 1 /\ kernel[i] \in Seq(Addrs)
    BY <1>0, <1>5, <2>0 DEF RemoveAddress, Messages, AddressMessages, Exists
  <2>2. new \in Seq(Addrs) /\ ToSet(new) = ToSet(kernel[i]) \ {a} /\ Distinct(new)
    <3>1. Distinct(kernel[i])
      BY <1>0, <2>1 DEF KernelInv
    <3> QED BY <2>0, <2>1, <3>1, Removed
  <2>3. new # Gone
    BY <2>2
  <2> HIDE DEF new
  <2>4. /\ \A j \in Ifs : kernel'[j] = IF j = i THEN new ELSE kernel[j]
        /\ \A j \in Ifs, b \in Addrs : j # i => (<<j, b>> \in Pairs' <=> <<j, b>> \in Pairs)
    BY <1>0, <2>1, OtherPairsStay
  <2>5. \A b \in Addrs : <<i, b>> \in Pairs' <=> b # a /\ <<i, b>> \in Pairs
    <3>1. kernel'[i] = new /\ kernel[i] # Gone
      BY <1>0, <2>1, <2>4 DEF Exists
    <3>2. ASSUME NEW b \in Addrs PROVE <<i, b>> \in Pairs' <=> b # a /\ <<i, b>> \in Pairs
      <4>1. Contains(new, b) <=> b # a /\ Contains(kernel[i], b)
        BY <2>1, <2>2, ContainsIs
      <4> QED BY <1>0, <2>3, <3>1, <4>1, PairIs DEF InKernel
    <3> QED BY <3>2
  <2>6. Tells(m)
    <3>1. \A j \in Hardware : ~OfLink(m, j)
      BY DEF OfLink
    <3>2. \A j \in Hardware, b \in Addrs : OfPair(m, j, b) <=> j = i /\ b = a
      BY DEF OfPair
    <3> QED BY <1>0, <2>1, <2>4, <2>5, <3>1, <3>2 DEF Tells
  <2>7. KernelTypes'
    <3>1. kernel' \in [Ifs -> {Gone} \cup Seq(Addrs)]
      BY <1>0, <2>1, <2>2
    <3>3. KernelInv'
      BY <1>0, <2>1, <2>2, <2>3, <2>4 DEF KernelInv, Exists
    <3> QED BY <1>0, <2>1, <3>1, <3>3 DEF KernelTypes
  <2> QED BY <2>1, <2>6, <2>7
<1>6. ASSUME OtherChange
      PROVE  \E m \in Messages : m.at = version + 1 /\ Report(m) /\ Tells(m) /\ KernelTypes'
  <2> DEFINE m == [type |-> "other", at |-> version + 1]
  <2>1. Report(m) /\ up' = up /\ kernel' = kernel /\ m \in Messages /\ m.at = version + 1
    BY <1>0, <1>6 DEF OtherChange, Messages
  <2>2. Pairs' = Pairs
    BY <2>1 DEF Pairs, Exists
  <2>3. Tells(m)
    BY <2>1, <2>2 DEF Tells, OfLink, OfPair
  <2>4. KernelTypes'
    BY <1>0, <2>1 DEF KernelTypes, KernelInv, Exists
  <2> QED BY <2>1, <2>3, <2>4
<1> QED BY <1>1, <1>2, <1>3, <1>4, <1>5, <1>6 DEF KernelStep

-----------------------------------------------------------------------------
(* The steps of update() *)

LEMMA RunningIs ==
  ASSUME Types, NEW t \in Threads, Running(t)
  PROVE  /\ job[t] \in Working
         /\ job[t].rest \in Seq(EntryType) /\ job[t].map \in Lists
         /\ job[t].base \in Nat /\ job[t].clean \in BOOLEAN
<1>1. job[t] \in {Idle, Called} \cup Working
  BY DEF Types, ListTypes
<1>2. job[t] \in Working
  BY <1>1 DEF Running, Idle, Called
<1> QED BY <1>2 DEF Working

LEMMA JobBecomes ==
  ASSUME Types, NEW t \in Threads, NEW v \in {Idle, Called} \cup Working, job' = [job EXCEPT ![t] = v]
  PROVE  /\ job' \in [Threads -> {Idle, Called} \cup Working]
         /\ \A s \in Threads : job'[s] = IF s = t THEN v ELSE job[s]
BY DEF Types, ListTypes

(* getifaddrs() gives the job something to do. *)
LEMMA GetIfAddrsIs ==
  ASSUME Types, NEW t \in Threads, GetIfAddrs(t)
  PROVE  \E j \in Working :
           /\ job' = [job EXCEPT ![t] = j]
           /\ j.at = "entry" /\ j.rest \in Entries /\ j.map = <<>> /\ j.base = version /\ j.clean = TRUE
<1>1. PICK entries \in Entries :
        job' = [job EXCEPT ![t] =
          [at |-> "entry", rest |-> entries, map |-> <<>>, base |-> version, clean |-> TRUE]]
  BY DEF GetIfAddrs
<1> DEFINE j == [at |-> "entry", rest |-> entries, map |-> <<>>, base |-> version, clean |-> TRUE]
<1>2. entries \in Seq(EntryType) /\ <<>> \in Lists /\ version \in Nat
  BY EntriesAre, EmptyList DEF Types, ListTypes
<1>3. j \in Working
  BY <1>2 DEF Working
<1> QED BY <1>1, <1>3

(* getHardwareInfo() finds the interface, or the entry is skipped. *)
LEMMA GetHardwareInfoIs ==
  ASSUME Types, NEW t \in Threads, GetHardwareInfo(t)
  PROVE  /\ Running(t) /\ job[t].rest # <<>>
         /\ \E j \in Working :
              /\ job' = [job EXCEPT ![t] = j]
              /\ j.map = job[t].map /\ j.base = job[t].base
              /\ \/ /\ j.at = "index" /\ j.rest = job[t].rest /\ j.clean = job[t].clean
                    /\ Head(job[t].rest)[1] \in Hardware
                 \/ /\ j.at = "entry" /\ j.rest = Tail(job[t].rest)
                    /\ j.clean =>
                         /\ job[t].clean
                         /\ ~(Exists(Head(job[t].rest)[1]) /\ Head(job[t].rest)[1] \in Hardware)
<1>1. Running(t) /\ job[t].rest # <<>>
  BY DEF GetHardwareInfo, At, Running
<1>2. job[t] \in Working /\ job[t].rest \in Seq(EntryType)
  BY <1>1, RunningIs
<1>3. Tail(job[t].rest) \in Seq(EntryType)
  BY <1>1, <1>2, Takes
<1> DEFINE i == Head(job[t].rest)[1]
           isHardware == Exists(i) /\ i \in Hardware
           skipped == [job[t] EXCEPT !.rest = Tail(@)]
           found == [job[t] EXCEPT !.at = "index"]
           failed == [skipped EXCEPT !.clean = FALSE]
<1>4. /\ skipped \in Working /\ skipped.map = job[t].map /\ skipped.base = job[t].base /\ skipped.at = job[t].at
      /\ skipped.rest = Tail(job[t].rest) /\ skipped.clean = job[t].clean
  BY <1>2, <1>3 DEF Working
<1>5. /\ found \in Working /\ found.map = job[t].map /\ found.base = job[t].base /\ found.at = "index"
      /\ found.rest = job[t].rest /\ found.clean = job[t].clean
  BY <1>2 DEF Working
<1>6. /\ failed \in Working /\ failed.map = job[t].map /\ failed.base = job[t].base /\ failed.at = job[t].at
      /\ failed.rest = Tail(job[t].rest) /\ failed.clean = FALSE
  BY <1>4 DEF Working
<1>7. job[t].at = "entry" /\ job \in [Threads -> {Idle, Called} \cup Working]
  BY DEF GetHardwareInfo, At, Types, ListTypes
<1>8. \/ isHardware /\ job' = [job EXCEPT ![t] = found]
      \/ ~isHardware /\ job' = [job EXCEPT ![t] = skipped]
      \/ isHardware /\ job' = [job EXCEPT ![t] = failed]
  BY <1>7 DEF GetHardwareInfo
<1> HIDE DEF skipped, found, failed, isHardware
<1>9. CASE isHardware /\ job' = [job EXCEPT ![t] = found]
  BY <1>1, <1>5, <1>9 DEF isHardware
<1>10. CASE ~isHardware /\ job' = [job EXCEPT ![t] = skipped]
  BY <1>1, <1>4, <1>7, <1>10 DEF isHardware
<1>11. CASE isHardware /\ job' = [job EXCEPT ![t] = failed]
  BY <1>1, <1>6, <1>7, <1>11 DEF isHardware
<1> QED BY <1>8, <1>9, <1>10, <1>11

(* The entry is added under the index the kernel has for the name. *)
LEMMA AddEntryIs ==
  ASSUME Types, NEW t \in Threads, AddEntry(t)
  PROVE  /\ Running(t) /\ job[t].rest # <<>> /\ Head(job[t].rest)[1] \in Hardware
         /\ Head(job[t].rest) \in EntryType
         /\ \E j \in Working, index \in Indices :
              /\ index = IF Exists(Head(job[t].rest)[1]) THEN Head(job[t].rest)[1] ELSE 0
              /\ job' = [job EXCEPT ![t] = j]
              /\ j.at = "entry" /\ j.rest = Tail(job[t].rest)
              /\ j.map = Extended(job[t].map, index, Head(job[t].rest)[1], Head(job[t].rest)[2])
              /\ j.base = job[t].base /\ j.clean = job[t].clean
<1>1. Running(t) /\ job[t].rest # <<>> /\ Head(job[t].rest)[1] \in Hardware
  BY DEF AddEntry, At, Running, Types, ListTypes
<1>2. job[t] \in Working /\ job[t].rest \in Seq(EntryType) /\ job[t].map \in Lists
  BY <1>1, RunningIs
<1>3. Tail(job[t].rest) \in Seq(EntryType) /\ Head(job[t].rest) \in EntryType
  BY <1>1, <1>2, Takes
<1> DEFINE i == Head(job[t].rest)[1]
           index == IF Exists(i) THEN i ELSE 0
           map == Extended(job[t].map, index, i, Head(job[t].rest)[2])
           j == [job[t] EXCEPT !.at = "entry", !.rest = Tail(@), !.map = map]
<1>4. index \in Indices /\ i \in Ifs /\ Head(job[t].rest)[2] \in Kind
  BY <1>1, <1>3, IfsAssumption DEF Indices, EntryType
<1>5. map \in Lists
  BY <1>2, <1>4, ExtendedIs DEF Extends
<1>6. job \in [Threads -> {Idle, Called} \cup Working]
  BY DEF Types, ListTypes
<1>7. job' = [job EXCEPT ![t] = j]
  BY <1>6 DEF AddEntry
<1> HIDE DEF map
<1>8. /\ j \in Working /\ j.at = "entry" /\ j.rest = Tail(job[t].rest) /\ j.map = map
      /\ j.base = job[t].base /\ j.clean = job[t].clean
  BY <1>2, <1>3, <1>5 DEF Working
<1> QED BY <1>1, <1>3, <1>4, <1>7, <1>8 DEF map

-----------------------------------------------------------------------------
(* Types *)

(* A message is no value for none. *)
LEMMA MessageIs ==
  /\ NoMessage \notin Messages
  /\ \A m \in Messages : m.at \in Nat
BY DEF NoMessage, Messages, LinkMessages, AddressMessages

LEMMA TypesInit == Init => Types
<1> SUFFICES ASSUME Init PROVE Types
  OBVIOUS
<1> USE IfsAssumption
<1>0. Hardware \subseteq Ifs /\ <<>> \in Seq(Addrs) /\ <<>> \in Seq(Messages)
  OBVIOUS
<1>1. /\ kernel \in [Ifs -> {Gone, <<>>}] /\ \A i \in Ifs \ Hardware : kernel[i] = <<>>
      /\ adapters = [i \in {i \in Hardware : Exists(i)} |-> [name |-> i, v4 |-> <<>>]]
      /\ version = 0 /\ shown = 0 /\ excused = FALSE /\ job = [t \in Threads |-> Idle]
  BY DEF Init, ListInit
<1>2. adapters \in Lists
  <2>1. adapters \in [{i \in Hardware : Exists(i)} -> [name : Ifs, v4 : Seq(Addrs)]]
    BY <1>0, <1>1
  <2>2. {i \in Hardware : Exists(i)} \in SUBSET Indices
    BY DEF Indices
  <2> QED BY ONLY <2>1, <2>2, IsAList
<1>3. ListTypes
  <2>1. kernel \in [Ifs -> {Gone} \cup Seq(Addrs)]
    BY <1>0, <1>1
  <2>2. job \in [Threads -> {Idle, Called} \cup Working]
    BY <1>1
  <2>3. \A t \in Threads : ~Running(t) /\ ~At(t, "index")
    BY <1>1 DEF Running, At, Idle
  <2>4. version \in Nat /\ shown \in Nat /\ shown <= version
    <3>1. version = 0 /\ shown = 0
      BY <1>1
    <3> QED BY ONLY <3>1
  <2>5. excused \in BOOLEAN
    BY <1>1
  <2> QED BY <1>2, <2>1, <2>2, <2>3, <2>4, <2>5 DEF ListTypes
<1>4. SocketTypes
  <2>1. stage = [t \in Threads |-> "idle"] /\ message = [t \in Threads |-> NoMessage]
    BY DEF Init
  <2>2. \A t \in Threads : message[t] \notin Messages /\ stage[t] = "idle"
    BY <2>1, MessageIs
  <2> QED BY <1>0, <2>1, <2>2 DEF Init, SocketTypes, Handling, Stages
<1>5. \A t \in Threads : message[t] = NoMessage
  BY DEF Init
<1>6. Dated
  <2>1. queue = <<>> /\ 1..Len(queue) = {}
    BY DEF Init
  <2> QED BY <1>5, <2>1, MessageIs DEF Dated
<1>7. KernelInv
  <2>1. Distinct(<<>>)
    BY DEF Distinct
  <2> QED BY <1>1, <2>1 DEF Init, KernelInv, Exists
<1> QED BY <1>3, <1>4, <1>6, <1>7 DEF Types

LEMMA StageBecomes ==
  ASSUME Types, NEW t \in Threads, NEW v \in Stages, stage' = [stage EXCEPT ![t] = v]
  PROVE  /\ stage' \in [Threads -> Stages]
         /\ \A u \in Threads : stage'[u] = IF u = t THEN v ELSE stage[u]
BY DEF Types, SocketTypes

LEMMA MessageBecomes ==
  ASSUME Types, NEW t \in Threads, NEW v \in Messages \cup {NoMessage}, message' = [message EXCEPT ![t] = v]
  PROVE  /\ message' \in [Threads -> Messages \cup {NoMessage}]
         /\ \A u \in Threads : message'[u] = IF u = t THEN v ELSE message[u]
BY DEF Types, SocketTypes

(* The messages are in the order of the changes. *)
LEMMA OldMessages ==
  ASSUME Types
  PROVE  /\ queue \in Seq(Messages) /\ Len(queue) \in Nat /\ version \in Nat
         /\ \A n \in 1..Len(queue) : queue[n] \in Messages /\ queue[n].at \in Nat /\ queue[n].at <= version
         /\ \A t \in Threads : message[t] \in Messages => message[t].at \in Nat /\ message[t].at <= version
<1>1. queue \in Seq(Messages) /\ Len(queue) \in Nat /\ version \in Nat
  BY LenProperties DEF Types, SocketTypes, ListTypes
<1>2. \A n \in 1..Len(queue) : queue[n] \in Messages
  BY <1>1, ElementOfSeq
<1> QED BY <1>1, <1>2, MessageIs DEF Types, Dated

(* A message reaches the queue of a bound socket, or is lost. *)
LEMMA ReportIs ==
  ASSUME Types, NEW m \in Messages, Report(m), m.at = version + 1
  PROVE  /\ version' = version + 1 /\ socket # "stopped"
         /\ \/ /\ socket \in {"bound", "started"} /\ Len(queue) < MaxQueue
               /\ queue' = Append(queue, m) /\ overrun' = overrun /\ excused' = excused /\ missed' = missed
               /\ queue' \in Seq(Messages) /\ Len(queue') = Len(queue) + 1
               /\ \A n \in 1..Len(queue) : queue'[n] = queue[n]
               /\ queue'[Len(queue) + 1] = m
            \/ /\ socket \in {"bound", "started"} /\ ~(Len(queue) < MaxQueue)
               /\ queue' = queue /\ overrun' = TRUE /\ excused' = TRUE /\ missed' = TRUE
            \/ /\ socket = "none"
               /\ queue' = queue /\ overrun' = overrun /\ excused' = TRUE /\ missed' = missed
         /\ ready' = (ready \/ socket = "started")
         /\ UNCHANGED <<adapters, job, shown, socket, stage, message, links, known>>
         /\ Dated'
         /\ Len(queue) \in Nat
<1>1. queue \in Seq(Messages) /\ Len(queue) \in Nat /\ version \in Nat /\ socket \in {"none", "bound", "started", "stopped"}
  BY OldMessages DEF Types, SocketTypes
<1>2. \A n \in 1..Len(queue) : queue[n].at <= version /\ queue[n].at \in Nat
  BY OldMessages
<1>3. /\ Append(queue, m) \in Seq(Messages) /\ Len(Append(queue, m)) = Len(queue) + 1
      /\ \A n \in 1..Len(queue) : Append(queue, m)[n] = queue[n]
      /\ Append(queue, m)[Len(queue) + 1] = m
  BY <1>1, Appended
<1>4. \/ queue' = Append(queue, m)
      \/ queue' = queue
  BY DEF Report
<1>5. version' = version + 1 /\ message' = message
  BY DEF Report
<1>6. Dated'
  <2>1. \A t \in Threads : message[t] \in Messages =>
          /\ message[t].at \in Nat /\ message[t].at <= version
          /\ \A n \in 1..Len(queue) : message[t].at <= queue[n].at
    BY OldMessages DEF Types, Dated
  <2>2. \A n, k \in 1..Len(queue) : n < k => queue[n].at <= queue[k].at
    BY DEF Types, Dated
  <2>3. CASE queue' = queue
    <3>1. \A n \in 1..Len(queue) : queue[n].at <= version + 1
      BY <1>1, <1>2
    <3>2. \A t \in Threads : message[t] \in Messages => message[t].at <= version + 1
      BY <1>1, <2>1
    <3> QED BY <1>5, <2>1, <2>2, <2>3, <3>1, <3>2 DEF Dated
  <2>4. CASE queue' = Append(queue, m)
    <3>1. \A n \in 1..Len(queue') : n \in 1..Len(queue) \/ n = Len(queue) + 1
      BY <1>1, <1>3, <2>4
    <3>2. \A n \in 1..Len(queue) : queue'[n] = queue[n] /\ queue[n].at <= version + 1
      BY <1>1, <1>2, <1>3, <2>4
    <3>3. queue'[Len(queue) + 1] = m /\ m.at = version + 1 /\ version + 1 <= version + 1
      BY <1>1, <1>3, <2>4
    <3>4. \A n \in 1..Len(queue') : queue'[n].at <= version'
      BY <1>5, <3>1, <3>2, <3>3
    <3>5. ASSUME NEW n \in 1..Len(queue'), NEW k \in 1..Len(queue'), n < k PROVE queue'[n].at <= queue'[k].at
      <4>1. n \in 1..Len(queue)
        BY <1>1, <3>1, <3>5
      <4>2. CASE k \in 1..Len(queue)
        BY <2>2, <3>2, <3>5, <4>1, <4>2
      <4>3. CASE k = Len(queue) + 1
        BY <3>2, <3>3, <4>1, <4>3
      <4> QED BY <3>1, <4>2, <4>3
    <3>6. \A t \in Threads : message[t] \in Messages => message[t].at <= version + 1
      BY <1>1, <2>1
    <3>7. ASSUME NEW t \in Threads, message[t] \in Messages, NEW n \in 1..Len(queue') PROVE message[t].at <= queue'[n].at
      <4>1. CASE n \in 1..Len(queue)
        BY <2>1, <3>2, <3>7, <4>1
      <4>2. CASE n = Len(queue) + 1
        BY <3>3, <3>6, <3>7, <4>2
      <4> QED BY <3>1, <4>1, <4>2
    <3> QED BY <1>5, <3>4, <3>5, <3>6, <3>7 DEF Dated
  <2> QED BY <1>4, <2>3, <2>4
<1>7. /\ missed \in BOOLEAN /\ overrun \in BOOLEAN /\ excused \in BOOLEAN
  BY DEF Types, ListTypes, SocketTypes
<1> QED BY <1>1, <1>3, <1>5, <1>6, <1>7 DEF Report

LEMMA TypesKernel == Types /\ KernelStep => Types'
<1> SUFFICES ASSUME Types, KernelStep PROVE Types'
  OBVIOUS
<1>1. PICK m \in Messages : m.at = version + 1 /\ Report(m) /\ Tells(m) /\ KernelTypes'
  BY KernelReports
<1>2. /\ version' = version + 1
      /\ \/ queue' \in Seq(Messages)
         \/ queue' = queue
      /\ ready' = (ready \/ socket = "started")
      /\ UNCHANGED <<adapters, job, shown, socket, stage, message, links, known>>
      /\ Dated'
  BY <1>1, ReportIs
<1>3. overrun' \in BOOLEAN /\ excused' \in BOOLEAN /\ missed' \in BOOLEAN /\ ready' \in BOOLEAN
  BY <1>1, ReportIs DEF Types, ListTypes, SocketTypes
<1>4. version \in Nat /\ version' \in Nat /\ shown \in Nat /\ shown <= version'
  BY <1>2 DEF Types, ListTypes
<1>5. \A t \in Threads : Running(t) => job[t].base <= version'
  <2> SUFFICES ASSUME NEW t \in Threads, Running(t) PROVE job[t].base <= version'
    OBVIOUS
  <2>1. job[t].base \in Nat /\ job[t].base <= version
    BY RunningIs DEF Types, ListTypes
  <2> QED BY <1>2, <1>4, <2>1
<1>6. ListTypes'
  BY <1>1, <1>2, <1>3, <1>4, <1>5 DEF Types, ListTypes, KernelTypes, Running, At
<1>7. SocketTypes'
  BY <1>1, <1>2, <1>3 DEF Types, SocketTypes, KernelTypes, Handling
<1> QED BY <1>1, <1>2, <1>6, <1>7 DEF Types, KernelTypes

(* What update() leaves alone *)
LEMMA TypesJob ==
  ASSUME Types, NEW t \in Threads, NEW v \in {Idle, Called} \cup Working, job' = [job EXCEPT ![t] = v],
         v \in Working => v.base <= version /\ (v.at = "index" => v.rest # <<>> /\ Head(v.rest)[1] \in Hardware),
         UNCHANGED kernelVars, adapters' \in Lists, shown' \in Nat, shown' <= version, excused' \in BOOLEAN
  PROVE  ListTypes' /\ KernelInv'
<1>1. /\ job' \in [Threads -> {Idle, Called} \cup Working]
      /\ \A s \in Threads : job'[s] = IF s = t THEN v ELSE job[s]
  BY JobBecomes
<1>2. Idle.at = "idle" /\ Called.at = "getifaddrs"
  BY DEF Idle, Called
<1>3. \A s \in Threads : job'[s].at \in {"entry", "index"} => job'[s].base <= version'
  BY <1>1, <1>2 DEF Types, ListTypes, kernelVars, Running
<1>4. \A s \in Threads : job'[s].at = "index" => job'[s].rest # <<>> /\ Head(job'[s].rest)[1] \in Hardware
  BY <1>1, <1>2 DEF Types, ListTypes, At
<1> QED BY <1>1, <1>3, <1>4 DEF Types, ListTypes, KernelInv, Exists, kernelVars, Running, At

LEMMA TypesUpdate == ASSUME Types, NEW t \in Threads, UpdateStep(t) PROVE Types'
<1>0. UNCHANGED <<kernelVars, netlinkVars>> /\ Update(t)
  BY DEF UpdateStep
<1>1. SocketTypes' /\ Dated'
  BY <1>0 DEF Types, SocketTypes, Dated, Handling, kernelVars, netlinkVars, user
<1>2. adapters \in Lists /\ shown \in Nat /\ shown <= version /\ excused \in BOOLEAN /\ version \in Nat
  BY DEF Types, ListTypes
<1>3. Idle \notin Working /\ Called \notin Working
  BY DEF Idle, Called, Working
<1>4. ASSUME Running(t) PROVE job[t].base <= version
  BY <1>4 DEF Types, ListTypes
<1>5. CASE GetIfAddrs(t)
  <2>1. PICK j \in Working : job' = [job EXCEPT ![t] = j] /\ j.at = "entry" /\ j.base = version
    BY <1>5, GetIfAddrsIs
  <2>2. UNCHANGED <<adapters, shown, excused>> /\ j.base <= version /\ j.at # "index"
    BY <1>2, <1>5, <2>1 DEF GetIfAddrs
  <2>3. ListTypes' /\ KernelInv'
    BY <1>0, <1>2, <2>1, <2>2, TypesJob
  <2> QED BY <1>1, <2>3 DEF Types
<1>6. CASE GetIfAddrsFails(t)
  <2>1. job' = [job EXCEPT ![t] = Idle] /\ excused' = TRUE /\ UNCHANGED <<adapters, shown>>
    BY <1>6 DEF GetIfAddrsFails
  <2>3. ListTypes' /\ KernelInv'
    BY <1>0, <1>2, <1>3, <2>1, TypesJob
  <2> QED BY <1>1, <2>3 DEF Types
<1>7. CASE GetHardwareInfo(t)
  <2>1. PICK j \in Working :
          /\ job' = [job EXCEPT ![t] = j] /\ j.base = job[t].base
          /\ j.at = "index" => j.rest # <<>> /\ Head(j.rest)[1] \in Hardware
    BY <1>7, GetHardwareInfoIs
  <2>2. UNCHANGED <<adapters, shown, excused>> /\ Running(t)
    BY <1>7 DEF GetHardwareInfo, At, Running
  <2>3. ListTypes' /\ KernelInv'
    BY <1>0, <1>2, <1>4, <2>1, <2>2, TypesJob
  <2> QED BY <1>1, <2>3 DEF Types
<1>8. CASE AddEntry(t)
  <2>1. PICK j \in Working : job' = [job EXCEPT ![t] = j] /\ j.at = "entry" /\ j.base = job[t].base
    BY <1>8, AddEntryIs
  <2>2. UNCHANGED <<adapters, shown, excused>> /\ Running(t)
    BY <1>8 DEF AddEntry, At, Running
  <2>3. ListTypes' /\ KernelInv'
    BY <1>0, <1>2, <1>4, <2>1, <2>2, TypesJob
  <2> QED BY <1>1, <2>3 DEF Types
<1>9. CASE Store(t)
  <2>1. /\ Running(t) /\ job' = [job EXCEPT ![t] = Idle]
        /\ adapters' = job[t].map /\ shown' = job[t].base
    BY <1>9 DEF Store, At, Running
  <2>2. job[t].map \in Lists /\ job[t].base \in Nat /\ job[t].clean \in BOOLEAN
    BY <2>1, RunningIs
  <2>3. excused' \in BOOLEAN
    BY <1>2, <1>9, <2>2 DEF Store
  <2>4. ListTypes' /\ KernelInv'
    BY <1>0, <1>2, <1>3, <1>4, <2>1, <2>2, <2>3, TypesJob
  <2> QED BY <1>1, <2>4 DEF Types
<1> QED BY <1>0, <1>5, <1>6, <1>7, <1>8, <1>9 DEF Update

(* The next message is taken: it is handled, the rest stays. *)
LEMMA TakeIs ==
  ASSUME Types, NEW t \in Threads, Take(t)
  PROVE  /\ queue # <<>> /\ queue[1] \in Messages
         /\ message' \in [Threads -> Messages \cup {NoMessage}]
         /\ \A u \in Threads : message'[u] = IF u = t THEN queue[1] ELSE message[u]
         /\ queue' = Tail(queue) /\ queue' \in Seq(Messages) /\ Len(queue) \in Nat \ {0}
         /\ Len(queue') = Len(queue) - 1
         /\ \A n \in 1..Len(queue') : queue'[n] = queue[n + 1] /\ n + 1 \in 1..Len(queue)
         /\ \A n \in 2..Len(queue) : queue'[n - 1] = queue[n] /\ n - 1 \in 1..Len(queue')
         /\ UNCHANGED <<kernelVars, adapters, shown, excused, socket, overrun, ready, user>>
         /\ stage[t] = "receive" /\ ~overrun /\ socket = "started"
         /\ message[t] = NoMessage
<1>1. queue # <<>> /\ queue' = Tail(queue) /\ queue \in Seq(Messages)
  BY DEF Take, Types, SocketTypes
<1>2. /\ Head(queue) \in Messages /\ Head(queue) = queue[1] /\ Tail(queue) \in Seq(Messages)
      /\ Len(queue) \in Nat \ {0} /\ Len(Tail(queue)) = Len(queue) - 1
      /\ \A n \in 1..Len(Tail(queue)) : Tail(queue)[n] = queue[n + 1]
  BY <1>1, Takes
<1>3. message' = [message EXCEPT ![t] = Head(queue)]
  BY DEF Take
<1>4. /\ message' \in [Threads -> Messages \cup {NoMessage}]
      /\ \A u \in Threads : message'[u] = IF u = t THEN Head(queue) ELSE message[u]
  BY <1>2, <1>3, MessageBecomes
<1>5. \A n \in 1..Len(queue) - 1 : n + 1 \in 1..Len(queue)
  BY <1>2
<1>6. \A n \in 2..Len(queue) : n - 1 \in 1..Len(queue) - 1 /\ (n - 1) + 1 = n
  BY <1>2
<1>7. UNCHANGED <<kernelVars, adapters, shown, excused, socket, overrun, ready, user>> /\ stage[t] = "receive" /\ ~overrun /\ socket = "started"
  BY DEF Take
<1>8. message[t] = NoMessage
  BY <1>7 DEF Types, SocketTypes, Handling
<1> QED BY <1>1, <1>2, <1>4, <1>5, <1>6, <1>7, <1>8

LEMMA TypesReceive ==
  ASSUME Types, NEW t \in Threads, Receive(t)
  PROVE  Types'
<1>0. Take(t) /\ stage' = [stage EXCEPT ![t] = "update"] /\ job' = [job EXCEPT ![t] = Called]
  BY DEF Receive, UpdateCall, Called
<1>1. /\ queue' = Tail(queue) /\ queue' \in Seq(Messages) /\ queue[1] \in Messages
      /\ message' \in [Threads -> Messages \cup {NoMessage}]
      /\ \A u \in Threads : message'[u] = IF u = t THEN queue[1] ELSE message[u]
      /\ Len(queue') = Len(queue) - 1 /\ Len(queue) \in Nat \ {0}
      /\ \A n \in 1..Len(queue') : queue'[n] = queue[n + 1] /\ n + 1 \in 1..Len(queue)
      /\ UNCHANGED <<kernelVars, adapters, shown, excused, socket, overrun, ready, user>>
  BY <1>0, TakeIs
<1>2. ListTypes' /\ KernelInv'
  <2>1. Called \notin Working
    BY DEF Called, Working
  <2>2. adapters' \in Lists /\ shown' \in Nat /\ shown' <= version /\ excused' \in BOOLEAN
    BY <1>1 DEF Types, ListTypes
  <2> QED BY <1>0, <1>1, <2>1, <2>2, TypesJob
<1>3. SocketTypes'
  <2>1. stage' \in [Threads -> Stages] /\ \A u \in Threads : stage'[u] = IF u = t THEN "update" ELSE stage[u]
    BY <1>0, StageBecomes DEF Stages
  <2>2. \A u \in Threads : message'[u] \in Messages <=> stage'[u] \in {"update", "callback"}
    BY <1>1, <2>1 DEF Types, SocketTypes, Handling
  <2> QED BY <1>1, <2>1, <2>2 DEF Types, SocketTypes, Handling, kernelVars, user
<1>4. Dated'
  <2>1. 1 \in 1..Len(queue) /\ \A n \in 1..Len(queue') : 1 < n + 1 /\ n + 1 \in 1..Len(queue)
    BY <1>1
  <2>2. \A n \in 1..Len(queue') : queue'[n].at <= version /\ queue[1].at <= queue'[n].at
    BY <1>1, <2>1 DEF Types, Dated
  <2>3. \A n, k \in 1..Len(queue') : n < k => queue'[n].at <= queue'[k].at
    <3>1. \A n, k \in 1..Len(queue') : n < k => n + 1 < k + 1
      OBVIOUS
    <3> QED BY <1>1, <3>1 DEF Types, Dated
  <2>4. queue[1].at <= version
    BY <2>1 DEF Types, Dated
  <2>5. \A u \in Threads : message'[u] \in Messages =>
          message'[u].at <= version /\ \A n \in 1..Len(queue') : message'[u].at <= queue'[n].at
    BY <1>1, <2>2, <2>4 DEF Types, Dated
  <2> QED BY <1>1, <2>2, <2>3, <2>5 DEF Dated, kernelVars
<1> QED BY <1>2, <1>3, <1>4 DEF Types

(* Steps that leave the kernel and the list alone *)
LEMMA TypesSocket ==
  ASSUME Types, SocketTypes', UNCHANGED <<kernelVars, adapters, job, shown>>, excused' \in BOOLEAN,
         queue' = queue \/ queue' = <<>>, \A t \in Threads : message'[t] = message[t] \/ message'[t] = NoMessage
  PROVE  Types'
<1>1. ListTypes'
  BY DEF Types, ListTypes, kernelVars, Running, At
<1>2. KernelInv'
  BY DEF Types, KernelInv, Exists, kernelVars
<1>3. \A t \in Threads : message'[t] \in Messages => message'[t] = message[t]
  BY MessageIs
<1>4. Dated'
  <2>1. CASE queue' = queue
    BY <1>3, <2>1 DEF Types, Dated, kernelVars
  <2>2. CASE queue' = <<>>
    <3>1. 1..Len(queue') = {}
      BY <2>2
    <3> QED BY <1>3, <3>1 DEF Types, Dated, kernelVars
  <2> QED BY <2>1, <2>2
<1> QED BY <1>1, <1>2, <1>4 DEF Types

(* Of a message that is handled no more *)
LEMMA MessageDone ==
  ASSUME Types, NEW t \in Threads, NEW v \in {"idle", "receive"},
         message' = [message EXCEPT ![t] = NoMessage], stage' = [stage EXCEPT ![t] = v]
  PROVE  /\ stage' \in [Threads -> Stages]
         /\ message' \in [Threads -> Messages \cup {NoMessage}]
         /\ \A u \in Threads : message'[u] \in Messages <=> stage'[u] \in {"update", "callback"}
         /\ \A u \in Threads : message'[u] = message[u] \/ message'[u] = NoMessage
<1>1. stage' \in [Threads -> Stages] /\ \A u \in Threads : stage'[u] = IF u = t THEN v ELSE stage[u]
  BY StageBecomes DEF Stages
<1>2. /\ message' \in [Threads -> Messages \cup {NoMessage}]
      /\ \A u \in Threads : message'[u] = IF u = t THEN NoMessage ELSE message[u]
  BY MessageBecomes
<1> QED BY <1>1, <1>2, MessageIs DEF Types, SocketTypes, Handling

(* What the callback adds is about adapters. *)
LEMMA KnownTypes ==
  ASSUME Types, NEW t \in Threads, Callback(t)
  PROVE  links' \subseteq Hardware /\ known' \subseteq Hardware \X Addrs
<1>0. message[t] \in Messages /\ links \subseteq Hardware /\ known \subseteq Hardware \X Addrs
  BY DEF Types, SocketTypes, Callback, Handling
<1>1. links' \subseteq Hardware
  <2>1. \/ links' = links \/ links' = links \ {message[t].index}
        \/ message[t] \in LinkMessages /\ links' = links \cup {message[t].index}
    BY <1>0 DEF Callback, EventOf, Messages, LinkMessages, AddressMessages
  <2>2. message[t] \in LinkMessages => message[t].index \in Hardware
    BY DEF LinkMessages
  <2> QED BY <1>0, <2>1, <2>2
<1>2. known' \subseteq Hardware \X Addrs
  <2>1. \/ known' = known
        \/ known' = known \ {<<message[t].index, message[t].address>>}
        \/ message[t] \in AddressMessages /\ known' = known \cup {<<message[t].index, message[t].address>>}
    BY <1>0 DEF Callback, EventOf, Messages, LinkMessages, AddressMessages
  <2>2. message[t] \in AddressMessages => message[t].index \in Hardware /\ message[t].address \in Addrs
    BY DEF AddressMessages
  <2> QED BY <1>0, <2>1, <2>2
<1> QED BY <1>1, <1>2

(* The user takes what the list shows. *)
LEMMA CompleteIs ==
  ASSUME Types, Complete
  PROVE  /\ links' \subseteq Hardware /\ known' \subseteq Hardware \X Addrs
         /\ UNCHANGED <<kernelVars, adapters, job, shown, message>> /\ socket = "bound"
<1>1. DOMAIN adapters \subseteq Hardware \cup {0}
  BY ListIs DEF Types, ListTypes, Indices
<1>2. DOMAIN adapters \cap Ifs \subseteq Hardware
  BY <1>1, IfsAssumption
<1> QED BY <1>2 DEF Complete, Types, SocketTypes

LEMMA TypesStep == Types /\ [Next]_vars => Types'
<1> SUFFICES ASSUME Types, [Next]_vars PROVE Types'
  OBVIOUS
<1> USE DEF Handling
<1>0. SocketTypes /\ excused \in BOOLEAN
  BY DEF Types, ListTypes
<1>1. CASE KernelStep
  BY <1>1, TypesKernel
<1>2. CASE Construct
  <2>1. SocketTypes'
    BY <1>0, <1>2 DEF Construct, SocketTypes, kernelVars, user
  <2> QED BY <1>0, <1>2, <2>1, TypesSocket DEF Construct, listVars
<1>3. ASSUME NEW t \in Threads, Start(t) PROVE Types'
  <2>1. /\ links' \subseteq Hardware /\ known' \subseteq Hardware \X Addrs
        /\ UNCHANGED <<kernelVars, adapters, job, shown, message>>
    BY <1>3, CompleteIs DEF Start
  <2>2. missed' \in BOOLEAN /\ stage[t] = "idle" /\ UNCHANGED <<excused, queue, overrun>> /\ socket' = "started"
        /\ ready' \in BOOLEAN
    BY <1>0, <1>3 DEF Start, SocketTypes, Draining
  <2>3. stage' \in [Threads -> Stages] /\ \A u \in Threads : stage'[u] = IF u = t THEN "receive" ELSE stage[u]
    BY <1>3, StageBecomes DEF Start, Stages
  <2>4. SocketTypes'
    BY <1>0, <2>1, <2>2, <2>3 DEF SocketTypes, kernelVars
  <2> QED BY <1>0, <2>1, <2>2, <2>4, TypesSocket
<1>4. CASE Stop \/ StartUnwatched
  <2>1. /\ links' \subseteq Hardware /\ known' \subseteq Hardware \X Addrs
        /\ UNCHANGED <<kernelVars, adapters, job, shown, stage, message>> /\ Deaf
    BY <1>0, <1>4, CompleteIs DEF Stop, StartUnwatched, SocketTypes
  <2>2. queue' \in Seq(Messages)
    BY <2>1 DEF Deaf
  <2>3. SocketTypes'
    BY <1>0, <2>1, <2>2 DEF Deaf, SocketTypes, kernelVars
  <2> QED BY <1>0, <2>1, <2>3, TypesSocket DEF Deaf
<1>5. CASE Wake
  <2>1. stage' \in [Threads -> Stages] /\ \A u \in Threads : stage'[u] = IF u = Loop THEN "receive" ELSE stage[u]
    BY <1>5, LoopAssumption, StageBecomes DEF Wake, Stages
  <2>2. SocketTypes'
    BY <1>0, <1>5, <2>1 DEF Wake, Draining, SocketTypes, kernelVars, user
  <2> QED BY <1>0, <1>5, <2>2, TypesSocket DEF Wake, listVars
<1>6. CASE WakeStopped
  <2>1. SocketTypes'
    BY <1>0, <1>6 DEF WakeStopped, SocketTypes, kernelVars
  <2> QED BY <1>0, <1>6, <2>1, TypesSocket DEF WakeStopped
<1>7. ASSUME NEW t \in Threads, ReceiveNothing(t) PROVE Types'
  <2>1. stage' \in [Threads -> Stages] /\ \A u \in Threads : stage'[u] = IF u = t THEN "idle" ELSE stage[u]
    BY <1>7, StageBecomes DEF ReceiveNothing, Stages
  <2>2. SocketTypes'
    BY <1>0, <1>7, <2>1 DEF ReceiveNothing, SocketTypes, kernelVars, user
  <2> QED BY <1>0, <1>7, <2>2, TypesSocket DEF ReceiveNothing, listVars
<1>8. ASSUME NEW t \in Threads, Receive(t) PROVE Types'
  BY <1>8, TypesReceive
<1>9. ASSUME NEW t \in Threads, UpdateReturns(t) PROVE Types'
  <2>1. stage' \in [Threads -> Stages] /\ \A u \in Threads : stage'[u] = IF u = t THEN "callback" ELSE stage[u]
    BY <1>9, StageBecomes DEF UpdateReturns, Stages
  <2>2. SocketTypes'
    BY <1>0, <1>9, <2>1 DEF UpdateReturns, SocketTypes, kernelVars, user
  <2> QED BY <1>0, <1>9, <2>2, TypesSocket DEF UpdateReturns, listVars
<1>10. ASSUME NEW t \in Threads, Callback(t) PROVE Types'
  <2>1. links' \subseteq Hardware /\ known' \subseteq Hardware \X Addrs
    BY <1>10, KnownTypes
  <2>2. /\ stage' \in [Threads -> Stages]
        /\ message' \in [Threads -> Messages \cup {NoMessage}]
        /\ \A u \in Threads : message'[u] \in Messages <=> stage'[u] \in {"update", "callback"}
        /\ \A u \in Threads : message'[u] = message[u] \/ message'[u] = NoMessage
    BY <1>10, MessageDone DEF Callback
  <2>3. UNCHANGED <<kernelVars, listVars, socket, queue, overrun, ready>> /\ missed' \in BOOLEAN
    BY <1>0, <1>10 DEF Callback, SocketTypes
  <2>4. SocketTypes'
    BY <1>0, <2>1, <2>2, <2>3 DEF SocketTypes, kernelVars
  <2> QED BY <1>0, <2>2, <2>3, <2>4, TypesSocket DEF listVars
<1>11. ASSUME NEW t \in Threads, CallbackThrows(t) PROVE Types'
  <2>1. /\ stage' \in [Threads -> Stages]
        /\ message' \in [Threads -> Messages \cup {NoMessage}]
        /\ \A u \in Threads : message'[u] \in Messages <=> stage'[u] \in {"update", "callback"}
        /\ \A u \in Threads : message'[u] = message[u] \/ message'[u] = NoMessage
    BY <1>11, MessageDone DEF CallbackThrows
  <2>2. /\ UNCHANGED <<kernelVars, adapters, job, shown, socket, queue, overrun, ready, links, known>>
        /\ missed' \in BOOLEAN /\ excused' \in BOOLEAN
    BY <1>0, <1>11 DEF CallbackThrows
  <2>3. SocketTypes'
    BY <1>0, <2>1, <2>2 DEF SocketTypes, kernelVars
  <2> QED BY <1>0, <2>1, <2>2, <2>3, TypesSocket
<1>12. ASSUME NEW t \in Threads, UserUpdate(t) PROVE Types'
  <2>0. job' = [job EXCEPT ![t] = Called] /\ UNCHANGED <<kernelVars, adapters, shown, excused, netlinkVars>>
    BY <1>12 DEF UserUpdate, UpdateCall, Called
  <2>1. Called \notin Working
    BY DEF Called, Working
  <2>2. adapters' \in Lists /\ shown' \in Nat /\ shown' <= version /\ excused' \in BOOLEAN
    BY <2>0 DEF Types, ListTypes
  <2>3. ListTypes' /\ KernelInv'
    BY <2>0, <2>1, <2>2, TypesJob
  <2>4. SocketTypes' /\ Dated'
    BY <2>0 DEF Types, SocketTypes, Dated, Handling, kernelVars, netlinkVars, user
  <2> QED BY <2>3, <2>4 DEF Types
<1>13. ASSUME NEW t \in Threads, UpdateStep(t) PROVE Types'
  BY <1>13, TypesUpdate
<1>14. CASE UNCHANGED vars
  <2>1. SocketTypes'
    BY <1>0, <1>14 DEF SocketTypes, vars, kernelVars, netlinkVars, user
  <2> QED BY <1>0, <1>14, <2>1, TypesSocket DEF vars, listVars, netlinkVars
<1> QED BY <1>1, <1>2, <1>3, <1>4, <1>5, <1>6, <1>7, <1>8, <1>9, <1>10, <1>11, <1>12, <1>13, <1>14 DEF Next

LEMMA TypesAlways == Spec => []Types
<1> QED BY TypesInit, TypesStep, PTL DEF Spec

(* What a step of update() does to the list *)
LEMMA UpdateIs ==
  ASSUME Types, NEW t \in Threads, UpdateStep(t)
  PROVE  /\ UNCHANGED <<kernelVars, netlinkVars>>
         /\ \A s \in Threads \ {t} : job'[s] = job[s]
         /\ \/ /\ job'[t] \in Working /\ UNCHANGED <<adapters, shown, excused>>
               /\ \/ At(t, "getifaddrs") /\ job'[t].base = version
                  \/ Running(t) /\ job'[t].base = job[t].base
            \/ /\ At(t, "getifaddrs") /\ job'[t] = Idle /\ excused' = TRUE /\ UNCHANGED <<adapters, shown>>
            \/ /\ At(t, "entry") /\ job[t].rest = <<>>
               /\ job'[t] = Idle /\ adapters' = job[t].map /\ shown' = job[t].base
               /\ ~excused' =>
                    job[t].clean /\ (job[t].base = version \/ (~excused /\ job[t].base >= shown))
<1>0. UNCHANGED <<kernelVars, netlinkVars>> /\ Update(t)
  BY DEF UpdateStep
<1>1. CASE GetIfAddrs(t)
  <2>1. PICK j \in Working : job' = [job EXCEPT ![t] = j] /\ j.base = version
    BY <1>1, GetIfAddrsIs
  <2>2. \A s \in Threads : job'[s] = IF s = t THEN j ELSE job[s]
    BY <2>1, JobBecomes
  <2> QED BY <1>0, <1>1, <2>1, <2>2 DEF GetIfAddrs
<1>2. CASE GetIfAddrsFails(t)
  <2>1. job' = [job EXCEPT ![t] = Idle]
    BY <1>2 DEF GetIfAddrsFails
  <2>2. \A s \in Threads : job'[s] = IF s = t THEN Idle ELSE job[s]
    BY <2>1, JobBecomes
  <2> QED BY <1>0, <1>2, <2>2 DEF GetIfAddrsFails
<1>3. CASE GetHardwareInfo(t)
  <2>1. PICK j \in Working : job' = [job EXCEPT ![t] = j] /\ j.base = job[t].base
    BY <1>3, GetHardwareInfoIs
  <2>2. \A s \in Threads : job'[s] = IF s = t THEN j ELSE job[s]
    BY <2>1, JobBecomes
  <2> QED BY <1>0, <1>3, <2>1, <2>2 DEF GetHardwareInfo, At, Running
<1>4. CASE AddEntry(t)
  <2>1. PICK j \in Working : job' = [job EXCEPT ![t] = j] /\ j.base = job[t].base
    BY <1>4, AddEntryIs
  <2>2. \A s \in Threads : job'[s] = IF s = t THEN j ELSE job[s]
    BY <2>1, JobBecomes
  <2> QED BY <1>0, <1>4, <2>1, <2>2 DEF AddEntry, At, Running
<1>5. CASE Store(t)
  <2>1. job' = [job EXCEPT ![t] = Idle] /\ Running(t)
    BY <1>5 DEF Store, At, Running
  <2>2. \A s \in Threads : job'[s] = IF s = t THEN Idle ELSE job[s]
    BY <2>1, JobBecomes
  <2>3. job[t].base \in Nat /\ job[t].clean \in BOOLEAN /\ shown \in Nat /\ excused \in BOOLEAN
    BY <2>1, RunningIs DEF Types, ListTypes
  <2>4. ~excused' => job[t].clean /\ (job[t].base = version \/ (~excused /\ ~(job[t].base < shown)))
    BY <1>5, <2>3 DEF Store
  <2>5. ~(job[t].base < shown) => job[t].base >= shown
    BY <2>3
  <2> QED BY <1>0, <1>5, <2>2, <2>4, <2>5 DEF Store
<1> QED BY <1>0, <1>1, <1>2, <1>3, <1>4, <1>5 DEF Update

-----------------------------------------------------------------------------
(* process() and the messages *)

(* process() updates the list before the callback is told. *)
UpdatesFirst ==
  \A t \in Threads :
    /\ stage[t] = "update" /\ Running(t) => job[t].base >= message[t].at
    /\ stage[t] = "callback" \/ (stage[t] = "update" /\ At(t, "idle")) => excused \/ shown >= message[t].at

(* A change the list does not show yet is still to be told. *)
Coming(v) ==
  \/ \E t \in Threads : stage[t] = "update" /\ message[t].at = v
  \/ \E n \in 1..Len(queue) : queue[n].at = v
ChangesCome == ~excused => \A v \in shown + 1..version : Coming(v)

(* After an overrun nothing comes until it is reported. *)
OverrunFull ==
  overrun => ~(Len(queue) < MaxQueue) /\ socket # "none" /\ missed /\ (excused \/ shown = version)

(* Nobody is in process() and no edge is there only when there is nothing to *)
(* be told.                                                                  *)
Awake ==
  socket = "started" /\ (\A t \in Threads : stage[t] = "idle") /\ ~ready =>
    (excused \/ shown = version) /\ (missed \/ queue = <<>>)

Flow == UpdatesFirst /\ ChangesCome /\ OverrunFull /\ Awake

LEMMA FlowInit == Init => Flow
<1> SUFFICES ASSUME Init PROVE Flow
  OBVIOUS
<1>1. \A t \in Threads : stage[t] = "idle"
  BY DEF Init
<1>2. ~overrun /\ socket = "none"
  BY DEF Init
<1>3. version = 0 /\ shown = 0
  BY DEF Init, ListInit
<1>4. \A v \in shown + 1..version : FALSE
  BY ONLY <1>3
<1> QED BY <1>1, <1>2, <1>4 DEF Flow, UpdatesFirst, ChangesCome, OverrunFull, Awake

LEMMA FlowKernel == Types /\ Flow /\ KernelStep => Flow'
<1> SUFFICES ASSUME Types, Flow, KernelStep PROVE Flow'
  OBVIOUS
<1>1. PICK m \in Messages : m.at = version + 1 /\ Report(m)
  BY KernelReports
<1>2. /\ UNCHANGED <<adapters, job, shown, socket, stage, message>> /\ version' = version + 1
      /\ ready' = (ready \/ socket = "started") /\ socket # "stopped"
  BY <1>1, ReportIs
<1>3. version \in Nat /\ shown \in Nat /\ shown <= version
  BY DEF Types, ListTypes
<1>4. \/ /\ socket \in {"bound", "started"} /\ Len(queue) < MaxQueue
         /\ overrun' = overrun /\ excused' = excused /\ Len(queue') = Len(queue) + 1
         /\ \A n \in 1..Len(queue) : queue'[n] = queue[n]
         /\ queue'[Len(queue) + 1] = m
      \/ /\ socket \in {"bound", "started"} /\ ~(Len(queue) < MaxQueue)
         /\ queue' = queue /\ overrun' = TRUE /\ excused' = TRUE /\ missed' = TRUE
      \/ socket = "none" /\ queue' = queue /\ overrun' = overrun /\ excused' = TRUE
  BY <1>1, ReportIs
<1>5. UpdatesFirst'
  <2>1. excused => excused'
    BY <1>4
  <2> QED BY <1>2, <2>1 DEF Flow, UpdatesFirst, At, Running
<1>6. ChangesCome'
  <2> SUFFICES ASSUME ~excused', NEW v \in shown' + 1..version' PROVE Coming(v)'
    BY DEF ChangesCome
  <2>1. /\ Len(queue') = Len(queue) + 1 /\ Len(queue) \in Nat /\ ~excused
        /\ \A n \in 1..Len(queue) : queue'[n] = queue[n]
        /\ queue'[Len(queue) + 1] = m
    BY <1>1, <1>4, ReportIs
  <2>2. CASE v = version + 1
    <3>1. Len(queue) + 1 \in 1..Len(queue')
      BY <2>1
    <3> QED BY <1>1, <2>1, <2>2, <3>1 DEF Coming
  <2>3. CASE v # version + 1
    <3>1. v \in shown + 1..version
      BY <1>2, <1>3, <2>3
    <3>2. Coming(v)
      BY <2>1, <3>1 DEF Flow, ChangesCome
    <3>3. \A n \in 1..Len(queue) : n \in 1..Len(queue')
      BY <2>1
    <3> QED BY <1>2, <2>1, <3>2, <3>3 DEF Coming
  <2> QED BY <2>2, <2>3
<1>7. OverrunFull'
  BY <1>2, <1>4 DEF Flow, OverrunFull
<1>8. Awake'
  BY <1>2 DEF Awake
<1> QED BY <1>5, <1>6, <1>7, <1>8 DEF Flow

LEMMA FlowUpdate == ASSUME Types, Flow, NEW t \in Threads, UpdateStep(t) PROVE Flow'
<1>1. /\ UNCHANGED <<kernelVars, netlinkVars>>
      /\ \A s \in Threads \ {t} : job'[s] = job[s]
      /\ \/ /\ job'[t] \in Working /\ UNCHANGED <<adapters, shown, excused>>
            /\ \/ At(t, "getifaddrs") /\ job'[t].base = version
               \/ Running(t) /\ job'[t].base = job[t].base
         \/ At(t, "getifaddrs") /\ job'[t] = Idle /\ excused' = TRUE /\ UNCHANGED <<adapters, shown>>
         \/ /\ At(t, "entry") /\ job'[t] = Idle /\ shown' = job[t].base
            /\ ~excused' => job[t].base = version \/ (~excused /\ job[t].base >= shown)
  BY UpdateIs
<1>2. UNCHANGED <<version, socket, queue, overrun, ready, stage, message, missed>>
  BY <1>1 DEF kernelVars, netlinkVars, user
<1>3. version \in Nat /\ shown \in Nat /\ shown <= version /\ excused \in BOOLEAN
  BY DEF Types, ListTypes
<1>4. Running(t) => job[t].base \in Nat /\ job[t].base <= version
  BY RunningIs DEF Types, ListTypes
<1>5. \A s \in Threads : stage[s] \in {"update", "callback"} => message[s].at \in Nat /\ message[s].at <= version
  BY OldMessages DEF Types, SocketTypes, Handling
<1>6. At(t, "entry") => Running(t)
  BY DEF At, Running
<1>7. \A j \in Working : j.at \in {"entry", "index"}
  BY DEF Working
<1>8. Idle.at = "idle"
  BY DEF Idle
(* The list does not fall behind. *)
<1>9. ~excused' => shown' = version \/ (~excused /\ shown' >= shown /\ shown' \in Nat)
  <2>1. CASE UNCHANGED <<shown, excused>>
    BY <1>3, <2>1
  <2>2. CASE At(t, "entry") /\ shown' = job[t].base /\ (~excused' => job[t].base = version \/ (~excused /\ job[t].base >= shown))
    BY <1>4, <1>6, <2>2
  <2> QED BY <1>1, <2>1, <2>2
<1>10. UpdatesFirst'
  <2>1. ASSUME NEW s \in Threads, stage[s] = "update", Running(s)' PROVE job'[s].base >= message[s].at
    <3>1. CASE t # s
      BY <1>1, <2>1, <3>1 DEF Flow, UpdatesFirst, Running
    <3>2. CASE t = s
      <4>1. CASE At(t, "getifaddrs") /\ job'[t].base = version
        BY <1>3, <1>5, <2>1, <3>2, <4>1
      <4>2. CASE Running(t) /\ job'[t].base = job[t].base
        BY <2>1, <3>2, <4>2 DEF Flow, UpdatesFirst
      <4>3. CASE job'[t] = Idle
        BY <1>8, <2>1, <3>2, <4>3 DEF Running
      <4> QED BY <1>1, <4>1, <4>2, <4>3
    <3> QED BY <3>1, <3>2
  <2>2. ASSUME NEW s \in Threads, stage[s] = "callback" \/ (stage[s] = "update" /\ job'[s].at = "idle"), ~excused'
        PROVE  shown' >= message[s].at
    <3>1. message[s].at \in Nat /\ message[s].at <= version
      BY <1>5, <2>2
    <3>2. CASE shown' = version
      BY <1>3, <3>1, <3>2
    <3>3. CASE ~excused /\ shown' >= shown /\ shown' \in Nat /\ (stage[s] = "callback" \/ At(s, "idle"))
      <4>1. shown >= message[s].at
        BY <2>2, <3>3 DEF Flow, UpdatesFirst
      <4> QED BY <1>3, <3>1, <3>3, <4>1
    <3>4. CASE stage[s] = "update" /\ ~At(s, "idle") /\ job'[s].at = "idle"
      <4>1. t = s
        BY <1>1, <3>4 DEF At
      <4>2. CASE job'[t] \in Working
        BY <1>7, <3>4, <4>1, <4>2
      <4>3. CASE excused'
        BY <2>2, <4>3
      <4>4. CASE At(t, "entry") /\ shown' = job[t].base
        BY <1>6, <3>4, <4>1, <4>4 DEF Flow, UpdatesFirst
      <4> QED BY <1>1, <4>2, <4>3, <4>4
    <3> QED BY <1>9, <2>2, <3>2, <3>3, <3>4
  <2> QED BY <1>2, <2>1, <2>2 DEF UpdatesFirst, At
<1>11. ChangesCome'
  <2> SUFFICES ASSUME ~excused', NEW v \in shown' + 1..version PROVE Coming(v)
    BY <1>2 DEF ChangesCome, Coming
  <2>1. ~(shown' = version)
    BY <1>3
  <2>2. ~excused /\ v \in shown + 1..version
    BY <1>3, <1>9, <2>1
  <2> QED BY <2>2 DEF Flow, ChangesCome
<1>12. excused \/ shown = version => excused' \/ shown' = version
  <2>1. shown' <= version /\ shown' \in Nat
    BY <1>1, <1>3, <1>4, <1>6
  <2> QED BY <1>3, <1>9, <2>1
<1>13. OverrunFull'
  BY <1>2, <1>12 DEF Flow, OverrunFull
<1>14. Awake'
  BY <1>2, <1>12 DEF Flow, Awake
<1> QED BY <1>10, <1>11, <1>13, <1>14 DEF Flow

LEMMA FlowReceive == ASSUME Types, Flow, NEW t \in Threads, Receive(t) PROVE Flow'
<1>0. Take(t) /\ stage' = [stage EXCEPT ![t] = "update"] /\ job' = [job EXCEPT ![t] = Called]
  BY DEF Receive, UpdateCall, Called
<1>1. /\ stage[t] = "receive" /\ ~overrun
      /\ \A u \in Threads : message'[u] = IF u = t THEN queue[1] ELSE message[u]
      /\ Len(queue) \in Nat \ {0}
      /\ \A n \in 2..Len(queue) : queue'[n - 1] = queue[n] /\ n - 1 \in 1..Len(queue')
      /\ UNCHANGED <<version, shown, excused, overrun>>
  BY <1>0, TakeIs DEF kernelVars
<1>2. \A u \in Threads : stage'[u] = IF u = t THEN "update" ELSE stage[u]
  BY <1>0, StageBecomes DEF Stages
<1>3. UpdatesFirst'
  <2>1. \A u \in Threads : job'[u] = IF u = t THEN Called ELSE job[u]
    BY <1>0, JobBecomes
  <2>2. Called.at = "getifaddrs"
    BY DEF Called
  <2> QED BY <1>1, <1>2, <2>1, <2>2 DEF Flow, UpdatesFirst, At, Running
<1>4. ChangesCome'
  <2> SUFFICES ASSUME ~excused, NEW v \in shown + 1..version PROVE Coming(v)'
    BY <1>1 DEF ChangesCome
  <2>1. Coming(v)
    BY DEF Flow, ChangesCome
  <2>2. CASE \E u \in Threads : stage[u] = "update" /\ message[u].at = v
    <3>1. PICK u \in Threads : stage[u] = "update" /\ message[u].at = v
      BY <2>2
    <3>2. u # t
      BY <1>1, <3>1
    <3> QED BY <1>1, <1>2, <3>1, <3>2 DEF Coming
  <2>3. ASSUME NEW n \in 1..Len(queue), queue[n].at = v PROVE Coming(v)'
    <3>1. CASE n = 1
      BY <1>1, <1>2, <2>3, <3>1 DEF Coming
    <3>2. CASE n # 1
      <4>1. n \in 2..Len(queue)
        BY <1>1, <3>2
      <4> QED BY <1>1, <2>3, <4>1 DEF Coming
    <3> QED BY <3>1, <3>2
  <2> QED BY <2>1, <2>2, <2>3 DEF Coming
<1>5. OverrunFull'
  BY <1>1 DEF OverrunFull
<1>6. Awake'
  <2>1. stage'[t] # "idle"
    BY <1>2
  <2> QED BY <2>1 DEF Awake
<1> QED BY <1>3, <1>4, <1>5, <1>6 DEF Flow

(* Nobody handles a message and none is queued: the list shows everything. *)
LEMMA NothingComes ==
  ASSUME Types, Flow, queue = <<>>, \A t \in Threads : stage[t] # "update"
  PROVE  excused \/ shown = version
<1> SUFFICES ASSUME ~excused, shown # version PROVE FALSE
  OBVIOUS
<1>1. version \in Nat /\ shown \in Nat /\ shown <= version
  BY DEF Types, ListTypes
<1>2. Coming(version)
  BY <1>1 DEF Flow, ChangesCome
<1> QED BY <1>2 DEF Coming

LEMMA FlowUpdateReturns == ASSUME Types, Flow, NEW t \in Threads, UpdateReturns(t) PROVE Flow'
<1>1. /\ UNCHANGED <<version, job, shown, excused, queue, socket, overrun, message, missed>>
      /\ stage[t] = "update" /\ At(t, "idle")
  BY DEF UpdateReturns, kernelVars, listVars, user
<1>2. \A u \in Threads : stage'[u] = IF u = t THEN "callback" ELSE stage[u]
  BY StageBecomes DEF UpdateReturns, Stages
<1>3. version \in Nat /\ shown \in Nat /\ message[t].at \in Nat
  BY <1>1, OldMessages DEF Types, ListTypes, SocketTypes, Handling
<1>4. excused \/ shown >= message[t].at
  BY <1>1 DEF Flow, UpdatesFirst
<1>5. ChangesCome'
  <2> SUFFICES ASSUME ~excused, NEW v \in shown + 1..version PROVE Coming(v)'
    BY <1>1 DEF ChangesCome
  <2>1. v # message[t].at
    BY <1>3, <1>4
  <2>2. Coming(v)
    BY DEF Flow, ChangesCome
  <2> QED BY <1>1, <1>2, <2>1, <2>2 DEF Coming
<1>6. UpdatesFirst'
  BY <1>1, <1>2, <1>4 DEF Flow, UpdatesFirst, At, Running
<1>7. OverrunFull'
  BY <1>1 DEF Flow, OverrunFull
<1>8. Awake'
  <2>1. stage'[t] # "idle"
    BY <1>2
  <2> QED BY <2>1 DEF Awake
<1> QED BY <1>5, <1>6, <1>7, <1>8 DEF Flow

LEMMA FlowCallback ==
  ASSUME Types, Flow, NEW t \in Threads, Callback(t) \/ CallbackThrows(t)
  PROVE  Flow'
<1>1. /\ UNCHANGED <<version, job, shown, queue, socket, overrun>>
      /\ stage[t] = "callback" /\ message' = [message EXCEPT ![t] = NoMessage]
      /\ excused => excused'
      /\ missed => missed'
      /\ \/ stage' = [stage EXCEPT ![t] = "receive"]
         \/ stage' = [stage EXCEPT ![t] = "idle"] /\ missed' /\ excused' = (excused \/ queue # <<>>)
  <2>1. CASE Callback(t)
    <3>1. missed' \in BOOLEAN /\ missed \in BOOLEAN /\ (missed => missed')
      BY <2>1 DEF Callback, Types, SocketTypes
    <3> QED BY <2>1, <3>1 DEF Callback, kernelVars, listVars
  <2>2. CASE CallbackThrows(t)
    BY <2>2 DEF CallbackThrows, kernelVars, listVars
  <2> QED BY <2>1, <2>2
<1>2. \A u \in Threads : u # t => stage'[u] = stage[u] /\ message'[u] = message[u]
  BY <1>1, StageBecomes, MessageBecomes DEF Stages
<1>3. /\ stage'[t] \in {"idle", "receive"}
      /\ stage'[t] = "idle" => missed' /\ excused' = (excused \/ queue # <<>>)
  BY <1>1, StageBecomes DEF Stages
<1>4. UpdatesFirst'
  BY <1>1, <1>2, <1>3 DEF Flow, UpdatesFirst, At, Running
<1>5. ChangesCome'
  <2> SUFFICES ASSUME ~excused, NEW v \in shown + 1..version PROVE Coming(v)'
    BY <1>1 DEF ChangesCome
  <2>1. Coming(v)
    BY DEF Flow, ChangesCome
  <2> QED BY <1>1, <1>2, <2>1 DEF Coming
<1>6. OverrunFull'
  BY <1>1 DEF Flow, OverrunFull
<1>7. Awake'
  <2> SUFFICES ASSUME \A u \in Threads : stage'[u] = "idle" PROVE (excused' \/ shown' = version') /\ missed'
    BY DEF Awake
  <2>1. \A u \in Threads : stage[u] # "update"
    BY <1>1, <1>2
  <2> QED BY <1>1, <1>3, <2>1, NothingComes
<1> QED BY <1>4, <1>5, <1>6, <1>7 DEF Flow

LEMMA FlowReceiveNothing == ASSUME Types, Flow, NEW t \in Threads, ReceiveNothing(t) PROVE Flow'
<1>1. /\ UNCHANGED <<version, job, shown, excused, queue, socket, message, missed, ready>> /\ stage[t] = "receive"
      /\ ~overrun' /\ (overrun \/ queue = <<>> \/ socket = "stopped")
  BY DEF ReceiveNothing, kernelVars, listVars, user
<1>2. \A u \in Threads : stage'[u] = IF u = t THEN "idle" ELSE stage[u]
  BY StageBecomes DEF ReceiveNothing, Stages
<1>3. UpdatesFirst'
  BY <1>1, <1>2 DEF Flow, UpdatesFirst, At, Running
<1>4. ChangesCome'
  <2> SUFFICES ASSUME ~excused, NEW v \in shown + 1..version PROVE Coming(v)'
    BY <1>1 DEF ChangesCome
  <2>1. Coming(v)
    BY DEF Flow, ChangesCome
  <2> QED BY <1>1, <1>2, <2>1 DEF Coming
<1>5. OverrunFull'
  BY <1>1 DEF OverrunFull
<1>6. Awake'
  <2> SUFFICES ASSUME \A u \in Threads : stage'[u] = "idle", socket = "started"
               PROVE  (excused \/ shown = version) /\ (missed \/ queue = <<>>)
    BY <1>1 DEF Awake
  <2>1. \A u \in Threads : stage[u] # "update"
    BY <1>1, <1>2
  <2>2. CASE overrun
    BY <2>2 DEF Flow, OverrunFull
  <2>3. CASE queue = <<>>
    BY <2>1, <2>3, NothingComes
  <2> QED BY <1>1, <2>2, <2>3
<1> QED BY <1>3, <1>4, <1>5, <1>6 DEF Flow

LEMMA FlowStep == Types /\ Flow /\ [Next]_vars => Flow'
<1> SUFFICES ASSUME Types, Flow, [Next]_vars PROVE Flow'
  OBVIOUS
<1> USE DEF Flow
<1>1. CASE KernelStep
  BY <1>1, FlowKernel
<1>2. CASE Construct
  <2>1. UNCHANGED <<version, job, shown, excused, queue, overrun, ready, stage, message, missed>> /\ socket' = "bound" /\ ~overrun
    BY <1>2 DEF Construct, kernelVars, listVars, user, OverrunFull
  <2> QED BY <2>1 DEF UpdatesFirst, ChangesCome, Coming, OverrunFull, Awake, At, Running
<1>3. ASSUME NEW t \in Threads, Start(t) PROVE Flow'
  <2>1. UNCHANGED <<version, job, shown, excused, queue, overrun, message>> /\ socket' = "started" /\ (missed => missed') /\ stage[t] = "idle"
    BY <1>3 DEF Start, Complete, Draining, kernelVars
  <2>2. \A u \in Threads : stage'[u] = IF u = t THEN "receive" ELSE stage[u]
    BY <1>3, StageBecomes DEF Start, Stages
  <2>3. UpdatesFirst'
    BY <2>1, <2>2 DEF UpdatesFirst, At, Running
  <2>4. ChangesCome'
    <3> SUFFICES ASSUME ~excused, NEW v \in shown + 1..version PROVE Coming(v)'
      BY <2>1 DEF ChangesCome
    <3>1. Coming(v)
      BY DEF ChangesCome
    <3> QED BY <2>1, <2>2, <3>1 DEF Coming
  <2>5. OverrunFull'
    BY <2>1 DEF OverrunFull
  <2>6. Awake'
    <3>1. stage'[t] # "idle"
      BY <2>2
    <3> QED BY <3>1 DEF Awake
  <2> QED BY <2>3, <2>4, <2>5, <2>6
<1>4. CASE Stop \/ StartUnwatched
  <2>1. UNCHANGED <<job, shown, stage, message>> /\ socket' = "stopped" /\ excused' /\ ~overrun'
    BY <1>4 DEF Stop, StartUnwatched, Complete, Deaf
  <2> QED BY <2>1 DEF UpdatesFirst, ChangesCome, OverrunFull, Awake, At, Running
<1>5. CASE Wake
  <2>1. UNCHANGED <<version, job, shown, excused, queue, overrun, socket, message, missed>> /\ stage[Loop] = "idle"
    BY <1>5 DEF Wake, Draining, kernelVars, listVars, user
  <2>2. \A u \in Threads : stage'[u] = IF u = Loop THEN "receive" ELSE stage[u]
    BY <1>5, LoopAssumption, StageBecomes DEF Wake, Stages
  <2>3. UpdatesFirst'
    BY <2>1, <2>2 DEF UpdatesFirst, At, Running
  <2>4. ChangesCome'
    <3> SUFFICES ASSUME ~excused, NEW v \in shown + 1..version PROVE Coming(v)'
      BY <2>1 DEF ChangesCome
    <3>1. Coming(v)
      BY DEF ChangesCome
    <3> QED BY <2>1, <2>2, <3>1 DEF Coming
  <2>5. OverrunFull'
    BY <2>1 DEF OverrunFull
  <2>6. Awake'
    <3>1. stage'[Loop] # "idle"
      BY <2>2, LoopAssumption
    <3> QED BY <3>1, LoopAssumption DEF Awake
  <2> QED BY <2>3, <2>4, <2>5, <2>6
<1>6. CASE WakeStopped
  <2>1. UNCHANGED <<version, job, shown, queue, overrun, socket, stage, message>> /\ missed' /\ excused'
    BY <1>6 DEF WakeStopped, kernelVars
  <2> QED BY <2>1 DEF UpdatesFirst, ChangesCome, OverrunFull, Awake, At, Running
<1>7. ASSUME NEW t \in Threads, ReceiveNothing(t) PROVE Flow'
  BY <1>7, FlowReceiveNothing
<1>8. ASSUME NEW t \in Threads, Receive(t) PROVE Flow'
  BY <1>8, FlowReceive
<1>9. ASSUME NEW t \in Threads, UpdateReturns(t) PROVE Flow'
  BY <1>9, FlowUpdateReturns
<1>10. ASSUME NEW t \in Threads, Callback(t) \/ CallbackThrows(t) PROVE Flow'
  BY <1>10, FlowCallback
<1>11. ASSUME NEW t \in Threads, UserUpdate(t) PROVE Flow'
  <2>0. job' = [job EXCEPT ![t] = Called] /\ stage[t] = "idle"
        /\ UNCHANGED <<version, shown, excused, queue, overrun, ready, socket, stage, message, missed>>
    BY <1>11 DEF UserUpdate, UpdateCall, Called, Draining, kernelVars, netlinkVars, user
  <2>1. \A s \in Threads : s # t => job'[s] = job[s]
    BY <2>0, JobBecomes
  <2> QED BY <2>0, <2>1 DEF UpdatesFirst, ChangesCome, Coming, OverrunFull, Awake, At, Running
<1>12. ASSUME NEW t \in Threads, UpdateStep(t) PROVE Flow'
  BY <1>12, FlowUpdate
<1>13. CASE UNCHANGED vars
  <2>1. UNCHANGED <<version, job, shown, excused, queue, overrun, ready, socket, stage, message, missed>>
    BY <1>13 DEF vars, kernelVars, listVars, netlinkVars, user
  <2> QED BY <2>1 DEF UpdatesFirst, ChangesCome, Coming, OverrunFull, Awake, At, Running
<1> QED BY <1>1, <1>2, <1>3, <1>4, <1>5, <1>6, <1>7, <1>8, <1>9, <1>10, <1>11, <1>12, <1>13 DEF Next

LEMMA FlowAlways == Spec => [](Types /\ Flow)
<1> QED BY TypesAlways, FlowInit, FlowStep, PTL DEF Spec

(* The callback finds a list at least as new as the change it is told       *)
(* about, however many threads are in update() and whatever the kernel does *)
(* meanwhile: processNetlinkTelegram() updates the list first.              *)
THEOREM ListIsNewEnough == Spec => []ListBeforeEvent
<1>1. Flow => ListBeforeEvent
  BY DEF Flow, UpdatesFirst, ListBeforeEvent
<1> QED BY <1>1, FlowAlways, PTL

-----------------------------------------------------------------------------
(* Link local addresses *)

Sorted(v4) == v4 # <<>> /\ Head(v4) \in Apipa => \A n \in DOMAIN v4 : v4[n] \in Apipa
SortedList(list) == \A i \in DOMAIN list : Sorted(list[i].v4)

ApipaInv == SortedList(adapters) /\ \A t \in Threads : Running(t) => SortedList(job[t].map)

LEMMA SortedStays ==
  ASSUME NEW v4 \in Seq(Addrs), NEW a \in Kind, Sorted(v4)
  PROVE  Sorted(WithAddress(v4, a))
<1> DEFINE w == WithAddress(v4, a)
<1>0. Len(v4) \in Nat /\ DOMAIN v4 = 1..Len(v4) /\ w \in Seq(Addrs)
  BY LenProperties, WithAddressIs
<1>1. CASE a = "link"
  BY <1>1, WithAddressIs
<1>2. CASE a \in Apipa
  <2>1. /\ Len(w) = Len(v4) + 1 /\ w[Len(v4) + 1] = a
        /\ \A n \in 1..Len(v4) : w[n] = v4[n]
    BY <1>2, WithAddressIs
  <2> HIDE DEF w
  <2>2. DOMAIN w = 1..Len(v4) + 1
    BY <1>0, <2>1, LenProperties
  <2> SUFFICES ASSUME w # <<>>, Head(w) \in Apipa, NEW n \in 1..Len(v4) + 1 PROVE w[n] \in Apipa
    BY <2>2 DEF Sorted, w
  <2>3. Head(w) = w[1]
    BY <1>0, Takes
  <2>4. CASE n = Len(v4) + 1
    BY <1>2, <2>1, <2>4
  <2>5. CASE n \in 1..Len(v4)
    <3>1. v4 # <<>> /\ 1 \in 1..Len(v4)
      BY <1>0, <2>5
    <3>2. Head(v4) = v4[1]
      BY <3>1, Takes
    <3>3. Head(v4) \in Apipa
      BY <2>1, <2>3, <3>1, <3>2
    <3> QED BY <1>0, <2>1, <2>5, <3>1, <3>3 DEF Sorted
  <2> QED BY <1>0, <2>4, <2>5
<1>3. CASE a \in Addrs \ Apipa
  <2>1. w[1] = a /\ Len(w) = Len(v4) + 1
    BY <1>3, WithAddressIs
  <2> HIDE DEF w
  <2>2. w # <<>> => Head(w) = w[1]
    BY <1>0, Takes
  <2>3. Sorted(w)
    BY <1>3, <2>1, <2>2 DEF Sorted
  <2> QED BY <2>3 DEF w
<1> QED BY <1>1, <1>2, <1>3 DEF Kind

LEMMA SortedListStays ==
  ASSUME NEW list \in Lists, NEW index \in Indices, NEW i \in Ifs, NEW a \in Kind,
         SortedList(list)
  PROVE  SortedList(Extended(list, index, i, a))
<1> DEFINE x == Extended(list, index, i, a)
<1>0. Extends(x, list, index, i, a)
  BY ExtendedIs
<1> HIDE DEF x
<1>1. /\ DOMAIN x = DOMAIN list \cup {index}
      /\ \A n \in DOMAIN list \ {index} : x[n] = list[n]
      /\ index \in DOMAIN list => x[index].v4 = WithAddress(list[index].v4, a)
      /\ index \notin DOMAIN list => x[index].v4 = WithAddress(<<>>, a)
  BY <1>0 DEF Extends
<1>2. CASE index \in DOMAIN list
  <2>1. list[index].v4 \in Seq(Addrs) /\ Sorted(list[index].v4)
    BY <1>2, ListIs DEF SortedList
  <2>2. Sorted(WithAddress(list[index].v4, a))
    BY <2>1, SortedStays
  <2>3. SortedList(x)
    BY <1>1, <1>2, <2>2 DEF SortedList
  <2> QED BY <2>3 DEF x
<1>3. CASE index \notin DOMAIN list
  <2>1. <<>> \in Seq(Addrs) /\ Sorted(<<>>)
    BY DEF Sorted
  <2>2. Sorted(WithAddress(<<>>, a))
    BY <2>1, SortedStays
  <2>3. SortedList(x)
    BY <1>1, <1>3, <2>2 DEF SortedList
  <2> QED BY <2>3 DEF x
<1> QED BY <1>2, <1>3

LEMMA ApipaUpdate == ASSUME Types, ApipaInv, NEW t \in Threads, UpdateStep(t) PROVE ApipaInv'
<1>0. Update(t)
  BY DEF UpdateStep
<1>1. ASSUME NEW j \in {Idle} \cup Working, job' = [job EXCEPT ![t] = j], j \in Working => SortedList(j.map),
             SortedList(adapters')
      PROVE  ApipaInv'
  <2>1. \A s \in Threads : job'[s] = IF s = t THEN j ELSE job[s]
    BY <1>1, JobBecomes
  <2>2. Idle.at = "idle"
    BY DEF Idle
  <2>3. \A s \in Threads : job'[s].at \in {"entry", "index"} => SortedList(job'[s].map)
    BY <1>1, <2>1, <2>2 DEF ApipaInv, Running
  <2> QED BY <1>1, <2>3 DEF ApipaInv, Running, SortedList
<1>2. CASE GetIfAddrs(t)
  <2>1. PICK j \in Working : job' = [job EXCEPT ![t] = j] /\ j.map = <<>>
    BY <1>2, GetIfAddrsIs
  <2>2. SortedList(j.map)
    BY <2>1, EmptyList DEF SortedList
  <2>3. SortedList(adapters')
    BY <1>2 DEF GetIfAddrs, ApipaInv
  <2> QED BY <1>1, <2>1, <2>2, <2>3
<1>3. CASE GetIfAddrsFails(t)
  <2>1. SortedList(adapters') /\ job' = [job EXCEPT ![t] = Idle]
    BY <1>3 DEF GetIfAddrsFails, ApipaInv
  <2>2. Idle \notin Working
    BY DEF Idle, Working
  <2> QED BY <1>1, <2>1, <2>2
<1>4. CASE GetHardwareInfo(t)
  <2>1. PICK j \in Working : job' = [job EXCEPT ![t] = j] /\ j.map = job[t].map
    BY <1>4, GetHardwareInfoIs
  <2>2. SortedList(job[t].map)
    BY <1>4, GetHardwareInfoIs DEF ApipaInv
  <2>3. SortedList(adapters')
    BY <1>4 DEF GetHardwareInfo, ApipaInv
  <2> QED BY <1>1, <2>1, <2>2, <2>3
<1>5. CASE AddEntry(t)
  <2>1. /\ Running(t) /\ Head(job[t].rest)[1] \in Hardware /\ Head(job[t].rest) \in EntryType
    BY <1>5, AddEntryIs
  <2>2. PICK j \in Working, index \in Indices :
          /\ job' = [job EXCEPT ![t] = j]
          /\ j.map = Extended(job[t].map, index, Head(job[t].rest)[1], Head(job[t].rest)[2])
    BY <1>5, AddEntryIs
  <2>3. SortedList(job[t].map) /\ job[t].map \in Lists
    BY <2>1, RunningIs DEF ApipaInv
  <2>4. Head(job[t].rest)[1] \in Ifs /\ Head(job[t].rest)[2] \in Kind
    BY <2>1 DEF EntryType
  <2>5. SortedList(j.map)
    BY <2>2, <2>3, <2>4, SortedListStays
  <2>6. SortedList(adapters')
    BY <1>5 DEF AddEntry, ApipaInv
  <2> QED BY <1>1, <2>2, <2>5, <2>6
<1>6. CASE Store(t)
  <2>1. Running(t) /\ job' = [job EXCEPT ![t] = Idle] /\ adapters' = job[t].map
    BY <1>6 DEF Store, At, Running
  <2>2. Idle \notin Working /\ SortedList(adapters')
    BY <2>1 DEF Idle, Working, ApipaInv
  <2> QED BY <1>1, <2>1, <2>2
<1> QED BY <1>0, <1>2, <1>3, <1>4, <1>5, <1>6 DEF Update

(* What the other steps do to the list and to the jobs: a job may start. *)
LEMMA ListKept ==
  ASSUME Types, [Next]_vars
  PROVE  \/ \E t \in Threads : UpdateStep(t)
         \/ /\ UNCHANGED <<adapters, shown>>
            /\ \A t \in Threads : Running(t)' => Running(t) /\ job'[t] = job[t]
<1> USE DEF Running
<1>1. ASSUME NEW t \in Threads, job' = [job EXCEPT ![t] = Called]
      PROVE  \A s \in Threads : Running(s)' => Running(s) /\ job'[s] = job[s]
  <2>1. \A s \in Threads : job'[s] = IF s = t THEN Called ELSE job[s]
    BY <1>1, JobBecomes
  <2> QED BY <2>1 DEF Called
<1>2. CASE KernelStep
  BY <1>2, KernelReports DEF Report
<1>3. CASE Construct \/ StartUnwatched \/ Stop \/ Wake \/ WakeStopped
  BY <1>3 DEF Construct, StartUnwatched, Complete, Stop, Wake, WakeStopped, listVars
<1>4. ASSUME NEW t \in Threads,
             Start(t) \/ ReceiveNothing(t) \/ UpdateReturns(t) \/ Callback(t) \/ CallbackThrows(t)
      PROVE  UNCHANGED <<adapters, job, shown>>
  BY <1>4 DEF Start, Complete, ReceiveNothing, UpdateReturns, Callback, CallbackThrows, listVars
<1>7. ASSUME NEW t \in Threads, Receive(t)
      PROVE  UNCHANGED <<adapters, shown>> /\ \A s \in Threads : Running(s)' => Running(s) /\ job'[s] = job[s]
  BY <1>1, <1>7 DEF Receive, Take, UpdateCall, Called
<1>5. ASSUME NEW t \in Threads, UserUpdate(t)
      PROVE  UNCHANGED <<adapters, shown>> /\ \A s \in Threads : Running(s)' => Running(s) /\ job'[s] = job[s]
  BY <1>1, <1>5 DEF UserUpdate, UpdateCall, Called
<1>6. CASE UNCHANGED vars
  BY <1>6 DEF vars, listVars
<1> QED BY <1>2, <1>3, <1>4, <1>5, <1>6, <1>7 DEF Next

LEMMA ApipaStep == Types /\ ApipaInv /\ [Next]_vars => ApipaInv'
<1> SUFFICES ASSUME Types, ApipaInv, [Next]_vars PROVE ApipaInv'
  OBVIOUS
<1>1. CASE \E t \in Threads : UpdateStep(t)
  BY <1>1, ApipaUpdate
<1>2. CASE UNCHANGED <<adapters, shown>> /\ \A t \in Threads : Running(t)' => Running(t) /\ job'[t] = job[t]
  BY <1>2 DEF ApipaInv, SortedList
<1> QED BY <1>1, <1>2, ListKept

LEMMA ApipaInit == Init => ApipaInv
<1> SUFFICES ASSUME Init PROVE ApipaInv
  OBVIOUS
<1>1. \A t \in Threads : ~Running(t)
  BY DEF Init, ListInit, Running, Idle
<1>2. Sorted(<<>>)
  BY DEF Sorted
<1>3. adapters = [i \in {i \in Hardware : Exists(i)} |-> [name |-> i, v4 |-> <<>>]]
  BY DEF Init, ListInit
<1> QED BY <1>1, <1>2, <1>3 DEF ApipaInv, SortedList

(* The first address of an adapter is link local only if all of them are,   *)
(* in whatever order the kernel reports them: push_back for link local      *)
(* addresses and push_front for the others.                                 *)
THEOREM ApipaAtTheEnd == Spec => []ApipaLast
<1>1. ApipaInv => ApipaLast
  BY DEF ApipaInv, SortedList, Sorted, ApipaLast
<1> QED BY <1>1, TypesAlways, ApipaInit, ApipaStep, PTL DEF Spec

-----------------------------------------------------------------------------
(* A list made from what the kernel has now *)

(* The adapters of map have the entries that are not in rest. *)
Handled(rest, i) == {a \in Addrs : InKernel(kernel, i, a) /\ <<i, a>> \notin ToSet(rest)}

InOrder(rest) ==
  /\ ToSet(rest) \subseteq Entry
  /\ \A j, k \in 1..Len(rest) : j < k => Precedes(rest[j], rest[k])
  /\ \A d \in ToSet(rest), e \in Entry : Precedes(d, e) => e \in ToSet(rest)

Exact(rest, map) ==
  /\ InOrder(rest)
  /\ DOMAIN map = {i \in Hardware : Exists(i) /\ <<i, "link">> \notin ToSet(rest)}
  /\ \A i \in DOMAIN map :
       /\ map[i].name = i
       /\ ToSet(map[i].v4) = Handled(rest, i)
       /\ \A m, n \in 1..Len(map[i].v4) : m < n => Ahead(kernel[i], map[i].v4[m], map[i].v4[n])

JobsExact ==
  \A t \in Threads : Running(t) /\ job[t].clean /\ job[t].base = version => Exact(job[t].rest, job[t].map)
ListExact == ~excused /\ shown = version => ShowsKernel(adapters)
ExactInv == JobsExact /\ ListExact

LEMMA EntryIs ==
  ASSUME NEW i \in Ifs
  PROVE  /\ <<i, "link">> \in Entry <=> Exists(i)
         /\ \A a \in Addrs : <<i, a>> \in Entry <=> InKernel(kernel, i, a)
<1>1. <<i, "link">> \in Ifs \X Kind
  BY DEF Kind
<1>2. <<i, "link">> \in Entry <=> Exists(i)
  BY <1>1 DEF Entry, Kind
<1>3. ASSUME NEW a \in Addrs PROVE <<i, a>> \in Entry <=> InKernel(kernel, i, a)
  <2>1. <<i, a>> \in Ifs \X Kind /\ a # "link"
    BY AddrsAssumption DEF Kind
  <2> QED BY <2>1 DEF Entry, Kind, InKernel, Exists
<1> QED BY <1>2, <1>3

LEMMA EntryParts ==
  ASSUME NEW e \in Entry
  PROVE  /\ e = <<e[1], e[2]>> /\ e[1] \in Ifs /\ e[2] \in Kind /\ Exists(e[1])
         /\ e[2] = "link" \/ (e[2] \in Addrs /\ InKernel(kernel, e[1], e[2]))
<1>1. e \in Ifs \X Kind
  BY DEF Entry, Kind
<1>2. e = <<e[1], e[2]>> /\ e[1] \in Ifs /\ e[2] \in Kind
  BY <1>1
<1>3. Exists(e[1]) /\ (e[2] = "link" \/ Contains(kernel[e[1]], e[2]))
  BY DEF Entry
<1> QED BY <1>2, <1>3 DEF Kind, InKernel, Exists

(* The order of the addresses of an interface *)
LEMMA BeforeIs ==
  ASSUME Types, NEW i \in Ifs, NEW a, NEW b, InKernel(kernel, i, a), InKernel(kernel, i, b)
  PROVE  /\ ~(Before(kernel[i], a, b) /\ Before(kernel[i], b, a))
         /\ a # b => Before(kernel[i], a, b) \/ Before(kernel[i], b, a)
         /\ a = b => ~Before(kernel[i], a, b)
<1> DEFINE s == kernel[i]
<1>1. s \in Seq(Addrs) /\ Exists(i)
  BY DEF Types, ListTypes, InKernel, Exists
<1>2. DOMAIN s = 1..Len(s) /\ Len(s) \in Nat
  BY <1>1, LenProperties
<1>3. \A m, n \in 1..Len(s) : m # n => s[m] # s[n]
  BY <1>1, <1>2 DEF Types, KernelInv, Distinct
<1>4. PICK m \in 1..Len(s) : s[m] = a
  BY DEF InKernel, Contains
<1>5. PICK n \in 1..Len(s) : s[n] = b
  BY DEF InKernel, Contains
<1> HIDE DEF s
<1>6. Before(s, a, b) <=> m < n
  BY <1>2, <1>3, <1>4, <1>5 DEF Before
<1>7. Before(s, b, a) <=> n < m
  BY <1>2, <1>3, <1>4, <1>5 DEF Before
<1>8. a = b <=> m = n
  BY <1>3, <1>4, <1>5
<1>9. m \in Int /\ n \in Int
  BY <1>2
<1>10. ~(m < n /\ n < m) /\ (m # n => m < n \/ n < m) /\ (m = n => ~(m < n))
  BY <1>9
<1> QED BY <1>6, <1>7, <1>8, <1>10 DEF s

(* Entries do not precede each other. *)
LEMMA PrecedesIs ==
  ASSUME Types, NEW d \in Entry, NEW e \in Entry
  PROVE  /\ ~(Precedes(d, e) /\ Precedes(e, d))
         /\ ~Precedes(d, d)
<1>1. /\ d = <<d[1], d[2]>> /\ d[1] \in Ifs /\ (d[2] = "link" \/ (d[2] # "link" /\ InKernel(kernel, d[1], d[2])))
      /\ e = <<e[1], e[2]>> /\ e[1] \in Ifs /\ (e[2] = "link" \/ (e[2] # "link" /\ InKernel(kernel, e[1], e[2])))
  BY EntryParts, AddrsAssumption
<1>2. d[1] \in Int /\ e[1] \in Int
  BY <1>1, IfsAssumption
<1>3. ~(d[1] < e[1] /\ e[1] < d[1]) /\ ~(d[1] < d[1]) /\ (d[1] = e[1] => ~(d[1] < e[1]) /\ ~(e[1] < d[1]))
  BY <1>2
<1>4. CASE d[2] = "link"
  BY <1>3, <1>4 DEF Precedes
<1>5. CASE d[2] # "link"
  <2>1. InKernel(kernel, d[1], d[2])
    BY <1>1, <1>5
  <2>2. ~Before(kernel[d[1]], d[2], d[2])
    BY <1>1, <2>1, BeforeIs
  <2>3. ~Precedes(d, d)
    BY <1>3, <1>5, <2>2 DEF Precedes
  <2>4. CASE d[1] = e[1] /\ e[2] # "link"
    <3>1. ~(Before(kernel[d[1]], d[2], e[2]) /\ Before(kernel[d[1]], e[2], d[2]))
      BY <1>1, <2>1, <2>4, BeforeIs
    <3> QED BY <1>3, <1>5, <2>3, <2>4, <3>1 DEF Precedes
  <2>5. CASE ~(d[1] = e[1] /\ e[2] # "link")
    BY <1>3, <1>5, <2>3, <2>5 DEF Precedes
  <2> QED BY <2>4, <2>5
<1> QED BY <1>4, <1>5

(* Entries are taken off in order. *)
LEMMA RestShrinks ==
  ASSUME Types, NEW rest \in Seq(EntryType), rest # <<>>, InOrder(rest)
  PROVE  /\ Tail(rest) \in Seq(EntryType) /\ Head(rest) \in Entry
         /\ ToSet(rest) = ToSet(Tail(rest)) \cup {Head(rest)}
         /\ Head(rest) \notin ToSet(Tail(rest))
         /\ \A e \in ToSet(Tail(rest)) : Precedes(Head(rest), e)
         /\ InOrder(Tail(rest))
<1> DEFINE h == Head(rest)
           q == Tail(rest)
<1>1. /\ h = rest[1] /\ q \in Seq(EntryType) /\ Len(rest) \in Nat \ {0} /\ Len(q) = Len(rest) - 1
      /\ \A n \in 1..Len(q) : q[n] = rest[n + 1]
      /\ ToSet(rest) = {h} \cup ToSet(q)
  BY Takes
<1>2. DOMAIN q = 1..Len(q)
  BY <1>1, LenProperties
<1> HIDE DEF h, q
<1>3. ToSet(rest) \subseteq Entry /\ h \in Entry /\ ToSet(q) \subseteq Entry
  BY <1>1 DEF InOrder
<1>4. \A n \in 1..Len(q) : n + 1 \in 1..Len(rest) /\ 1 \in 1..Len(rest) /\ 1 < n + 1
  BY <1>1
<1>5. \A n \in 1..Len(q) : Precedes(h, q[n])
  BY <1>1, <1>4 DEF InOrder
<1>6. \A e \in ToSet(q) : Precedes(h, e)
  BY <1>2, <1>5 DEF ToSet
<1>7. h \notin ToSet(q)
  BY <1>3, <1>6, PrecedesIs
<1>8. \A j, k \in 1..Len(q) : j < k => Precedes(q[j], q[k])
  <2> SUFFICES ASSUME NEW j \in 1..Len(q), NEW k \in 1..Len(q), j < k PROVE Precedes(q[j], q[k])
    OBVIOUS
  <2>1. j + 1 \in 1..Len(rest) /\ k + 1 \in 1..Len(rest) /\ j + 1 < k + 1
    BY <1>1
  <2>2. Precedes(rest[j + 1], rest[k + 1])
    BY <2>1 DEF InOrder
  <2> QED BY <1>1, <2>2
<1>9. ASSUME NEW d \in ToSet(q), NEW e \in Entry, Precedes(d, e) PROVE e \in ToSet(q)
  <2>1. e \in ToSet(rest)
    BY <1>1, <1>9 DEF InOrder
  <2>2. e # h
    BY <1>3, <1>6, <1>9, PrecedesIs
  <2> QED BY <1>1, <2>1, <2>2
<1>10. InOrder(q)
  BY <1>3, <1>8, <1>9 DEF InOrder
<1> QED BY <1>1, <1>3, <1>6, <1>7, <1>10 DEF h, q

LEMMA ExactStart ==
  ASSUME Types, NEW rest \in Entries
  PROVE  Exact(rest, <<>>)
<1>1. /\ rest \in Seq(EntryType) /\ ToSet(rest) = Entry
      /\ \A j, k \in DOMAIN rest : j < k => Precedes(rest[j], rest[k])
  BY EntriesAre
<1>2. DOMAIN rest = 1..Len(rest)
  BY <1>1, LenProperties
<1>3. InOrder(rest)
  BY <1>1, <1>2 DEF InOrder
<1>4. \A i \in Hardware : ~(Exists(i) /\ <<i, "link">> \notin ToSet(rest))
  BY <1>1, EntryIs, IfsAssumption
<1>5. DOMAIN <<>> = {i \in Hardware : Exists(i) /\ <<i, "link">> \notin ToSet(rest)}
  BY <1>4, EmptyList
<1> QED BY <1>3, <1>5, EmptyList DEF Exact

LEMMA ExactSkip ==
  ASSUME Types, NEW rest \in Seq(EntryType), rest # <<>>, NEW map \in Lists, Exact(rest, map),
         Head(rest)[1] \notin Hardware
  PROVE  Exact(Tail(rest), map)
<1> DEFINE h == Head(rest)
           q == Tail(rest)
<1>0. InOrder(rest)
  BY DEF Exact
<1>1. h \in Entry /\ ToSet(rest) = ToSet(q) \cup {h} /\ h \notin ToSet(q) /\ InOrder(q)
  BY <1>0, RestShrinks
<1>2. \A i \in Hardware : \A a : <<i, a>> # h
  <2> SUFFICES ASSUME NEW i \in Hardware, NEW a, <<i, a>> = h PROVE FALSE
    OBVIOUS
  <2>1. h[1] = i
    OBVIOUS
  <2> QED BY <2>1
<1> HIDE DEF h, q
<1>3. \A i \in Hardware : \A a : <<i, a>> \in ToSet(q) <=> <<i, a>> \in ToSet(rest)
  BY <1>1, <1>2
<1>4. DOMAIN map = {i \in Hardware : Exists(i) /\ <<i, "link">> \notin ToSet(q)}
  BY <1>3 DEF Exact
<1>5. \A i \in Hardware : Handled(q, i) = Handled(rest, i)
  BY <1>3 DEF Handled
<1>6. \A i \in DOMAIN map : i \in Hardware
  BY <1>4
<1> QED BY <1>1, <1>4, <1>5, <1>6 DEF Exact, q

(* An address comes after those that were handled before. *)
LEMMA ExactAdd ==
  ASSUME Types, NEW rest \in Seq(EntryType), rest # <<>>, NEW map \in Lists, Exact(rest, map),
         NEW i \in Hardware, NEW a, Head(rest) = <<i, a>>
  PROVE  Exists(i) /\ Exact(Tail(rest), Extended(map, i, i, a))
<1> DEFINE h == Head(rest)
           q == Tail(rest)
           x == Extended(map, i, i, a)
<1>0. InOrder(rest)
  BY DEF Exact
<1>1. /\ h \in Entry /\ ToSet(rest) = ToSet(q) \cup {h} /\ h \notin ToSet(q) /\ InOrder(q)
      /\ \A e \in ToSet(q) : Precedes(h, e)
  BY <1>0, RestShrinks
<1>2. h = <<i, a>> /\ h[1] = i /\ h[2] = a
  OBVIOUS
<1>3. i \in Ifs /\ a \in Kind /\ Exists(i) /\ (a = "link" \/ (a \in Addrs /\ InKernel(kernel, i, a)))
  BY <1>1, <1>2, EntryParts
<1>4. Extends(x, map, i, i, a)
  <2>1. i \in Indices
    BY DEF Indices
  <2> QED BY <1>3, <2>1, ExtendedIs
<1> HIDE DEF h, q, x
<1>5. /\ DOMAIN x = DOMAIN map \cup {i} /\ x \in Lists
      /\ \A n \in DOMAIN map \ {i} : x[n] = map[n]
      /\ i \in DOMAIN map => x[i].name = map[i].name /\ x[i].v4 = WithAddress(map[i].v4, a)
      /\ i \notin DOMAIN map => x[i].name = i /\ x[i].v4 = WithAddress(<<>>, a)
  BY <1>4 DEF Extends
<1>6. /\ DOMAIN map = {n \in Hardware : Exists(n) /\ <<n, "link">> \notin ToSet(rest)}
      /\ \A n \in DOMAIN map :
           /\ map[n].name = n
           /\ ToSet(map[n].v4) = Handled(rest, n)
           /\ \A k, l \in 1..Len(map[n].v4) : k < l => Ahead(kernel[n], map[n].v4[k], map[n].v4[l])
  BY DEF Exact
<1>7. \A n, b : <<n, b>> # <<i, a>> => (<<n, b>> \in ToSet(q) <=> <<n, b>> \in ToSet(rest))
  BY <1>1, <1>2
<1>8. \A n \in Hardware : n # i => Handled(q, n) = Handled(rest, n)
  <2> SUFFICES ASSUME NEW n \in Hardware, n # i PROVE Handled(q, n) = Handled(rest, n)
    OBVIOUS
  <2>1. \A b \in Addrs : <<n, b>> # <<i, a>>
    OBVIOUS
  <2> QED BY <1>7, <2>1 DEF Handled
<1>9. ASSUME NEW n \in DOMAIN x, n # i
      PROVE  /\ x[n].name = n
             /\ ToSet(x[n].v4) = Handled(q, n)
             /\ \A k, l \in 1..Len(x[n].v4) : k < l => Ahead(kernel[n], x[n].v4[k], x[n].v4[l])
  <2>1. n \in DOMAIN map /\ n \in Hardware /\ x[n] = map[n]
    BY <1>5, <1>6, <1>9
  <2> QED BY <1>6, <1>8, <1>9, <2>1
<1>10. CASE a = "link"
  <2>1. i \notin DOMAIN map
    BY <1>1, <1>2, <1>6, <1>10
  <2>2. x[i].name = i /\ x[i].v4 = <<>>
    BY <1>5, <1>10, <2>1 DEF WithAddress
  <2>3. Handled(q, i) = {}
    <3> SUFFICES ASSUME NEW b \in Addrs, InKernel(kernel, i, b) PROVE <<i, b>> \in ToSet(q)
      BY DEF Handled
    <3>1. <<i, b>> \in Entry /\ b # "link" /\ <<i, b>>[1] = i /\ <<i, b>>[2] = b
      BY <1>3, EntryIs, AddrsAssumption
    <3>2. Precedes(h, <<i, b>>)
      BY <1>2, <1>10, <3>1 DEF Precedes
    <3>3. <<i, b>> \in ToSet(rest)
      BY <1>0, <1>1, <3>1, <3>2 DEF InOrder
    <3>4. <<i, b>> # <<i, a>>
      BY <1>10, <3>1
    <3> QED BY <1>7, <3>3, <3>4
  <2>4. DOMAIN x = {n \in Hardware : Exists(n) /\ <<n, "link">> \notin ToSet(q)}
    <3>1. \A n \in Hardware : n # i => (<<n, "link">> \in ToSet(q) <=> <<n, "link">> \in ToSet(rest))
      BY <1>7
    <3>2. <<i, "link">> \notin ToSet(q)
      BY <1>1, <1>2, <1>10
    <3> QED BY <1>3, <1>5, <1>6, <3>1, <3>2
  <2>5. ToSet(<<>>) = {} /\ 1..Len(<<>>) = {}
    BY DEF ToSet
  <2>6. /\ x[i].name = i
        /\ ToSet(x[i].v4) = Handled(q, i)
        /\ \A k, l \in 1..Len(x[i].v4) : k < l => Ahead(kernel[i], x[i].v4[k], x[i].v4[l])
    BY <2>2, <2>3, <2>5
  <2>7. Exact(q, x)
    BY <1>1, <1>9, <2>4, <2>6 DEF Exact
  <2> QED BY <1>3, <2>7 DEF q, x
<1>11. CASE a \in Addrs /\ InKernel(kernel, i, a)
  <2>0. a # "link"
    BY <1>11, AddrsAssumption
  <2>1. <<i, "link">> \notin ToSet(rest)
    <3>1. <<i, "link">> # h
      BY <1>2, <2>0
    <3>2. ~Precedes(h, <<i, "link">>)
      BY <1>2, <2>0 DEF Precedes
    <3> QED BY <1>1, <3>1, <3>2
  <2>2. i \in DOMAIN map
    BY <1>3, <1>6, <2>1
  <2> DEFINE v == map[i].v4
             w == x[i].v4
  <2>3. /\ v \in Seq(Addrs) /\ w = WithAddress(v, a) /\ x[i].name = i /\ ToSet(v) = Handled(rest, i)
        /\ \A k, l \in 1..Len(v) : k < l => Ahead(kernel[i], v[k], v[l])
    BY <1>5, <1>6, <2>2, ListIs
  <2>4. DOMAIN x = {n \in Hardware : Exists(n) /\ <<n, "link">> \notin ToSet(q)}
    <3>1. \A n \in Hardware : <<n, "link">> # <<i, a>>
      BY <2>0
    <3>2. \A n \in Hardware : <<n, "link">> \in ToSet(q) <=> <<n, "link">> \in ToSet(rest)
      BY <1>7, <3>1
    <3>3. DOMAIN x = DOMAIN map
      BY <1>5, <2>2
    <3> QED BY <1>6, <3>2, <3>3
  <2>5. Handled(q, i) = Handled(rest, i) \cup {a}
    <3>1. ASSUME NEW b \in Addrs, b # a PROVE <<i, b>> \in ToSet(q) <=> <<i, b>> \in ToSet(rest)
      <4>1. <<i, b>> # <<i, a>>
        BY <3>1
      <4> QED BY <1>7, <4>1
    <3>2. <<i, a>> \notin ToSet(q)
      BY <1>1, <1>2
    <3> QED BY <1>11, <3>1, <3>2 DEF Handled
  <2>6. \A b \in Handled(rest, i) : Before(kernel[i], b, a)
    <3> SUFFICES ASSUME NEW b \in Addrs, InKernel(kernel, i, b), <<i, b>> \notin ToSet(rest)
                 PROVE  Before(kernel[i], b, a)
      BY DEF Handled
    <3>1. b # a
      BY <1>1, <1>2
    <3>2. <<i, b>> \in Entry /\ <<i, b>>[1] = i /\ <<i, b>>[2] = b /\ b # "link"
      BY <1>3, EntryIs, AddrsAssumption
    <3>3. ~Precedes(h, <<i, b>>)
      BY <1>0, <1>1, <3>2 DEF InOrder
    <3>4. ~Before(kernel[i], a, b)
      BY <1>2, <2>0, <3>2, <3>3 DEF Precedes
    <3> QED BY <1>3, <1>11, <3>1, <3>4, BeforeIs
  <2> HIDE DEF v, w
  <2>7. Len(v) \in Nat /\ DOMAIN v = 1..Len(v) /\ \A k \in 1..Len(v) : Before(kernel[i], v[k], a)
    <3>1. Len(v) \in Nat /\ DOMAIN v = 1..Len(v)
      BY <2>3, LenProperties
    <3>2. \A k \in 1..Len(v) : v[k] \in Handled(rest, i)
      BY <2>3, <3>1 DEF ToSet
    <3> QED BY <2>6, <3>1, <3>2
  <2>8. ToSet(w) = Handled(q, i)
    <3>1. ToSet(w) = ToSet(v) \cup ({a} \cap Addrs)
      BY <1>3, <2>3, WithAddressIs
    <3> QED BY <1>11, <2>3, <2>5, <3>1
  <2>9. ASSUME NEW k \in 1..Len(w), NEW l \in 1..Len(w), k < l PROVE Ahead(kernel[i], w[k], w[l])
    <3>1. CASE a \in Apipa
      <4>1. Len(w) = Len(v) + 1 /\ w[Len(v) + 1] = a /\ \A n \in 1..Len(v) : w[n] = v[n]
        BY <1>3, <2>3, <3>1, WithAddressIs
      <4>2. k \in 1..Len(v)
        BY <2>7, <2>9, <4>1
      <4>3. CASE l \in 1..Len(v)
        BY <2>3, <2>9, <4>1, <4>2, <4>3
      <4>4. CASE l = Len(v) + 1
        BY <2>7, <3>1, <4>1, <4>2, <4>4 DEF Ahead
      <4> QED BY <2>7, <4>1, <4>3, <4>4
    <3>2. CASE a \notin Apipa
      <4>1. Len(w) = Len(v) + 1 /\ w[1] = a /\ \A n \in 1..Len(v) : w[n + 1] = v[n]
        BY <1>3, <1>11, <2>3, <3>2, WithAddressIs, SMTT(30)
      <4>2. l - 1 \in 1..Len(v) /\ (l - 1) + 1 = l
        BY <2>7, <2>9, <4>1
      <4>3. w[l] = v[l - 1]
        BY <4>1, <4>2
      <4>4. CASE k = 1
        BY <2>7, <3>2, <4>1, <4>2, <4>3, <4>4 DEF Ahead
      <4>5. CASE k # 1
        <5>1. k - 1 \in 1..Len(v) /\ (k - 1) + 1 = k /\ k - 1 < l - 1
          BY <2>7, <2>9, <4>1, <4>2, <4>5
        <5>2. w[k] = v[k - 1]
          BY <4>1, <5>1
        <5> QED BY <2>3, <4>2, <4>3, <5>1, <5>2
      <4> QED BY <4>4, <4>5
    <3> QED BY <3>1, <3>2
  <2>10. Exact(q, x)
    BY <1>1, <1>9, <2>3, <2>4, <2>8, <2>9 DEF Exact, w
  <2> QED BY <1>3, <2>10 DEF q, x
<1> QED BY <1>3, <1>10, <1>11

LEMMA ExactEnd ==
  ASSUME Types, NEW map \in Lists, Exact(<<>>, map)
  PROVE  ShowsKernel(map)
<1>1. ToSet(<<>>) = {}
  BY DEF ToSet
<1>2. DOMAIN map = {i \in Hardware : Exists(i)}
  BY <1>1 DEF Exact
<1>3. ASSUME NEW i \in DOMAIN map PROVE map[i].name = i /\ ListsAddresses(map[i].v4, kernel[i])
  <2>1. i \in Ifs /\ Exists(i) /\ kernel[i] \in Seq(Addrs) /\ map[i].v4 \in Seq(Addrs)
    BY <1>2, IfsAssumption, ListIs DEF Types, ListTypes, Exists
  <2>2. /\ map[i].name = i /\ ToSet(map[i].v4) = Handled(<<>>, i)
        /\ \A m, n \in 1..Len(map[i].v4) : m < n => Ahead(kernel[i], map[i].v4[m], map[i].v4[n])
    BY DEF Exact
  <2>3. Handled(<<>>, i) = {a \in Addrs : a \in ToSet(kernel[i])}
    BY <1>1, <2>1, ContainsIs DEF Handled, InKernel, Exists
  <2>4. ToSet(kernel[i]) \subseteq Addrs
    <3>1. DOMAIN kernel[i] = 1..Len(kernel[i]) /\ \A n \in 1..Len(kernel[i]) : kernel[i][n] \in Addrs
      BY <2>1, LenProperties, ElementOfSeq
    <3> QED BY <3>1 DEF ToSet
  <2>5. DOMAIN map[i].v4 = 1..Len(map[i].v4)
    BY <2>1, LenProperties
  <2> QED BY <2>2, <2>3, <2>4, <2>5 DEF ListsAddresses
<1> QED BY <1>2, <1>3 DEF ShowsKernel

LEMMA ExactKept ==
  ASSUME kernel' = kernel, NEW s \in Threads, Exact(job'[s].rest, job'[s].map)
  PROVE  Exact(job[s].rest, job[s].map)'
BY DEF Exact, InOrder, Handled, Entry, Precedes, Exists, InKernel

LEMMA ShownKept ==
  ASSUME kernel' = kernel, ShowsKernel(adapters')
  PROVE  ShowsKernel(adapters)'
BY DEF ShowsKernel, Exists

LEMMA ExactUpdate == ASSUME Types, ExactInv, NEW t \in Threads, UpdateStep(t) PROVE ExactInv'
<1>0. UNCHANGED <<kernel, version>> /\ Update(t)
  BY DEF UpdateStep, kernelVars
<1>1. ASSUME NEW j \in {Idle} \cup Working, job' = [job EXCEPT ![t] = j],
             j \in Working /\ j.clean /\ j.base = version => Exact(j.rest, j.map)
      PROVE  JobsExact'
  <2> SUFFICES ASSUME NEW s \in Threads, Running(s)', job'[s].clean, job'[s].base = version
               PROVE  Exact(job[s].rest, job[s].map)'
    BY <1>0 DEF JobsExact
  <2>1. \A r \in Threads : job'[r] = IF r = t THEN j ELSE job[r]
    BY <1>1, JobBecomes
  <2>2. Exact(job'[s].rest, job'[s].map)
    <3>1. CASE s = t
      <4>1. j # Idle
        BY <2>1, <3>1 DEF Running, Idle
      <4> QED BY <1>1, <2>1, <3>1, <4>1
    <3>2. CASE s # t
      BY <2>1, <3>2 DEF ExactInv, JobsExact, Running
    <3> QED BY <3>1, <3>2
  <2> QED BY <1>0, <2>2, ExactKept
<1>2. ASSUME UNCHANGED <<adapters, shown, excused>> PROVE ListExact'
  <2> SUFFICES ASSUME ~excused, shown = version PROVE ShowsKernel(adapters)'
    BY <1>0, <1>2 DEF ListExact
  <2> QED BY <1>0, <1>2, ShownKept DEF ExactInv, ListExact
<1>3. Idle \notin Working
  BY DEF Idle, Working
<1>4. CASE GetIfAddrs(t)
  <2>1. PICK j \in Working : job' = [job EXCEPT ![t] = j] /\ j.rest \in Entries /\ j.map = <<>>
    BY <1>4, GetIfAddrsIs
  <2>2. Exact(j.rest, j.map)
    BY <2>1, ExactStart
  <2>3. JobsExact'
    BY <1>1, <2>1, <2>2
  <2> QED BY <1>2, <1>4, <2>3 DEF GetIfAddrs, ExactInv
<1>5. CASE GetIfAddrsFails(t)
  <2>1. JobsExact'
    BY <1>1, <1>3, <1>5 DEF GetIfAddrsFails
  <2> QED BY <1>5, <2>1 DEF GetIfAddrsFails, ExactInv, ListExact
<1>6. CASE GetHardwareInfo(t)
  <2>1. Running(t) /\ job[t].rest # <<>>
    BY <1>6, GetHardwareInfoIs
  <2>2. job[t].rest \in Seq(EntryType) /\ job[t].map \in Lists
    BY <2>1, RunningIs
  <2>3. PICK j \in Working :
          /\ job' = [job EXCEPT ![t] = j]
          /\ j.map = job[t].map /\ j.base = job[t].base
          /\ \/ j.rest = job[t].rest /\ j.clean = job[t].clean
             \/ /\ j.rest = Tail(job[t].rest)
                /\ j.clean =>
                     /\ job[t].clean
                     /\ ~(Exists(Head(job[t].rest)[1]) /\ Head(job[t].rest)[1] \in Hardware)
    BY <1>6, GetHardwareInfoIs
  <2>4. ASSUME j.clean, j.base = version PROVE Exact(j.rest, j.map)
    <3>1. job[t].clean /\ job[t].base = version
      BY <2>3, <2>4
    <3>2. Exact(job[t].rest, job[t].map)
      BY <2>1, <3>1 DEF ExactInv, JobsExact
    <3>3. CASE j.rest = job[t].rest
      BY <2>3, <3>2, <3>3
    <3>4. CASE j.rest = Tail(job[t].rest) /\ ~(Exists(Head(job[t].rest)[1]) /\ Head(job[t].rest)[1] \in Hardware)
      <4>1. Head(job[t].rest) \in Entry
        BY <2>1, <2>2, <3>2, RestShrinks DEF Exact
      <4>2. Head(job[t].rest)[1] \notin Hardware
        BY <3>4, <4>1, EntryParts
      <4> QED BY <2>1, <2>2, <2>3, <3>2, <3>4, <4>2, ExactSkip
    <3> QED BY <2>3, <2>4, <3>3, <3>4
  <2>5. JobsExact'
    BY <1>1, <2>3, <2>4
  <2> QED BY <1>2, <1>6, <2>5 DEF GetHardwareInfo, ExactInv
<1>7. CASE AddEntry(t)
  <2>1. Running(t) /\ job[t].rest # <<>> /\ Head(job[t].rest)[1] \in Hardware /\ Head(job[t].rest) \in EntryType
    BY <1>7, AddEntryIs
  <2>2. job[t].rest \in Seq(EntryType) /\ job[t].map \in Lists
    BY <2>1, RunningIs
  <2> DEFINE i == Head(job[t].rest)[1]
             a == Head(job[t].rest)[2]
  <2>3. PICK j \in Working, index \in Indices :
          /\ index = IF Exists(i) THEN i ELSE 0
          /\ job' = [job EXCEPT ![t] = j]
          /\ j.rest = Tail(job[t].rest) /\ j.map = Extended(job[t].map, index, i, a)
          /\ j.base = job[t].base /\ j.clean = job[t].clean
    BY <1>7, AddEntryIs
  <2>4. ASSUME j.clean, j.base = version PROVE Exact(j.rest, j.map)
    <3>1. Exact(job[t].rest, job[t].map)
      BY <2>1, <2>3, <2>4 DEF ExactInv, JobsExact
    <3>2. Head(job[t].rest) = <<i, a>>
      BY <2>1 DEF EntryType
    <3> HIDE DEF i, a
    <3>3. i \in Hardware
      BY <2>1 DEF i
    <3>4. Exists(i) /\ Exact(Tail(job[t].rest), Extended(job[t].map, i, i, a))
      BY <2>1, <2>2, <3>1, <3>2, <3>3, ExactAdd
    <3> QED BY <2>3, <3>4
  <2>5. JobsExact'
    BY <1>1, <2>3, <2>4
  <2> QED BY <1>2, <1>7, <2>5 DEF AddEntry, ExactInv
<1>8. CASE Store(t)
  <2>1. /\ Running(t) /\ job' = [job EXCEPT ![t] = Idle] /\ adapters' = job[t].map /\ job[t].rest = <<>>
        /\ shown' = job[t].base
    BY <1>8 DEF Store, At, Running
  <2>2. JobsExact'
    BY <1>1, <1>3, <2>1
  <2>3. ListExact'
    <3> SUFFICES ASSUME ~excused', shown' = version PROVE ShowsKernel(adapters)'
      BY <1>0 DEF ListExact
    <3>1. job[t].clean /\ job[t].base = version
      <4>1. job[t].clean \in BOOLEAN
        BY <2>1, RunningIs
      <4> QED BY <1>8, <2>1, <4>1 DEF Store
    <3>2. Exact(<<>>, job[t].map) /\ job[t].map \in Lists
      BY <2>1, <3>1, RunningIs DEF ExactInv, JobsExact
    <3>3. ShowsKernel(adapters')
      BY <2>1, <3>2, ExactEnd
    <3> QED BY <1>0, <3>3, ShownKept
  <2> QED BY <2>2, <2>3 DEF ExactInv
<1> QED BY <1>0, <1>4, <1>5, <1>6, <1>7, <1>8 DEF Update

LEMMA ExactStep == Types /\ ExactInv /\ [Next]_vars => ExactInv'
<1> SUFFICES ASSUME Types, ExactInv, [Next]_vars PROVE ExactInv'
  OBVIOUS
<1>1. CASE \E t \in Threads : UpdateStep(t)
  BY <1>1, ExactUpdate
<1>2. CASE KernelStep
  <2>1. PICK m \in Messages : m.at = version + 1 /\ Report(m)
    BY <1>2, KernelReports
  <2>2. UNCHANGED <<adapters, job, shown>> /\ version' = version + 1
    BY <2>1, ReportIs
  <2>3. version \in Nat /\ shown \in Nat /\ shown <= version
    BY DEF Types, ListTypes
  <2>4. shown' # version'
    BY <2>2, <2>3
  <2>5. ASSUME NEW t \in Threads, Running(t)' PROVE job'[t].base # version'
    <3>1. Running(t)
      BY <2>2, <2>5 DEF Running
    <3>2. job[t].base \in Nat /\ job[t].base <= version
      BY <3>1, RunningIs DEF Types, ListTypes
    <3> QED BY <2>2, <2>3, <3>2
  <2> QED BY <2>4, <2>5 DEF ExactInv, JobsExact, ListExact
<1>3. CASE ~KernelStep /\ ~\E t \in Threads : UpdateStep(t)
  <2>1. UNCHANGED <<adapters, shown>> /\ \A t \in Threads : Running(t)' => Running(t) /\ job'[t] = job[t]
    BY <1>3, ListKept
  <2>2. UNCHANGED kernelVars /\ (excused => excused')
    <3>1. CASE Construct \/ StartUnwatched \/ Stop \/ Wake \/ WakeStopped \/ UNCHANGED vars
      BY <3>1 DEF Construct, StartUnwatched, Complete, Stop, Deaf, Wake, WakeStopped, listVars, vars
    <3>2. ASSUME NEW t \in Threads, Start(t) \/ ReceiveNothing(t) \/ UpdateReturns(t) \/ UserUpdate(t)
          PROVE  UNCHANGED kernelVars /\ (excused => excused')
      BY <3>2 DEF Start, Complete, ReceiveNothing, UpdateReturns, UserUpdate, listVars
    <3>3. ASSUME NEW t \in Threads, Receive(t) \/ Callback(t) \/ CallbackThrows(t)
          PROVE  UNCHANGED kernelVars /\ (excused => excused')
      <4>1. CASE Receive(t)
        BY <4>1 DEF Receive, Take
      <4>2. CASE Callback(t)
        BY <4>2 DEF Callback, listVars
      <4>3. CASE CallbackThrows(t)
        BY <4>3 DEF CallbackThrows
      <4> QED BY <3>3, <4>1, <4>2, <4>3
    <3> QED BY <1>3, <3>1, <3>2, <3>3 DEF Next
  <2>3. JobsExact'
    <3> SUFFICES ASSUME NEW s \in Threads, Running(s)', job'[s].clean, job'[s].base = version
                 PROVE  Exact(job[s].rest, job[s].map)'
      BY <2>2 DEF JobsExact, kernelVars
    <3>1. Exact(job'[s].rest, job'[s].map)
      BY <2>1 DEF ExactInv, JobsExact
    <3> QED BY <2>2, <3>1, ExactKept DEF kernelVars
  <2>4. ListExact'
    <3> SUFFICES ASSUME ~excused', shown' = version PROVE ShowsKernel(adapters)'
      BY <2>2 DEF ListExact, kernelVars
    <3>1. ShowsKernel(adapters')
      BY <2>1, <2>2 DEF ExactInv, ListExact
    <3> QED BY <2>2, <3>1, ShownKept DEF kernelVars
  <2> QED BY <2>3, <2>4 DEF ExactInv
<1> QED BY <1>1, <1>2, <1>3

LEMMA ExactInit == Init => ExactInv
<1> SUFFICES ASSUME Init PROVE ExactInv
  OBVIOUS
<1>1. \A t \in Threads : ~Running(t)
  BY DEF Init, ListInit, Running, Idle
<1>2. /\ adapters = [i \in {i \in Hardware : Exists(i)} |-> [name |-> i, v4 |-> <<>>]]
      /\ \A i \in Ifs : kernel[i] \in {Gone, <<>>}
  BY DEF Init, ListInit
<1>3. ListsAddresses(<<>>, <<>>)
  BY DEF ListsAddresses
<1>4. ShowsKernel(adapters)
  BY <1>2, <1>3, IfsAssumption DEF ShowsKernel, Exists
<1> QED BY <1>1, <1>4 DEF ExactInv, JobsExact, ListExact

(* Once process() has nothing left to do, m_adapters shows exactly the      *)
(* interfaces of the kernel with their addresses, the link local ones at    *)
(* the end, unless a message was lost, a system call failed or an older     *)
(* list was stored by another thread: whatever changed while update() was   *)
(* walking through the entries is told by a message that is still to come.  *)
THEOREM AdaptersFollow == Spec => []AdaptersCurrent
<1>1. Types /\ Flow /\ ExactInv => AdaptersCurrent
  BY DEF Flow, Awake, ExactInv, ListExact, AdaptersCurrent, Quiet, Draining
<1>2. Spec => []ExactInv
  BY TypesAlways, ExactInit, ExactStep, PTL DEF Spec
<1> QED BY <1>1, <1>2, FlowAlways, PTL

-----------------------------------------------------------------------------
(* The list before start() *)

(* The socket is opened, read and closed in this order. *)
SocketInv ==
  /\ socket = "none" => queue = <<>>
  /\ socket \in {"none", "bound"} => (\A t \in Threads : stage[t] = "idle") /\ ~ready
  /\ socket = "stopped" => missed

Has(list, i, a) == i \in DOMAIN list /\ Contains(list[i].v4, a)

(* No message about the address is in the queue that is newer than v. *)
Silent(v, i, a) == \A n \in 1..Len(queue) : queue[n].at > v => ~OfPair(queue[n], i, a)

(* This job will be followed by the list. *)
Counts(t) == Running(t) /\ job[t].clean /\ (job[t].base = version \/ (~excused /\ job[t].base >= shown))

(* What a list and the entries still to be added do not show will be told. *)
Knows(base, rest, map) ==
  \A i \in Hardware, a \in Addrs : Silent(base, i, a) =>
    (Has(map, i, a) \/ <<i, a>> \in ToSet(rest) <=> <<i, a>> \in Pairs)

Fresh ==
  socket \in {"none", "bound"} =>
    /\ ~excused => Knows(shown, <<>>, adapters)
    /\ \A t \in Threads : Counts(t) => Knows(job[t].base, job[t].rest, job[t].map)

FreshInv == SocketInv /\ Fresh

LEMMA SocketStep == Types /\ SocketInv /\ [Next]_vars => SocketInv'
<1> SUFFICES ASSUME Types, SocketInv, [Next]_vars PROVE SocketInv'
  OBVIOUS
<1>1. CASE KernelStep
  <2>1. PICK m \in Messages : m.at = version + 1 /\ Report(m)
    BY <1>1, KernelReports
  <2>2. /\ UNCHANGED <<socket, stage>> /\ ready' = (ready \/ socket = "started") /\ socket # "stopped"
        /\ socket = "none" => queue' = queue
    BY <2>1, ReportIs
  <2> QED BY <2>2 DEF SocketInv
<1>2. ASSUME NEW t \in Threads, UpdateStep(t) \/ UserUpdate(t) PROVE SocketInv'
  BY <1>2 DEF SocketInv, UpdateStep, UserUpdate, netlinkVars, user
<1>3. CASE Construct \/ StartUnwatched \/ Stop
  BY <1>3 DEF SocketInv, Construct, StartUnwatched, Stop, Deaf, user
<1>4. CASE Wake \/ WakeStopped
  BY <1>4 DEF SocketInv, Wake, WakeStopped, user
<1>6. ASSUME NEW t \in Threads, Start(t) PROVE SocketInv'
  BY <1>6 DEF SocketInv, Start
<1>7. ASSUME NEW t \in Threads,
             ReceiveNothing(t) \/ Receive(t) \/ UpdateReturns(t) \/ Callback(t) \/ CallbackThrows(t)
      PROVE  SocketInv'
  <2>1. stage[t] # "idle" /\ socket' = socket
    BY <1>7 DEF ReceiveNothing, Receive, Take, UpdateReturns, Callback, CallbackThrows
  <2>2. CASE ReceiveNothing(t) \/ Receive(t) \/ UpdateReturns(t)
    BY <2>1, <2>2 DEF SocketInv, ReceiveNothing, Receive, Take, UpdateReturns, user
  <2>3. CASE Callback(t) \/ CallbackThrows(t)
    <3>1. missed => missed'
      BY <2>3 DEF Callback, CallbackThrows
    <3> QED BY <2>1, <3>1 DEF SocketInv
  <2> QED BY <1>7, <2>2, <2>3
<1>5. CASE UNCHANGED vars
  BY <1>5 DEF SocketInv, vars, netlinkVars, user
<1> QED BY <1>1, <1>2, <1>3, <1>4, <1>5, <1>6, <1>7 DEF Next

(* An entry changes what a list has of the interfaces that exist. *)
LEMMA HasExtended ==
  ASSUME NEW list \in Lists, NEW index \in Indices, NEW j \in Ifs, NEW b \in Kind, NEW i \in Hardware, NEW a \in Addrs
  PROVE  Has(Extended(list, index, j, b), i, a) <=> Has(list, i, a) \/ (i = index /\ a = b)
<1> DEFINE x == Extended(list, index, j, b)
<1>0. Extends(x, list, index, j, b)
  BY ExtendedIs
<1> HIDE DEF x
<1>1. /\ DOMAIN x = DOMAIN list \cup {index}
      /\ \A n \in DOMAIN list \ {index} : x[n] = list[n]
      /\ index \in DOMAIN list => x[index].v4 = WithAddress(list[index].v4, b)
      /\ index \notin DOMAIN list => x[index].v4 = WithAddress(<<>>, b)
  BY <1>0 DEF Extends
<1>2. ASSUME NEW v4 \in Seq(Addrs) PROVE Contains(WithAddress(v4, b), a) <=> Contains(v4, a) \/ a = b
  <2>1. WithAddress(v4, b) \in Seq(Addrs) /\ ToSet(WithAddress(v4, b)) = ToSet(v4) \cup ({b} \cap Addrs)
    BY WithAddressIs
  <2>2. Contains(WithAddress(v4, b), a) <=> a \in ToSet(WithAddress(v4, b))
    BY <2>1, ContainsIs
  <2>3. Contains(v4, a) <=> a \in ToSet(v4)
    BY ContainsIs
  <2> QED BY <2>1, <2>2, <2>3
<1>3. CASE i # index
  BY <1>1, <1>3 DEF Has, x
<1>4. CASE i = index /\ index \in DOMAIN list
  <2>1. list[index].v4 \in Seq(Addrs)
    BY <1>4, ListIs
  <2> QED BY <1>1, <1>2, <1>4, <2>1 DEF Has, x
<1>5. CASE i = index /\ index \notin DOMAIN list
  <2>1. <<>> \in Seq(Addrs) /\ ~Contains(<<>>, a)
    BY DEF Contains
  <2>2. Contains(WithAddress(<<>>, b), a) <=> a = b
    BY <1>2, <2>1
  <2> QED BY <1>1, <1>5, <2>2 DEF Has, x
<1> QED BY <1>3, <1>4, <1>5

LEMMA FreshKernel == ASSUME Types, SocketInv, Fresh, KernelStep PROVE Fresh'
<1>0. ASSUME NEW t \in Threads, Running(t)' PROVE job'[t].base # version'
  <2>1. PICK m \in Messages : m.at = version + 1 /\ Report(m)
    BY KernelReports
  <2>2. UNCHANGED <<job>> /\ version' = version + 1 /\ version \in Nat
    BY <2>1, ReportIs DEF Types, ListTypes
  <2>3. Running(t)
    BY <1>0, <2>2 DEF Running
  <2>4. job[t].base \in Nat /\ job[t].base <= version
    BY <2>3, RunningIs DEF Types, ListTypes
  <2> QED BY <2>2, <2>4
<1> SUFFICES ASSUME socket' \in {"none", "bound"}, ~excused'
             PROVE  /\ Knows(shown, <<>>, adapters)'
                    /\ \A t \in Threads : Counts(t)' => Knows(job[t].base, job[t].rest, job[t].map)'
  BY <1>0 DEF Fresh, Counts
<1>1. PICK m \in Messages : m.at = version + 1 /\ Report(m) /\ Tells(m)
  BY KernelReports
<1>2. /\ UNCHANGED <<adapters, job, shown, socket>> /\ version' = version + 1 /\ ~excused
      /\ Len(queue') = Len(queue) + 1 /\ Len(queue) \in Nat
      /\ \A n \in 1..Len(queue) : queue'[n] = queue[n]
      /\ queue'[Len(queue) + 1] = m
  BY <1>1, ReportIs
<1>3. version \in Nat /\ shown \in Nat /\ shown <= version
  BY DEF Types, ListTypes
<1>4. ASSUME NEW v \in Nat, v <= version, NEW i \in Hardware, NEW a \in Addrs,
             \A n \in 1..Len(queue') : queue'[n].at > v => ~OfPair(queue'[n], i, a)
      PROVE  Silent(v, i, a) /\ (<<i, a>> \in Pairs' <=> <<i, a>> \in Pairs)
  <2>1. \A n \in 1..Len(queue) : n \in 1..Len(queue')
    BY <1>2
  <2>2. Silent(v, i, a)
    BY <1>2, <1>4, <2>1 DEF Silent
  <2>3. Len(queue) + 1 \in 1..Len(queue')
    BY <1>2
  <2>4. m.at > v
    BY <1>1, <1>3, <1>4
  <2>5. ~OfPair(m, i, a)
    BY <1>2, <1>4, <2>3, <2>4
  <2> QED BY <1>1, <2>2, <2>5 DEF Tells
<1>5. ASSUME NEW i \in Hardware, NEW a \in Addrs, Silent(shown, i, a)'
      PROVE  (Has(adapters, i, a) \/ <<i, a>> \in ToSet(<<>>) <=> <<i, a>> \in Pairs)'
  <2>1. Silent(shown, i, a) /\ (<<i, a>> \in Pairs' <=> <<i, a>> \in Pairs)
    BY <1>2, <1>3, <1>4, <1>5 DEF Silent
  <2>2. Has(adapters, i, a) \/ <<i, a>> \in ToSet(<<>>) <=> <<i, a>> \in Pairs
    BY <1>2, <2>1 DEF Fresh, Knows
  <2> QED BY <1>2, <2>1, <2>2 DEF Has
<1>6. ASSUME NEW t \in Threads, Counts(t)', NEW i \in Hardware, NEW a \in Addrs, Silent(job[t].base, i, a)'
      PROVE  (Has(job[t].map, i, a) \/ <<i, a>> \in ToSet(job[t].rest) <=> <<i, a>> \in Pairs)'
  <2>1. Running(t) /\ job[t].clean
    BY <1>2, <1>6 DEF Counts, Running
  <2>2. job[t].base \in Nat /\ job[t].base <= version
    BY <2>1, RunningIs DEF Types, ListTypes
  <2>3. Silent(job[t].base, i, a) /\ (<<i, a>> \in Pairs' <=> <<i, a>> \in Pairs)
    BY <1>2, <1>4, <1>6, <2>2 DEF Silent
  <2>4. Counts(t)
    <3>1. job[t].base # version'
      BY <1>2, <1>3, <2>2
    <3> QED BY <1>2, <1>6, <2>1, <3>1 DEF Counts
  <2>5. Has(job[t].map, i, a) \/ <<i, a>> \in ToSet(job[t].rest) <=> <<i, a>> \in Pairs
    BY <1>2, <2>3, <2>4 DEF Fresh, Knows
  <2> QED BY <1>2, <2>3, <2>5 DEF Has, ToSet
<1> QED BY <1>5, <1>6 DEF Knows

(* A job goes on: an entry is skipped, or it moves from rest to map. *)
LEMMA KnowsOn ==
  ASSUME Types, NEW rest \in Seq(EntryType), rest # <<>>, NEW map \in Lists, NEW base, NEW x,
         Knows(base, rest, map),
         \A i \in Hardware, a \in Addrs :
           Has(x, i, a) <=> Has(map, i, a) \/ (Exists(i) /\ <<i, a>> = Head(rest))
  PROVE  Knows(base, Tail(rest), x)
<1> SUFFICES ASSUME NEW i \in Hardware, NEW a \in Addrs, Silent(base, i, a)
             PROVE  Has(x, i, a) \/ <<i, a>> \in ToSet(Tail(rest)) <=> <<i, a>> \in Pairs
  BY DEF Knows
<1>1. ToSet(rest) = {Head(rest)} \cup ToSet(Tail(rest))
  BY Takes
<1>2. Has(map, i, a) \/ <<i, a>> \in ToSet(rest) <=> <<i, a>> \in Pairs
  BY DEF Knows
<1>3. <<i, a>> \in Pairs => Exists(i)
  BY DEF Pairs
<1> QED BY <1>1, <1>2, <1>3

LEMMA KnowsKept ==
  ASSUME kernel' = kernel, queue' = queue, NEW s \in Threads, Knows(job'[s].base, job'[s].rest, job'[s].map)
  PROVE  Knows(job[s].base, job[s].rest, job[s].map)'
BY DEF Knows, Silent, Pairs, Exists, Has

LEMMA ListKnowsKept ==
  ASSUME kernel' = kernel, queue' = queue, Knows(shown', <<>>, adapters')
  PROVE  Knows(shown, <<>>, adapters)'
BY DEF Knows, Silent, Pairs, Exists, Has

LEMMA FreshUpdate == ASSUME Types, Fresh, NEW t \in Threads, UpdateStep(t) PROVE Fresh'
<1>0. UNCHANGED <<kernel, version, queue, socket>> /\ Update(t)
  BY DEF UpdateStep, kernelVars, netlinkVars
<1> SUFFICES ASSUME socket \in {"none", "bound"}
             PROVE  /\ ~excused' => Knows(shown, <<>>, adapters)'
                    /\ \A s \in Threads : Counts(s)' => Knows(job[s].base, job[s].rest, job[s].map)'
  BY <1>0 DEF Fresh
<1>1. ASSUME NEW j \in {Idle} \cup Working, job' = [job EXCEPT ![t] = j], UNCHANGED <<adapters, shown, excused>>,
             j \in Working /\ j.clean /\ (j.base = version \/ (~excused /\ j.base >= shown))
               => Knows(j.base, j.rest, j.map)
      PROVE  /\ ~excused' => Knows(shown, <<>>, adapters)'
             /\ \A s \in Threads : Counts(s)' => Knows(job[s].base, job[s].rest, job[s].map)'
  <2>1. ~excused' => Knows(shown, <<>>, adapters)'
    BY <1>0, <1>1, ListKnowsKept DEF Fresh
  <2>2. ASSUME NEW s \in Threads, Counts(s)' PROVE Knows(job[s].base, job[s].rest, job[s].map)'
    <3>1. \A r \in Threads : job'[r] = IF r = t THEN j ELSE job[r]
      BY <1>1, JobBecomes
    <3>2. Knows(job'[s].base, job'[s].rest, job'[s].map)
      <4>1. CASE s = t
        <5>1. j # Idle
          BY <2>2, <3>1, <4>1 DEF Counts, Running, Idle
        <5> QED BY <1>0, <1>1, <2>2, <3>1, <4>1, <5>1 DEF Counts
      <4>2. CASE s # t
        <5>1. job'[s] = job[s] /\ Counts(s)
          BY <1>0, <1>1, <2>2, <3>1, <4>2 DEF Counts, Running
        <5> QED BY <5>1 DEF Fresh
      <4> QED BY <4>1, <4>2
    <3> QED BY <1>0, <3>2, KnowsKept
  <2> QED BY <2>1, <2>2
<1>2. CASE GetIfAddrs(t)
  <2>1. PICK j \in Working : job' = [job EXCEPT ![t] = j] /\ j.rest \in Entries /\ j.map = <<>>
    BY <1>2, GetIfAddrsIs
  <2>2. Knows(j.base, j.rest, j.map)
    <3> SUFFICES ASSUME NEW i \in Hardware, NEW a \in Addrs
                 PROVE  Has(j.map, i, a) \/ <<i, a>> \in ToSet(j.rest) <=> <<i, a>> \in Pairs
      BY DEF Knows
    <3>1. ToSet(j.rest) = Entry
      BY <2>1, EntriesAre
    <3>2. ~Has(j.map, i, a)
      BY <2>1, EmptyList DEF Has
    <3>3. i \in Ifs
      BY IfsAssumption
    <3> QED BY <3>1, <3>2, <3>3, EntryIs, PairIs
  <2> QED BY <1>1, <1>2, <2>1, <2>2 DEF GetIfAddrs
<1>3. CASE GetIfAddrsFails(t)
  <2>1. job' = [job EXCEPT ![t] = Idle] /\ excused' = TRUE /\ UNCHANGED <<adapters, shown>>
    BY <1>3 DEF GetIfAddrsFails
  <2>2. \A r \in Threads : job'[r] = IF r = t THEN Idle ELSE job[r]
    BY <2>1, JobBecomes
  <2>3. ASSUME NEW s \in Threads, Counts(s)' PROVE Knows(job[s].base, job[s].rest, job[s].map)'
    <3>1. job'[s] = job[s] /\ Counts(s)
      BY <1>0, <2>1, <2>2, <2>3 DEF Counts, Running, Idle
    <3> QED BY <1>0, <3>1, KnowsKept DEF Fresh
  <2> QED BY <2>1, <2>3
<1>4. CASE GetHardwareInfo(t)
  <2>1. Running(t) /\ job[t].rest # <<>>
    BY <1>4, GetHardwareInfoIs
  <2>2. job[t].rest \in Seq(EntryType) /\ job[t].map \in Lists
    BY <2>1, RunningIs
  <2>3. PICK j \in Working :
          /\ job' = [job EXCEPT ![t] = j]
          /\ j.map = job[t].map /\ j.base = job[t].base
          /\ \/ j.rest = job[t].rest /\ j.clean = job[t].clean
             \/ /\ j.rest = Tail(job[t].rest)
                /\ j.clean =>
                     /\ job[t].clean
                     /\ ~(Exists(Head(job[t].rest)[1]) /\ Head(job[t].rest)[1] \in Hardware)
    BY <1>4, GetHardwareInfoIs
  <2>4. ASSUME j.clean, j.base = version \/ (~excused /\ j.base >= shown) PROVE Knows(j.base, j.rest, j.map)
    <3>1. Knows(job[t].base, job[t].rest, job[t].map)
      BY <2>1, <2>3, <2>4 DEF Fresh, Counts
    <3>2. CASE j.rest = job[t].rest
      BY <2>3, <3>1, <3>2
    <3>3. CASE j.rest = Tail(job[t].rest) /\ ~(Exists(Head(job[t].rest)[1]) /\ Head(job[t].rest)[1] \in Hardware)
      <4>1. ASSUME NEW i \in Hardware, NEW a \in Addrs, Exists(i) PROVE <<i, a>> # Head(job[t].rest)
        <5>1. <<i, a>>[1] = i
          OBVIOUS
        <5> QED BY <3>3, <4>1, <5>1
      <4>2. Knows(job[t].base, Tail(job[t].rest), job[t].map)
        BY <2>1, <2>2, <3>1, <4>1, KnowsOn
      <4> QED BY <2>3, <3>3, <4>2
    <3> QED BY <2>3, <2>4, <3>2, <3>3
  <2> QED BY <1>1, <1>4, <2>3, <2>4 DEF GetHardwareInfo
<1>5. CASE AddEntry(t)
  <2>1. Running(t) /\ job[t].rest # <<>> /\ Head(job[t].rest)[1] \in Hardware /\ Head(job[t].rest) \in EntryType
    BY <1>5, AddEntryIs
  <2>2. job[t].rest \in Seq(EntryType) /\ job[t].map \in Lists
    BY <2>1, RunningIs
  <2> DEFINE h == Head(job[t].rest)
  <2>3. PICK j \in Working, index \in Indices :
          /\ index = IF Exists(h[1]) THEN h[1] ELSE 0
          /\ job' = [job EXCEPT ![t] = j]
          /\ j.rest = Tail(job[t].rest) /\ j.map = Extended(job[t].map, index, h[1], h[2])
          /\ j.base = job[t].base /\ j.clean = job[t].clean
    BY <1>5, AddEntryIs
  <2>4. ASSUME j.clean, j.base = version \/ (~excused /\ j.base >= shown) PROVE Knows(j.base, j.rest, j.map)
    <3>1. Knows(job[t].base, job[t].rest, job[t].map)
      BY <2>1, <2>3, <2>4 DEF Fresh, Counts
    <3>2. h = <<h[1], h[2]>> /\ h[1] \in Ifs /\ h[2] \in Kind
      BY <2>1 DEF EntryType
    <3> HIDE DEF h
    <3>3. ASSUME NEW i \in Hardware, NEW a \in Addrs
          PROVE  Has(j.map, i, a) <=> Has(job[t].map, i, a) \/ (Exists(i) /\ <<i, a>> = h)
      <4>1. Has(j.map, i, a) <=> Has(job[t].map, i, a) \/ (i = index /\ a = h[2])
        BY <2>2, <2>3, <3>2, HasExtended
      <4>2. i # 0
        BY IfsAssumption
      <4>3. i = index <=> Exists(i) /\ i = h[1]
        BY <2>3, <4>2
      <4>4. <<i, a>> = h <=> i = h[1] /\ a = h[2]
        BY <3>2
      <4> QED BY <4>1, <4>3, <4>4
    <3>4. Knows(job[t].base, Tail(job[t].rest), j.map)
      BY <2>1, <2>2, <3>1, <3>3, KnowsOn DEF h
    <3> QED BY <2>3, <3>4
  <2> QED BY <1>1, <1>5, <2>3, <2>4 DEF AddEntry
<1>6. CASE Store(t)
  <2>1. /\ Running(t) /\ job' = [job EXCEPT ![t] = Idle] /\ adapters' = job[t].map /\ job[t].rest = <<>>
        /\ shown' = job[t].base
    BY <1>6 DEF Store, At, Running
  <2>2. \A r \in Threads : job'[r] = IF r = t THEN Idle ELSE job[r]
    BY <2>1, JobBecomes
  <2>3. /\ job[t].clean \in BOOLEAN /\ job[t].base \in Nat /\ shown \in Nat /\ version \in Nat
        /\ excused \in BOOLEAN
    BY <2>1, RunningIs DEF Types, ListTypes
  <2>4. ~excused' => job[t].clean /\ (job[t].base = version \/ (~excused /\ job[t].base >= shown))
    <3>1. ~(job[t].base < shown) => job[t].base >= shown
      BY <2>3
    <3> QED BY <1>6, <2>3, <3>1 DEF Store
  <2>5. ASSUME ~excused' PROVE Knows(shown, <<>>, adapters)'
    <3>1. Counts(t)
      BY <2>1, <2>4, <2>5 DEF Counts
    <3>2. Knows(shown', <<>>, adapters')
      BY <2>1, <3>1 DEF Fresh
    <3> QED BY <1>0, <3>2, ListKnowsKept
  <2>6. ASSUME NEW s \in Threads, Counts(s)' PROVE Knows(job[s].base, job[s].rest, job[s].map)'
    <3>1. s # t /\ job'[s] = job[s] /\ Running(s) /\ job[s].clean
      BY <2>2, <2>6 DEF Counts, Running, Idle
    <3>2. job[s].base \in Nat /\ job[s].base <= version
      BY <3>1, RunningIs DEF Types, ListTypes
    <3>3. job[s].base = version \/ (~excused' /\ job[s].base >= job[t].base)
      BY <1>0, <2>1, <2>6, <3>1 DEF Counts
    <3>4. job[s].base = version \/ (~excused /\ job[s].base >= shown)
      BY <2>3, <2>4, <3>2, <3>3
    <3>5. Counts(s)
      BY <3>1, <3>4 DEF Counts
    <3> QED BY <1>0, <3>1, <3>5, KnowsKept DEF Fresh
  <2> QED BY <2>5, <2>6
<1> QED BY <1>0, <1>2, <1>3, <1>4, <1>5, <1>6 DEF Update

LEMMA FreshStep == Types /\ FreshInv /\ [Next]_vars => FreshInv'
<1> SUFFICES ASSUME Types, SocketInv, Fresh, [Next]_vars PROVE Fresh'
  BY SocketStep DEF FreshInv
<1>1. CASE KernelStep
  BY <1>1, FreshKernel
<1>2. CASE \E t \in Threads : UpdateStep(t)
  BY <1>2, FreshUpdate
<1>3. CASE ~KernelStep /\ ~\E t \in Threads : UpdateStep(t)
  <2> SUFFICES ASSUME socket' \in {"none", "bound"}
               PROVE  /\ ~excused' => Knows(shown, <<>>, adapters)'
                      /\ \A s \in Threads : Counts(s)' => Knows(job[s].base, job[s].rest, job[s].map)'
    BY DEF Fresh
  <2>1. UNCHANGED <<adapters, shown>> /\ \A t \in Threads : Running(t)' => Running(t) /\ job'[t] = job[t]
    BY <1>3, ListKept
  <2>2. UNCHANGED kernelVars /\ queue' = queue /\ excused' = excused /\ socket \in {"none", "bound"}
    <3>1. \A t \in Threads : stage[t] = "idle"
      BY <1>3 DEF Next, Construct, Start, StartUnwatched, Complete, Stop, Deaf, Wake, WakeStopped, ReceiveNothing,
                  Receive, Take, UpdateReturns, Callback, CallbackThrows, UserUpdate, netlinkVars, vars, SocketInv
    <3> QED BY <1>3, <3>1 DEF Next, Construct, Start, StartUnwatched, Complete, Stop, Deaf, Wake, WakeStopped,
               ReceiveNothing, Receive, Take, UpdateReturns, Callback, CallbackThrows, UserUpdate, listVars,
               netlinkVars, vars, SocketInv
  <2>3. ~excused' => Knows(shown, <<>>, adapters)'
    BY <2>1, <2>2, ListKnowsKept DEF Fresh, kernelVars
  <2>4. ASSUME NEW s \in Threads, Counts(s)' PROVE Knows(job[s].base, job[s].rest, job[s].map)'
    <3>1. job'[s] = job[s] /\ Counts(s)
      BY <2>1, <2>2, <2>4 DEF Counts, kernelVars
    <3> QED BY <2>2, <3>1, KnowsKept DEF Fresh, kernelVars
  <2> QED BY <2>3, <2>4
<1> QED BY <1>1, <1>2, <1>3

LEMMA FreshInit == Init => FreshInv
<1> SUFFICES ASSUME Init PROVE FreshInv
  OBVIOUS
<1>1. \A t \in Threads : ~Counts(t)
  BY DEF Init, ListInit, Counts, Running, Idle
<1>2. SocketInv
  BY DEF Init, SocketInv
<1>3. /\ adapters = [i \in {i \in Hardware : Exists(i)} |-> [name |-> i, v4 |-> <<>>]]
      /\ \A i \in Ifs : kernel[i] \in {Gone, <<>>}
  BY DEF Init, ListInit
<1>4. Knows(shown, <<>>, adapters)
  <2> SUFFICES ASSUME NEW i \in Hardware, NEW a \in Addrs
               PROVE  ~Has(adapters, i, a) /\ <<i, a>> \notin ToSet(<<>>) /\ <<i, a>> \notin Pairs
    BY DEF Knows
  <2>1. ~Contains(<<>>, a)
    BY DEF Contains
  <2>2. <<i, a>> \notin Pairs
    BY <1>3, <2>1, IfsAssumption, PairIs DEF InKernel
  <2>3. ~Has(adapters, i, a)
    BY <1>3, <2>1 DEF Has
  <2>4. <<i, a>> \notin ToSet(<<>>)
    BY DEF ToSet
  <2> QED BY <2>2, <2>3, <2>4
<1> QED BY <1>1, <1>2, <1>4 DEF FreshInv, Fresh

-----------------------------------------------------------------------------
(* What the user is told *)

(* The messages the callback is still to be called for. *)
Told(m) == (\E t \in Threads : message[t] = m) \/ \E n \in 1..Len(queue) : queue[n] = m

(* The last message about something tells how it is now. *)
LastIsTrue ==
  socket \in {"bound", "started"} /\ ~missed => \A m \in Messages : Told(m) =>
    /\ \A i \in Hardware :
         OfLink(m, i) /\ (\A k \in Messages : Told(k) /\ k.at > m.at => ~OfLink(k, i)) =>
           (m.up <=> i \in up)
    /\ \A i \in Hardware, a \in Addrs :
         OfPair(m, i, a) /\ (\A k \in Messages : Told(k) /\ k.at > m.at => ~OfPair(k, i, a)) =>
           (m.type = "RTM_NEWADDR" <=> <<i, a>> \in Pairs)

(* The user knows what no message is to come about. *)
UserFollows ==
  socket = "started" /\ ~missed =>
    /\ \A i \in Hardware : (\A m \in Messages : Told(m) => ~OfLink(m, i)) => (i \in links <=> i \in up)
    /\ \A i \in Hardware, a \in Addrs :
         (\A m \in Messages : Told(m) => ~OfPair(m, i, a)) => (<<i, a>> \in known <=> <<i, a>> \in Pairs)

UserInv == LastIsTrue /\ UserFollows

(* Report() adds a message after all others. *)
LEMMA ToldReport ==
  ASSUME Types, NEW m \in Messages, Report(m), m.at = version + 1, ~missed', socket \in {"bound", "started"}
  PROVE  /\ \A k \in Messages : Told(k)' <=> Told(k) \/ k = m
         /\ \A k \in Messages : Told(k) => k.at \in Nat /\ m.at > k.at
         /\ m.at \in Nat
<1>1. /\ Len(queue) \in Nat /\ Len(queue') = Len(queue) + 1
      /\ \A n \in 1..Len(queue) : queue'[n] = queue[n]
      /\ queue'[Len(queue) + 1] = m
      /\ message' = message
  BY ReportIs
<1>2. ASSUME NEW k \in Messages PROVE Told(k)' <=> Told(k) \/ k = m
  <2>1. /\ \A n \in 1..Len(queue) : n \in 1..Len(queue')
        /\ Len(queue) + 1 \in 1..Len(queue')
        /\ \A n \in 1..Len(queue') : n \in 1..Len(queue) \/ n = Len(queue) + 1
    BY <1>1
  <2> QED BY <1>1, <2>1 DEF Told
<1>3. ASSUME NEW k \in Messages, Told(k) PROVE k.at \in Nat /\ m.at > k.at
  <2>1. k.at \in Nat /\ k.at <= version /\ version \in Nat
    BY <1>3, OldMessages DEF Told
  <2> QED BY <2>1
<1> QED BY <1>2, <1>3, MessageIs

(* A message that is taken is still to be told. *)
LEMMA ToldTake ==
  ASSUME Types, NEW t \in Threads, Take(t)
  PROVE  \A m \in Messages : Told(m)' <=> Told(m)
<1>1. /\ Len(queue) \in Nat \ {0} /\ Len(queue') = Len(queue) - 1 /\ message[t] = NoMessage
      /\ \A u \in Threads : message'[u] = IF u = t THEN queue[1] ELSE message[u]
      /\ \A n \in 1..Len(queue') : queue'[n] = queue[n + 1] /\ n + 1 \in 1..Len(queue)
      /\ \A n \in 2..Len(queue) : queue'[n - 1] = queue[n] /\ n - 1 \in 1..Len(queue')
  BY TakeIs
<1>2. 1 \in 1..Len(queue) /\ \A n \in 1..Len(queue) : n = 1 \/ n \in 2..Len(queue)
  BY <1>1
<1>3. ASSUME NEW m \in Messages, Told(m) PROVE Told(m)'
  <2>1. CASE \E u \in Threads : message[u] = m
    <3>1. PICK u \in Threads : message[u] = m
      BY <2>1
    <3>2. u # t
      BY <1>1, <3>1, MessageIs
    <3> QED BY <1>1, <3>1, <3>2 DEF Told
  <2>2. ASSUME NEW n \in 1..Len(queue), queue[n] = m PROVE Told(m)'
    <3>1. CASE n = 1
      BY <1>1, <2>2, <3>1 DEF Told
    <3>2. CASE n \in 2..Len(queue)
      BY <1>1, <2>2, <3>2 DEF Told
    <3> QED BY <1>2, <3>1, <3>2
  <2> QED BY <1>3, <2>1, <2>2 DEF Told
<1>4. ASSUME NEW m \in Messages, Told(m)' PROVE Told(m)
  BY <1>1, <1>2, <1>4 DEF Told
<1> QED BY <1>3, <1>4

(* The callback is told the first of the messages, unless it overtakes. *)
LEMMA ToldCallback ==
  ASSUME Types, NEW t \in Threads, Callback(t)
  PROVE  /\ message[t] \in Messages /\ Told(message[t]) /\ message[t].at \in Nat
         /\ \A m \in Messages : Told(m)' => Told(m)
         /\ \A m \in Messages : Told(m) => Told(m)' \/ m = message[t]
         /\ ~missed' => \A m \in Messages : Told(m) => m.at \in Nat /\ message[t].at <= m.at
<1>1. /\ message[t] \in Messages /\ queue' = queue
      /\ \A u \in Threads : message'[u] = IF u = t THEN NoMessage ELSE message[u]
  BY MessageBecomes DEF Callback, Types, SocketTypes, Handling
<1>2. message[t].at \in Nat
  BY <1>1, MessageIs
<1>3. ASSUME ~missed', NEW m \in Messages, Told(m) PROVE message[t].at <= m.at
  <2>1. CASE \E u \in Threads : message[u] = m
    <3>1. PICK u \in Threads : message[u] = m
      BY <2>1
    <3>2. ~(message[u].at < message[t].at)
      BY <1>3, <3>1, MessageIs DEF Callback
    <3>3. m.at \in Nat
      BY MessageIs
    <3> QED BY <1>2, <3>1, <3>2, <3>3
  <2>2. CASE \E n \in 1..Len(queue) : queue[n] = m
    BY <1>1, <2>2 DEF Types, Dated
  <2> QED BY <1>3, <2>1, <2>2 DEF Told
<1>4. \A m \in Messages : Told(m)' => Told(m)
  BY <1>1, MessageIs DEF Told
<1>5. \A m \in Messages : Told(m) => Told(m)' \/ m = message[t]
  BY <1>1 DEF Told
<1>6. Told(message[t])
  BY DEF Told
<1> QED BY <1>1, <1>2, <1>3, <1>4, <1>5, <1>6, MessageIs

LEMMA UserKernel == ASSUME Types, UserInv, KernelStep PROVE UserInv'
<1>1. PICK m \in Messages : m.at = version + 1 /\ Report(m) /\ Tells(m)
  BY KernelReports
<1>2. UNCHANGED <<socket, stage, message, links, known>>
  BY <1>1, ReportIs
<1> SUFFICES ASSUME socket \in {"bound", "started"}, ~missed'
             PROVE  UserInv'
  BY <1>2 DEF UserInv, LastIsTrue, UserFollows
<1>3. ~missed
  BY <1>1, ReportIs DEF Types, SocketTypes
<1>4. /\ \A k \in Messages : Told(k)' <=> Told(k) \/ k = m
      /\ \A k \in Messages : Told(k) => k.at \in Nat /\ m.at > k.at
  BY <1>1, ToldReport
<1>5. LastIsTrue'
  <2> SUFFICES ASSUME NEW n \in Messages, Told(n)'
               PROVE  /\ \A i \in Hardware :
                           OfLink(n, i) /\ (\A k \in Messages : Told(k)' /\ k.at > n.at => ~OfLink(k, i)) =>
                             (n.up <=> i \in up')
                      /\ \A i \in Hardware, a \in Addrs :
                           OfPair(n, i, a) /\ (\A k \in Messages : Told(k)' /\ k.at > n.at => ~OfPair(k, i, a)) =>
                             (n.type = "RTM_NEWADDR" <=> <<i, a>> \in Pairs')
    BY DEF LastIsTrue, OfLink, OfPair
  <2>1. CASE n = m
    BY <1>1, <2>1 DEF Tells
  <2>2. CASE Told(n)
    <3>1. ASSUME NEW i \in Hardware, OfLink(n, i), \A k \in Messages : Told(k)' /\ k.at > n.at => ~OfLink(k, i)
          PROVE  n.up <=> i \in up'
      <4>1. ~OfLink(m, i)
        BY <1>4, <2>2, <3>1
      <4>2. i \in up' <=> i \in up
        BY <1>1, <4>1 DEF Tells
      <4>3. \A k \in Messages : Told(k) /\ k.at > n.at => ~OfLink(k, i)
        BY <1>4, <3>1
      <4>4. n.up <=> i \in up
        BY <1>3, <2>2, <3>1, <4>3 DEF UserInv, LastIsTrue
      <4> QED BY <4>2, <4>4
    <3>2. ASSUME NEW i \in Hardware, NEW a \in Addrs, OfPair(n, i, a),
                 \A k \in Messages : Told(k)' /\ k.at > n.at => ~OfPair(k, i, a)
          PROVE  n.type = "RTM_NEWADDR" <=> <<i, a>> \in Pairs'
      <4>1. ~OfPair(m, i, a)
        BY <1>4, <2>2, <3>2
      <4>2. <<i, a>> \in Pairs' <=> <<i, a>> \in Pairs
        BY <1>1, <4>1 DEF Tells
      <4>3. \A k \in Messages : Told(k) /\ k.at > n.at => ~OfPair(k, i, a)
        BY <1>4, <3>2
      <4>4. n.type = "RTM_NEWADDR" <=> <<i, a>> \in Pairs
        BY <1>3, <2>2, <3>2, <4>3 DEF UserInv, LastIsTrue
      <4> QED BY <4>2, <4>4
    <3> QED BY <3>1, <3>2
  <2> QED BY <1>4, <2>1, <2>2
<1>6. UserFollows'
  <2> SUFFICES ASSUME socket = "started"
               PROVE  /\ \A i \in Hardware :
                           (\A n \in Messages : Told(n)' => ~OfLink(n, i)) => (i \in links <=> i \in up')
                      /\ \A i \in Hardware, a \in Addrs :
                           (\A n \in Messages : Told(n)' => ~OfPair(n, i, a)) => (<<i, a>> \in known <=> <<i, a>> \in Pairs')
    BY <1>2 DEF UserFollows, OfLink, OfPair
  <2>1. ASSUME NEW i \in Hardware, \A n \in Messages : Told(n)' => ~OfLink(n, i) PROVE i \in links <=> i \in up'
    <3>1. ~OfLink(m, i) /\ \A n \in Messages : Told(n) => ~OfLink(n, i)
      BY <1>4, <2>1
    <3> QED BY <1>1, <1>3, <3>1 DEF UserInv, UserFollows, Tells
  <2>2. ASSUME NEW i \in Hardware, NEW a \in Addrs, \A n \in Messages : Told(n)' => ~OfPair(n, i, a)
        PROVE  <<i, a>> \in known <=> <<i, a>> \in Pairs'
    <3>1. ~OfPair(m, i, a) /\ \A n \in Messages : Told(n) => ~OfPair(n, i, a)
      BY <1>4, <2>2
    <3> QED BY <1>1, <1>3, <3>1 DEF UserInv, UserFollows, Tells
  <2> QED BY <2>1, <2>2
<1> QED BY <1>5, <1>6 DEF UserInv

(* The user applies what it is told. *)
LEMMA CallbackIs ==
  ASSUME Types, NEW t \in Threads, Callback(t)
  PROVE  /\ \A i \in Hardware :
              i \in links' <=> IF OfLink(message[t], i) THEN message[t].up ELSE i \in links
         /\ \A i \in Hardware, a \in Addrs :
              <<i, a>> \in known' <=>
                IF OfPair(message[t], i, a) THEN message[t].type = "RTM_NEWADDR" ELSE <<i, a>> \in known
<1> DEFINE m == message[t]
<1>0. /\ links' = CASE EventOf(m) = "LINK_ADDED" -> links \cup {m.index}
                    [] EventOf(m) = "LINK_REMOVED" -> links \ {m.index}
                    [] OTHER -> links
      /\ known' = CASE EventOf(m) = "ADDRESS_ADDED" -> known \cup {<<m.index, m.address>>}
                    [] EventOf(m) = "ADDRESS_REMOVED" -> known \ {<<m.index, m.address>>}
                    [] OTHER -> known
      /\ m \in Messages
  BY DEF Callback, Types, SocketTypes, Handling
<1> HIDE DEF m
<1>1. m \in LinkMessages \/ m \in AddressMessages \/ m \in [type : {"other"}, at : Nat]
  BY <1>0 DEF Messages
<1>2. CASE m \in LinkMessages
  <2>1. /\ m.type \in {"RTM_NEWLINK", "RTM_DELLINK"} /\ m.up \in BOOLEAN
        /\ m.type = "RTM_DELLINK" => ~m.up
    BY <1>2 DEF LinkMessages
  <2>2. links' = (IF m.up THEN links \cup {m.index} ELSE links \ {m.index}) /\ known' = known
    BY <1>0, <2>1 DEF EventOf
  <2> QED BY <2>1, <2>2 DEF OfLink, OfPair, m
<1>3. CASE m \in AddressMessages
  <2>1. m.type \in {"RTM_NEWADDR", "RTM_DELADDR"}
    BY <1>3 DEF AddressMessages
  <2>2. /\ links' = links
        /\ known' = IF m.type = "RTM_NEWADDR" THEN known \cup {<<m.index, m.address>>}
                                             ELSE known \ {<<m.index, m.address>>}
    BY <1>0, <2>1 DEF EventOf
  <2>3. \A i \in Hardware, a \in Addrs : OfPair(m, i, a) <=> <<i, a>> = <<m.index, m.address>>
    BY <2>1 DEF OfPair
  <2>4. \A i \in Hardware : ~OfLink(m, i)
    BY <2>1 DEF OfLink
  <2> QED BY <2>2, <2>3, <2>4 DEF m
<1>4. CASE m \in [type : {"other"}, at : Nat]
  <2>1. m.type = "other"
    BY <1>4
  <2>2. links' = links /\ known' = known
    BY <1>0, <2>1 DEF EventOf
  <2> QED BY <2>1, <2>2 DEF OfLink, OfPair, m
<1> QED BY <1>1, <1>2, <1>3, <1>4

LEMMA UserCallback == ASSUME Types, UserInv, NEW t \in Threads, Callback(t) PROVE UserInv'
<1> DEFINE m == message[t]
<1>1. UNCHANGED <<kernel, up, socket>> /\ (missed => missed')
  BY DEF Callback, kernelVars
<1>2. Pairs' = Pairs
  BY <1>1 DEF Pairs, Exists
<1> SUFFICES ASSUME ~missed', socket \in {"bound", "started"} PROVE UserInv'
  BY <1>1 DEF UserInv, LastIsTrue, UserFollows
<1>3. /\ m \in Messages /\ Told(m) /\ m.at \in Nat /\ ~missed
      /\ \A k \in Messages : Told(k)' => Told(k)
      /\ \A k \in Messages : Told(k) => Told(k)' \/ k = m
      /\ \A k \in Messages : Told(k) => k.at \in Nat /\ m.at <= k.at
  BY <1>1, ToldCallback
<1>4. /\ \A i \in Hardware :
           i \in links' <=> IF OfLink(m, i) THEN m.up ELSE i \in links
      /\ \A i \in Hardware, a \in Addrs :
           <<i, a>> \in known' <=> IF OfPair(m, i, a) THEN m.type = "RTM_NEWADDR" ELSE <<i, a>> \in known
  BY CallbackIs
<1> HIDE DEF m
(* What is later than another message is not m. *)
<1>5. ASSUME NEW n \in Messages, Told(n), NEW k \in Messages, Told(k), k.at > n.at PROVE Told(k)'
  <2>1. k # m
    BY <1>3, <1>5
  <2> QED BY <1>3, <1>5, <2>1
<1>6. LastIsTrue'
  <2> SUFFICES ASSUME NEW n \in Messages, Told(n)'
               PROVE  /\ \A i \in Hardware :
                           OfLink(n, i) /\ (\A k \in Messages : Told(k)' /\ k.at > n.at => ~OfLink(k, i)) =>
                             (n.up <=> i \in up)
                      /\ \A i \in Hardware, a \in Addrs :
                           OfPair(n, i, a) /\ (\A k \in Messages : Told(k)' /\ k.at > n.at => ~OfPair(k, i, a)) =>
                             (n.type = "RTM_NEWADDR" <=> <<i, a>> \in Pairs)
    BY <1>1, <1>2 DEF LastIsTrue, OfLink, OfPair
  <2>0. Told(n)
    BY <1>3
  <2>1. ASSUME NEW i \in Hardware, OfLink(n, i), \A k \in Messages : Told(k)' /\ k.at > n.at => ~OfLink(k, i)
        PROVE  n.up <=> i \in up
    <3>1. \A k \in Messages : Told(k) /\ k.at > n.at => ~OfLink(k, i)
      BY <1>5, <2>0, <2>1
    <3> QED BY <1>3, <2>0, <2>1, <3>1 DEF UserInv, LastIsTrue
  <2>2. ASSUME NEW i \in Hardware, NEW a \in Addrs, OfPair(n, i, a),
               \A k \in Messages : Told(k)' /\ k.at > n.at => ~OfPair(k, i, a)
        PROVE  n.type = "RTM_NEWADDR" <=> <<i, a>> \in Pairs
    <3>1. \A k \in Messages : Told(k) /\ k.at > n.at => ~OfPair(k, i, a)
      BY <1>5, <2>0, <2>2
    <3> QED BY <1>3, <2>0, <2>2, <3>1 DEF UserInv, LastIsTrue
  <2> QED BY <2>1, <2>2
<1>7. UserFollows'
  <2> SUFFICES ASSUME socket = "started"
               PROVE  /\ \A i \in Hardware :
                           (\A n \in Messages : Told(n)' => ~OfLink(n, i)) => (i \in links' <=> i \in up)
                      /\ \A i \in Hardware, a \in Addrs :
                           (\A n \in Messages : Told(n)' => ~OfPair(n, i, a)) => (<<i, a>> \in known' <=> <<i, a>> \in Pairs)
    BY <1>1, <1>2 DEF UserFollows, OfLink, OfPair
  <2>1. ASSUME NEW i \in Hardware, \A n \in Messages : Told(n)' => ~OfLink(n, i) PROVE i \in links' <=> i \in up
    <3>1. CASE OfLink(m, i)
      <4>1. \A k \in Messages : Told(k) /\ k.at > m.at => ~OfLink(k, i)
        BY <1>3, <1>5, <2>1
      <4>2. m.up <=> i \in up
        BY <1>3, <3>1, <4>1 DEF UserInv, LastIsTrue
      <4> QED BY <1>4, <3>1, <4>2
    <3>2. CASE ~OfLink(m, i)
      <4>1. \A k \in Messages : Told(k) => ~OfLink(k, i)
        BY <1>3, <2>1, <3>2
      <4>2. i \in links <=> i \in up
        BY <1>3, <4>1 DEF UserInv, UserFollows
      <4> QED BY <1>4, <3>2, <4>2
    <3> QED BY <3>1, <3>2
  <2>2. ASSUME NEW i \in Hardware, NEW a \in Addrs, \A n \in Messages : Told(n)' => ~OfPair(n, i, a)
        PROVE  <<i, a>> \in known' <=> <<i, a>> \in Pairs
    <3>1. CASE OfPair(m, i, a)
      <4>1. \A k \in Messages : Told(k) /\ k.at > m.at => ~OfPair(k, i, a)
        BY <1>3, <1>5, <2>2
      <4>2. m.type = "RTM_NEWADDR" <=> <<i, a>> \in Pairs
        BY <1>3, <3>1, <4>1 DEF UserInv, LastIsTrue
      <4> QED BY <1>4, <3>1, <4>2
    <3>2. CASE ~OfPair(m, i, a)
      <4>1. \A k \in Messages : Told(k) => ~OfPair(k, i, a)
        BY <1>3, <2>2, <3>2
      <4>2. <<i, a>> \in known <=> <<i, a>> \in Pairs
        BY <1>3, <4>1 DEF UserInv, UserFollows
      <4> QED BY <1>4, <3>2, <4>2
    <3> QED BY <3>1, <3>2
  <2> QED BY <2>1, <2>2
<1> QED BY <1>6, <1>7 DEF UserInv

(* With COMPLETE the user takes what the list shows; the rest is queued. *)
LEMMA UserStart == ASSUME Types, FreshInv, UserInv, NEW t \in Threads, Start(t) PROVE UserInv'
<1>1. /\ socket = "bound" /\ UNCHANGED <<kernel, up, queue, message>> /\ links' = up
      /\ known' = {p \in (DOMAIN adapters \cap Ifs) \X Addrs : Contains(adapters[p[1]].v4, p[2])}
      /\ ~missed' => ~missed /\ ~excused
  BY DEF Start, Complete, kernelVars
<1>2. Pairs' = Pairs
  BY <1>1 DEF Pairs, Exists
<1>3. \A m \in Messages : Told(m)' <=> Told(m)
  BY <1>1 DEF Told
<1>4. LastIsTrue'
  BY <1>1, <1>2, <1>3 DEF UserInv, LastIsTrue, OfLink, OfPair
<1>5. UserFollows'
  <2> SUFFICES ASSUME ~missed', NEW i \in Hardware, NEW a \in Addrs,
                      \A m \in Messages : Told(m) => ~OfPair(m, i, a)
               PROVE  <<i, a>> \in known' <=> <<i, a>> \in Pairs
    BY <1>1, <1>2, <1>3 DEF UserFollows, OfPair
  <2>1. Silent(shown, i, a)
    <3>1. \A n \in 1..Len(queue) : queue[n] \in Messages /\ Told(queue[n])
      BY OldMessages DEF Told
    <3> QED BY <3>1 DEF Silent
  <2>2. <<i, a>> \notin ToSet(<<>>)
    BY DEF ToSet
  <2>3. Has(adapters, i, a) <=> <<i, a>> \in Pairs
    BY <1>1, <2>1, <2>2 DEF FreshInv, Fresh, Knows
  <2>4. <<i, a>> \in known' <=> Has(adapters, i, a)
    BY <1>1, IfsAssumption DEF Has
  <2> QED BY <2>3, <2>4
<1> QED BY <1>4, <1>5 DEF UserInv

LEMMA UserStep == Types /\ FreshInv /\ UserInv /\ [Next]_vars => UserInv'
<1> SUFFICES ASSUME Types, FreshInv, UserInv, [Next]_vars PROVE UserInv'
  OBVIOUS
<1>0. ASSUME UNCHANGED <<kernel, up, socket, missed, links, known>>, \A m \in Messages : Told(m)' <=> Told(m)
      PROVE  UserInv'
  <2>1. Pairs' = Pairs
    BY <1>0 DEF Pairs, Exists
  <2> QED BY <1>0, <2>1 DEF UserInv, LastIsTrue, UserFollows, OfLink, OfPair
<1>1. CASE KernelStep
  BY <1>1, UserKernel
<1>2. CASE Construct
  <2>1. queue' = <<>> /\ message' = message /\ socket' = "bound" /\ \A t \in Threads : stage[t] = "idle"
    BY <1>2 DEF Construct, FreshInv, SocketInv
  <2>2. \A m \in Messages : ~Told(m)'
    <3>1. 1..Len(queue') = {}
      BY <2>1
    <3>2. \A t \in Threads : message'[t] \notin Messages
      BY <2>1 DEF Types, SocketTypes, Handling
    <3> QED BY <3>1, <3>2 DEF Told
  <2> QED BY <2>1, <2>2 DEF UserInv, LastIsTrue, UserFollows
<1>3. ASSUME NEW t \in Threads, Start(t) PROVE UserInv'
  BY <1>3, UserStart
<1>4. CASE Stop \/ StartUnwatched \/ WakeStopped
  BY <1>4 DEF Stop, StartUnwatched, Deaf, WakeStopped, UserInv, LastIsTrue, UserFollows
<1>5. ASSUME NEW t \in Threads, CallbackThrows(t) PROVE UserInv'
  BY <1>5 DEF CallbackThrows, UserInv, LastIsTrue, UserFollows
<1>6. CASE Wake
  BY <1>0, <1>6 DEF Wake, Told, kernelVars, user
<1>7. ASSUME NEW t \in Threads, ReceiveNothing(t) \/ UpdateReturns(t) PROVE UserInv'
  <2>1. UNCHANGED <<queue, message, kernel, up, socket, missed, links, known>>
    BY <1>7 DEF ReceiveNothing, UpdateReturns, kernelVars, user
  <2> QED BY <1>0, <2>1 DEF Told
<1>8. ASSUME NEW t \in Threads, Receive(t) PROVE UserInv'
  <2>1. Take(t)
    BY <1>8 DEF Receive
  <2>2. \A m \in Messages : Told(m)' <=> Told(m)
    BY <2>1, ToldTake
  <2>3. UNCHANGED <<kernel, up, socket, missed, links, known>>
    BY <2>1 DEF Take, kernelVars, user
  <2> QED BY <1>0, <2>2, <2>3
<1>9. ASSUME NEW t \in Threads, Callback(t) PROVE UserInv'
  BY <1>9, UserCallback
<1>10. ASSUME NEW t \in Threads, UserUpdate(t) \/ UpdateStep(t) PROVE UserInv'
  <2>1. UNCHANGED <<queue, message, kernel, up, socket, missed, links, known>>
    BY <1>10 DEF UserUpdate, UpdateStep, kernelVars, netlinkVars, user
  <2> QED BY <1>0, <2>1 DEF Told
<1>11. CASE UNCHANGED vars
  <2>1. UNCHANGED <<queue, message, kernel, up, socket, missed, links, known>>
    BY <1>11 DEF vars, kernelVars, netlinkVars, user
  <2> QED BY <1>0, <2>1 DEF Told
<1> QED BY <1>1, <1>2, <1>3, <1>4, <1>5, <1>6, <1>7, <1>8, <1>9, <1>10, <1>11 DEF Next

(* A user that starts from the list of COMPLETE and applies every event      *)
(* knows all links that are up and all addresses once process() has nothing  *)
(* left to do, although the list may be older or newer than the first        *)
(* message it is told and the threads of start() and of the event loop may   *)
(* be in process() at the same time, unless a message was lost or a callback *)
(* came after the one of a later message.                                    *)
THEOREM UserKnowsKernel == Spec => []EventsFollowKernel
<1>1. Types /\ Flow /\ UserInv => EventsFollowKernel
  <2> SUFFICES ASSUME Types, Flow, UserInv, Quiet, ~missed PROVE links = up /\ known = Pairs
    BY DEF EventsFollowKernel
  <2>1. socket = "started" /\ (\A t \in Threads : stage[t] = "idle") /\ queue = <<>>
    BY DEF Quiet, Draining, Flow, Awake
  <2>2. 1..Len(queue) = {}
    BY <2>1
  <2>3. \A m \in Messages : ~Told(m)
    BY <2>1, <2>2 DEF Told, Types, SocketTypes, Handling
  <2>4. links \subseteq Hardware /\ up \subseteq Hardware /\ known \subseteq Hardware \X Addrs
    BY DEF Types, SocketTypes
  <2>5. links = up
    BY <2>1, <2>3, <2>4 DEF UserInv, UserFollows
  <2>6. \A i \in Hardware, a \in Addrs : <<i, a>> \in known <=> <<i, a>> \in Pairs
    BY <2>1, <2>3 DEF UserInv, UserFollows
  <2>7. Pairs \subseteq Hardware \X Addrs
    <3> SUFFICES ASSUME NEW p \in Pairs PROVE p[1] \in Hardware
      BY DEF Pairs
    <3>1. p[1] \in Ifs /\ Contains(kernel[p[1]], p[2])
      BY DEF Pairs
    <3>2. ~Contains(<<>>, p[2])
      BY DEF Contains
    <3> QED BY <3>1, <3>2 DEF Types, KernelInv
  <2>8. known = Pairs
    BY <2>4, <2>6, <2>7
  <2> QED BY <2>5, <2>8
<1>2. Init => UserInv
  BY DEF Init, UserInv, LastIsTrue, UserFollows
<1>3. Spec => []FreshInv
  BY TypesAlways, FreshInit, FreshStep, PTL DEF Spec
<1>4. Spec => []UserInv
  BY <1>2, <1>3, TypesAlways, UserStep, PTL DEF Spec
<1> QED BY <1>1, <1>4, FlowAlways, PTL
=============================================================================
