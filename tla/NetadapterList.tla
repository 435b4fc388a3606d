--------------------------- MODULE NetadapterList ---------------------------
(***************************************************************************)
(* The list of network adapters (lib/communication/linux/netadapterlist.   *)
(* cpp).  update() asks the kernel for all interfaces, looks each of them  *)
(* up again (hardware address, index), and replaces m_adapters under the   *)
(* mutex; only this last step is under the mutex.  The kernel changes      *)
(* between any two steps, and several threads may be in update(): the one  *)
(* of the event loop (see Netlink) and those of users.                     *)
(*                                                                         *)
(* An adapter is its name (the interface it was made for) and its IPv4     *)
(* addresses in order.  IPv6 addresses, MAC addresses and GUIDs are data   *)
(* nothing here depends on.                                                *)
(***************************************************************************)
EXTENDS Integers, Sequences, SequencesExt

CONSTANTS
  Ifs,        \* interfaces, named by their index
  Hardware,   \* the ones with a hardware address and multicast
  Addrs,      \* IPv4 addresses
  Apipa,      \* the link local ones among them
  Threads,    \* threads that call update()
  Gone        \* in place of the addresses of an interface that does not exist

ASSUME IfsAssumption == Ifs \subseteq Nat \ {0} /\ IsFiniteSet(Ifs) /\ Hardware \subseteq Ifs
ASSUME AddrsAssumption == IsFiniteSet(Addrs) /\ Apipa \subseteq Addrs /\ "link" \notin Addrs
ASSUME GoneAssumption == Gone \notin Seq(Addrs)

Idle == [at |-> "idle"]                       \* the thread is not in update()

VARIABLES
  kernel,     \* per interface: its addresses in the order they were added, or Gone
  version,    \* number of changes of kernel
  adapters,   \* m_adapters: index -> adapter
  job,        \* per thread: the local variables of update()
  shown,      \* the version of the kernel that adapters shows
  excused     \* something that is not repaired yet kept the list from following

listVars == <<adapters, job, shown, excused>>

Exists(i) == kernel[i] # Gone

(* a comes before b in s. *)
Before(s, a, b) == \E m, n \in DOMAIN s : m < n /\ s[m] = a /\ s[n] = b

(* What getifaddrs() returns: a link layer entry for each interface, then   *)
(* one entry for each address.                                              *)
Entry ==
  {e \in Ifs \X (Addrs \cup {"link"}) : Exists(e[1]) /\ (e[2] = "link" \/ Contains(kernel[e[1]], e[2]))}

Precedes(d, e) ==
  IF d[2] = "link"
    THEN e[2] = "link" => d[1] < e[1]
    ELSE e[2] # "link" /\ (d[1] < e[1] \/ (d[1] = e[1] /\ Before(kernel[d[1]], d[2], e[2])))

Entries == {s \in SetToSeqs(Entry) : \A j, k \in DOMAIN s : j < k => Precedes(s[j], s[k])}

(* Mutant: addresses are kept in the order of the kernel. *)
WithAddressInOrder(v4, a) == IF a = "link" THEN v4 ELSE Append(v4, a)

(* The adapter of one more entry: "apipa address at the end!" *)
WithAddress(v4, a) ==
  IF a = "link" THEN v4 ELSE IF a \in Apipa THEN Append(v4, a) ELSE <<a>> \o v4

(* adapterMap[index] with the entry of interface i added to it. *)
Extended(map, index, i, a) ==
  LET known == index \in DOMAIN map
      name == IF known THEN map[index].name ELSE i
      v4 == IF known THEN map[index].v4 ELSE <<>>
  IN [n \in DOMAIN map \cup {index} |->
        IF n = index THEN [name |-> name, v4 |-> WithAddress(v4, a)] ELSE map[n]]

ListInit ==
  /\ kernel \in {k \in [Ifs -> {Gone, <<>>}] : \A i \in Ifs \ Hardware : k[i] = <<>>}
  /\ version = 0
  /\ adapters = [i \in {i \in Hardware : Exists(i)} |-> [name |-> i, v4 |-> <<>>]]
  /\ job = [t \in Threads |-> Idle]
  /\ shown = 0
  /\ excused = FALSE

-----------------------------------------------------------------------------
(* update() in thread t *)

At(t, at) == job[t].at = at

UpdateCall(t) == job' = [job EXCEPT ![t] = [at |-> "getifaddrs"]]

GetIfAddrs(t) ==
  /\ At(t, "getifaddrs")
  /\ \E entries \in Entries :
       job' = [job EXCEPT ![t] =
         [at |-> "entry", rest |-> entries, map |-> <<>>, base |-> version, clean |-> TRUE]]
  /\ UNCHANGED <<adapters, shown, excused>>

(* getifaddrs() fails: the list stays as it is. *)
GetIfAddrsFails(t) ==
  /\ At(t, "getifaddrs")
  /\ job' = [job EXCEPT ![t] = Idle]
  /\ excused' = TRUE
  /\ UNCHANGED <<adapters, shown>>

(* getHardwareInfo: an interface that is gone or has no hardware address is *)
(* skipped, and so is every interface if there is no descriptor for asking. *)
GetHardwareInfo(t) ==
  /\ At(t, "entry")
  /\ job[t].rest # <<>>
  /\ LET i == Head(job[t].rest)[1]
         isHardware == Exists(i) /\ i \in Hardware
         skipped == [job[t] EXCEPT !.rest = Tail(@)]
     IN \/ job' = [job EXCEPT ![t] = IF isHardware THEN [@ EXCEPT !.at = "index"] ELSE skipped]
        \/ isHardware /\ job' = [job EXCEPT ![t] = [skipped EXCEPT !.clean = FALSE]]
  /\ UNCHANGED <<adapters, shown, excused>>

(* if_nametoindex() returns 0 for an interface that is gone. *)
AddEntry(t) ==
  /\ At(t, "index")
  /\ LET i == Head(job[t].rest)[1]
         index == IF Exists(i) THEN i ELSE 0
     IN job' = [job EXCEPT ![t].at = "entry", ![t].rest = Tail(@),
                           ![t].map = Extended(@, index, i, Head(job[t].rest)[2])]
  /\ UNCHANGED <<adapters, shown, excused>>

(* m_adapters is replaced.  The list follows the kernel again if this       *)
(* update() saw the present interfaces; it does not if entries were skipped *)
(* or a newer list is overwritten.                                          *)
Store(t) ==
  /\ At(t, "entry")
  /\ job[t].rest = <<>>
  /\ adapters' = job[t].map
  /\ shown' = job[t].base
  /\ excused' = IF job[t].clean /\ job[t].base = version
                  THEN FALSE
                  ELSE excused \/ ~job[t].clean \/ job[t].base < shown
  /\ job' = [job EXCEPT ![t] = Idle]

Update(t) == GetIfAddrs(t) \/ GetIfAddrsFails(t) \/ GetHardwareInfo(t) \/ AddEntry(t) \/ Store(t)
=============================================================================
