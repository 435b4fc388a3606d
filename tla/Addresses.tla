------------------------------ MODULE Addresses ------------------------------
(***************************************************************************)
(* The functions of lib/communication/ipv4address.cpp and ipv6address.cpp, *)
(* the prefix length that NetadapterList computes and its checkSubnet.     *)
(*                                                                         *)
(* An address in text is the sequence of its parts between the dots.  A    *)
(* part is what the code gets from it: aton, its value for inet_aton,      *)
(* which knows octal and hexadecimal numbers, and stoul, its value for     *)
(* std::stoul with base 10; Bad where these refuse it.  A 32 bit word is   *)
(* a sequence of 32 bits, the highest first.                               *)
(***************************************************************************)
EXTENDS Integers, SequencesExt

CONSTANTS
  Texts,     \* the texts the functions are called with
  Netmasks,  \* the netmasks and addresses they are combined with, as octets
  UIntRange  \* how many values an unsigned int has (2^32)

ASSUME AddressAssumption ==
  /\ \A text \in Texts : /\ text \in Seq([aton : Nat \cup {-1}, stoul : Nat \cup {-1}])
                          /\ text # <<>>
  /\ Netmasks \subseteq [1..4 -> 0..255]
  /\ UIntRange \in Nat /\ UIntRange > 255

VARIABLES
  ip,     \* the text that is looked at, or <<>>
  length  \* the prefix length that is looked at, or -1

addressVars == <<ip, length>>

NoInput == ip = <<>> /\ length = -1
AddressesInit == (ip \in Texts /\ length = -1) \/ (ip = <<>> /\ length \in 0..128)

Bad == -1             \* what inet_aton and std::stoul make of what is no number
Invalid == -1          \* what the functions return for what is no netmask
NoText == <<>>         \* the empty string

Number(n) == [aton |-> n, stoul |-> n]
Text(octets) == [k \in DOMAIN octets |-> Number(octets[k])]

(* Written in decimal numbers without leading zeros, as inet_ntoa writes. *)
Plain(text) == \A k \in DOMAIN text : text[k].aton = text[k].stoul

Weights == <<128, 64, 32, 16, 8, 4, 2, 1>>
Bits(octet) == [k \in 1..8 |-> (octet \div Weights[k]) % 2]
Word(octets) == [k \in 1..32 |-> Bits(octets[(k + 7) \div 8])[((k - 1) % 8) + 1]]
Octet(bits) == 128 * bits[1] + 64 * bits[2] + 32 * bits[3] + 16 * bits[4]
                 + 8 * bits[5] + 4 * bits[6] + 2 * bits[7] + bits[8]
Octets(word) == [k \in 1..4 |-> Octet(SubSeq(word, 8 * k - 7, 8 * k))]

(* External: inet_aton.  The last part stands for all octets that are left. *)
Places == <<16777216, 65536, 256, 1>>

InetAtonAccepts(text) ==
  LET n == Len(text)
  IN  /\ n \in 1..4
      /\ \A k \in 1..n : text[k].aton # Bad
      /\ \A k \in 1..n - 1 : text[k].aton < 256
      /\ n > 1 => text[n].aton < Places[n - 1]

InetAton(text) ==
  LET n == Len(text)
  IN  [k \in 1..4 |-> IF k < n THEN text[k].aton ELSE (text[n].aton \div Places[k]) % 256]

FourParts(text) == Len(text) = 4 /\ InetAtonAccepts(text)

(* The text is compared, not the number: it begins with "169.254". *)
IsApipaAddress(text) ==
  FourParts(text) /\ text[1] = Number(169) /\ text[2] = Number(254)

IsValidManualAddress(text) ==
  /\ FourParts(text)
  /\ LET octets == InetAton(text)
         upperMost == octets[1]
     IN  \/ octets = <<0, 0, 0, 0>>
         \/ /\ upperMost \notin {0, 127}
            /\ upperMost < 224
            /\ ~IsApipaAddress(text)

IsValidNetmask(text) ==
  FourParts(text) /\ InetAton(text) \notin {<<0, 0, 0, 0>>, <<255, 255, 255, 255>>}

(* An unsigned long becomes an unsigned int. *)
ToUInt(n) == IF n < UIntRange THEN n ELSE n % UIntRange

(* std::stoul throws for a part that is no number. *)
GetSubnet(address, netmask) ==
  LET throws(k) == Bad \in {address[k].stoul, netmask[k].stoul}
      tooLarge(k) == ToUInt(address[k].stoul) > 255 \/ ToUInt(netmask[k].stoul) > 255
      ends(k) == throws(k) \/ tooLarge(k)
      And(a, b) == [k \in 1..8 |-> a[k] * b[k]]
  IN  IF Len(address) # 4 \/ Len(netmask) # 4
      THEN NoText
      ELSE IF \E k \in 1..4 : ends(k)
           THEN LET first == Min({k \in 1..4 : ends(k)})
                IN  IF throws(first) THEN "exception" ELSE NoText
           ELSE [k \in 1..4 |-> Number(Octet(And(Bits(ToUInt(address[k].stoul)),
                                                 Bits(ToUInt(netmask[k].stoul)))))]

(* The loop shifts 32 bits in, as many ones as prefix still has. *)
GetNetmaskFromPrefix(prefix) ==
  LET subnet[k \in 0..32] ==
        IF k = 0 THEN [bit \in 1..32 |-> 0]
        ELSE [bit \in 1..32 |-> IF bit < 32 THEN subnet[k - 1][bit + 1]
                               ELSE IF k <= prefix THEN 1 ELSE 0]
  IN  IF prefix > 32 THEN NoText ELSE Text(Octets(subnet[32]))

(* Mutant: a gap of one zero is overlooked. *)
GapAfterTwo(word, prefix) == \E pos \in prefix + 2..31 : word[pos + 1] = 1

(* The check for gaps, from the second bit behind the ones on. *)
GapAfter(word, prefix) == \E pos \in prefix + 1..31 : word[pos + 1] = 1

GetPrefixFromNetmask(text) ==
  LET word == Word(InetAton(text))
      Ones[k \in 1..33] == IF k = 33 \/ word[k] = 0 THEN k - 1 ELSE Ones[k + 1]
      allOnes == InetAton(text) = <<255, 255, 255, 255>>
      refused == \/ ~InetAtonAccepts(text)
                 \/ allOnes /\ text # Text(<<255, 255, 255, 255>>)
                 \/ GapAfter(word, Ones[1])
  IN  IF refused THEN Invalid ELSE Ones[1]

BitCount(bits) ==
  bits[1] + bits[2] + bits[3] + bits[4] + bits[5] + bits[6] + bits[7] + bits[8]

(* The bits of an IPv6 netmask up to its first octet that is 0. *)
PrefixOfIpv6Netmask(octets) ==
  LET bitCount[k \in 1..17] ==
        IF k = 17 \/ octets[k] = 0 THEN 0 ELSE BitCount(Bits(octets[k])) + bitCount[k + 1]
  IN  bitCount[1]

(* Of an IPv6 address, whether its text begins with "::ffff:", and the rest. *)
GetIpv4MappedAddress(hybrid, rest) == IF hybrid /\ FourParts(rest) THEN rest ELSE NoText

(* Adapters in the order of their index; the empty name if there is none. *)
CheckSubnet(adapters, excluded, address, netmask) ==
  LET requested == GetSubnet(address, netmask)
      Occupies(adapter) ==
        /\ adapter.name # excluded
        /\ \E a \in adapter.addresses : GetSubnet(a.address, a.netmask) = requested
      k == SelectInSeq(adapters, Occupies)
  IN  IF k = 0 THEN "" ELSE adapters[k].name

-----------------------------------------------------------------------------
(* The netmask with n ones. *)
Mask(n, width) == [k \in 1..width |-> IF k <= n THEN 1 ELSE 0]

(* getNetmaskFromPrefix and getPrefixFromNetmask are inverse, and the count  *)
(* of NetadapterList gives the same number for every IPv6 netmask.           *)
PrefixesInverse ==
  LET octets == [k \in 1..16 |-> Octet(SubSeq(Mask(length, 128), 8 * k - 7, 8 * k))]
  IN  /\ PrefixOfIpv6Netmask(octets) = length
      /\ IF length > 32
         THEN GetNetmaskFromPrefix(length) = NoText
         ELSE GetPrefixFromNetmask(GetNetmaskFromPrefix(length)) = length

(* Netmasks that are accepted are those of n ones and then zeros. *)
PrefixExact ==
  LET prefix == GetPrefixFromNetmask(ip)
      isMask(n) == /\ InetAtonAccepts(ip)
                   /\ Word(InetAton(ip)) = Mask(n, 32)
                   /\ n = 32 => ip = Text(<<255, 255, 255, 255>>)
  IN  IF prefix = Invalid THEN \A n \in 0..32 : ~isMask(n) ELSE isMask(prefix)

(* Two addresses are in one subnet if and only if they agree in the bits of *)
(* the netmask, so that checkSubnet finds the first adapter with such an     *)
(* address; a subnet is in itself.                                           *)
SubnetExact ==
  FourParts(ip) /\ Plain(ip) => \A netmask \in Netmasks, other \in Netmasks :
    LET mask == Text(netmask)
        subnet == GetSubnet(ip, mask)
        word == Word(InetAton(ip))
        agrees == \A k \in 1..32 : Word(netmask)[k] = 1 => word[k] = Word(other)[k]
        adapter(name) == [name |-> name, addresses |-> {[address |-> Text(other), netmask |-> mask]}]
        adapters == <<adapter("eth0"), adapter("eth1")>>
    IN  /\ GetSubnet(subnet, mask) = subnet
        /\ CheckSubnet(adapters, "", ip, mask) = IF agrees THEN "eth0" ELSE ""
        /\ CheckSubnet(adapters, "eth0", ip, mask) = IF agrees THEN "eth1" ELSE ""

(* Which ranges an address is accepted from. *)
ReservedRefused ==
  /\ IsValidManualAddress(ip) /\ InetAton(ip) # <<0, 0, 0, 0>>
       => LET octets == InetAton(ip)
          IN  /\ octets[1] \in (1..126) \cup (128..223)
              /\ <<octets[1], octets[2]>> = <<169, 254>> => ~Plain(ip)
  /\ GetIpv4MappedAddress(TRUE, ip) # NoText
       => \/ IsValidManualAddress(ip) \/ IsApipaAddress(ip)
          \/ InetAton(ip)[1] \in {0, 127} \cup (224..255)

(* A word in which a zero is followed by a one somewhere. *)
Gapped(word) == \E j, k \in 1..32 : j < k /\ word[j] = 0 /\ word[k] = 1

(* Of the texts of four parts, isValidNetmask accepts the netmasks that      *)
(* getPrefixFromNetmask gives a length for, except those of 0 and 32 ones,   *)
(* and every netmask with a gap as well.                                     *)
NetmasksAccepted ==
  IsValidNetmask(ip) <=>
    FourParts(ip) /\ (GetPrefixFromNetmask(ip) \in 1..31 \/ Gapped(Word(InetAton(ip))))

(* For every text, whatever its notation and number of parts:                *)
(* getPrefixFromNetmask (ipv4address.cpp:185) accepts exactly the netmasks   *)
(* of n ones and then zeros, n = 0 and n = 32 included, but for notations    *)
(* inet_addr cannot tell from an error, and getNetmaskFromPrefix (165) is    *)
(* its inverse; getSubnet (139) and checkSubnet (netadapterlist.cpp:265)     *)
(* find exactly the addresses of one subnet; and no address of a reserved    *)
(* range is valid by hand (58).  The last two are so for plain numbers only: *)
(* getSubnet reads as decimal what the other functions read as octal, and    *)
(* 169.254 written in octal passes for valid.  isValidNetmask (107) is not   *)
(* what ipv4address.h:28 says: it accepts 255.0.255.0 and every other        *)
(* netmask with a gap (ipv4address.h:32: not allowed), and it refuses        *)
(* 255.255.255.255, which ipv4address.cpp:194 calls valid, and 0.0.0.0;      *)
(* NetmasksAccepted says in what the two functions differ.                   *)
AddressesExact ==
  /\ length # -1 => PrefixesInverse
  /\ ip # <<>> => PrefixExact /\ SubnetExact /\ ReservedRefused /\ NetmasksAccepted
=============================================================================
