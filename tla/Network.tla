------------------------------ MODULE Network -------------------------------
(***************************************************************************)
(* IP addresses and CIDRs, src/src/functions/ip.rs.  An address is its     *)
(* groups: four octets, or eight segments of sixteen bits.  The text of an *)
(* address is the address with what the parsers look at besides: a zone    *)
(* and whether it is the text that Rust would write.  Reading text that    *)
(* stands for no address is Rust's and always fails.                       *)
(***************************************************************************)
EXTENDS CelValues

IP(groups)           == [kind |-> "ip", groups |-> groups]
CIDR(groups, prefix) == [kind |-> "cidr", groups |-> groups, prefix |-> prefix]

IPText(groups, zone, canonical) ==
  [kind |-> "string", form |-> "ip", groups |-> groups, zone |-> zone,
   canonical |-> canonical]

CIDRText(groups, prefix) ==
  [kind |-> "string", form |-> "cidr", groups |-> groups, prefix |-> prefix]

---------------------------------------------------------------------------
IsV4(groups)   == Len(groups) = 4
GroupBits(groups) == IF IsV4(groups) THEN 8 ELSE 16
AddressBits(groups) == Len(groups) * GroupBits(groups)
Family(groups) == IF IsV4(groups) THEN 4 ELSE 6

IsMapped(groups) ==
  /\ ~IsV4(groups)
  /\ \A i \in 1..5 : groups[i] = 0
  /\ groups[6] = 65535

\* The bits of group i that lie within a prefix.
Covered(groups, prefix, i) ==
  LET rest == prefix - GroupBits(groups) * (i - 1)
  IN  IF rest < 0 THEN 0 ELSE IF rest > GroupBits(groups) THEN GroupBits(groups)
      ELSE rest

HostBits(groups, prefix, i) == 2^(GroupBits(groups) - Covered(groups, prefix, i))

\* IpNet::trunc: the host bits are cleared.
Truncated(groups, prefix) ==
  [i \in DOMAIN groups |->
     groups[i] - (groups[i] % HostBits(groups, prefix, i))]

\* IpNet::contains
Contained(cidr, groups) ==
  /\ Len(cidr.groups) = Len(groups)
  /\ Truncated(cidr.groups, cidr.prefix) = Truncated(groups, cidr.prefix)

---------------------------------------------------------------------------
\* An Option: zones and mapped addresses are refused.
ParseIPAddr(v) ==
  IF v.kind = "string" /\ v.form = "ip" /\ ~v.zone /\ ~IsMapped(v.groups)
  THEN {IP(v.groups)} ELSE {}

ParseCIDRNet(v) ==
  IF v.kind = "string" /\ v.form = "cidr" /\ v.prefix <= AddressBits(v.groups)
       /\ ~IsMapped(v.groups)
  THEN {CIDR(v.groups, v.prefix)} ELSE {}

OrError(option) == IF option = {} THEN Error ELSE CHOOSE v \in option : TRUE

---------------------------------------------------------------------------
IsLoopback(g)    == IF IsV4(g) THEN g[1] = 127 ELSE g = <<0, 0, 0, 0, 0, 0, 0, 1>>
IsUnspecified(g) == \A i \in DOMAIN g : g[i] = 0
IsMulticast(g)   == IF IsV4(g) THEN g[1] \in 224..239 ELSE g[1] \div 256 = 255
IsBroadcast(g)   == IsV4(g) /\ \A i \in DOMAIN g : g[i] = 255

\* The scope, not the flags, of a multicast address makes it link-local.
IsLinkLocalMulticast(g) ==
  IF IsV4(g) THEN g[1] = 224 /\ g[2] = 0 /\ g[3] = 0
  ELSE g[1] \div 256 = 255 /\ g[1] % 16 = 2

IsLinkLocalUnicast(g) ==
  IF IsV4(g) THEN g[1] = 169 /\ g[2] = 254 ELSE g[1] \div 64 = 65152 \div 64

\* A slip: link-local addresses count as global.
IsGlobalUnicastLax(g) ==
  ~IsLoopback(g) /\ ~IsUnspecified(g) /\ ~IsMulticast(g) /\ ~IsBroadcast(g)

IsGlobalUnicast(g) ==
  /\ ~IsLoopback(g) /\ ~IsUnspecified(g) /\ ~IsMulticast(g)
  /\ ~IsLinkLocalUnicast(g) /\ ~IsBroadcast(g)

---------------------------------------------------------------------------
ContainsIP(cidr, arg) ==
  LET addr == IF arg.kind = "ip" THEN {arg} ELSE ParseIPAddr(arg)
  IN  IF addr = {} THEN Error
      ELSE Bool(\A a \in addr : Contained(cidr, a.groups))

\* A slip: only the address of the inner network is looked at.
ContainsCIDRAddress(cidr, arg) ==
  LET inner == IF arg.kind = "cidr" THEN {arg} ELSE ParseCIDRNet(arg)
  IN  IF inner = {} THEN Error
      ELSE Bool(\A n \in inner : Contained(cidr, n.groups))

ContainsCIDR(cidr, arg) ==
  LET inner == IF arg.kind = "cidr" THEN {arg} ELSE ParseCIDRNet(arg)
  IN  IF inner = {} THEN Error
      ELSE Bool(\A n \in inner :
                  Contained(cidr, n.groups) /\ cidr.prefix <= n.prefix)

Masked(cidr) == CIDR(Truncated(cidr.groups, cidr.prefix), cidr.prefix)

\* The address as it was written, host bits included.
CIDRIP(cidr) == IP(cidr.groups)

\* Rust writes the canonical text.
IPString(ip)     == IPText(ip.groups, FALSE, TRUE)
CIDRString(cidr) == CIDRText(cidr.groups, cidr.prefix)

---------------------------------------------------------------------------
\* Functions of a string.
AddressTextCall(name, v) ==
  LET ip   == ParseIPAddr(v)
      cidr == ParseCIDRNet(v)
  IN  IF v.kind # "string" THEN Error
      ELSE CASE name = "isIP"   -> Bool(ip # {})
             [] name = "ip.isCanonical" ->
                  IF ip = {} THEN Error ELSE Bool(v.canonical)
             [] name = "isIPv4" -> Bool(\E a \in ip : IsV4(a.groups))
             [] name = "isIPv6" -> Bool(\E a \in ip : ~IsV4(a.groups))
             [] name = "cidr"   -> OrError(cidr)
             [] name = "isCIDR" -> Bool(cidr # {})
             [] name = "isCIDRv4" -> Bool(\E n \in cidr : IsV4(n.groups))
             [] name = "isCIDRv6" -> Bool(\E n \in cidr : ~IsV4(n.groups))

\* Methods of an address.
IPCall(name, ip) ==
  CASE name = "family"        -> Int64(Family(ip.groups))
    [] name = "isLoopback"    -> Bool(IsLoopback(ip.groups))
    [] name = "isUnspecified" -> Bool(IsUnspecified(ip.groups))
    [] name = "isLinkLocalMulticast" -> Bool(IsLinkLocalMulticast(ip.groups))
    [] name = "isLinkLocalUnicast"   -> Bool(IsLinkLocalUnicast(ip.groups))
    [] name = "isGlobalUnicast"      -> Bool(IsGlobalUnicast(ip.groups))

\* Methods of a CIDR.
CIDRCall(name, cidr, args) ==
  CASE name = "prefixLength" -> Int64(cidr.prefix)
    [] name = "masked"       -> Masked(cidr)
    [] name = "containsIP"   -> IF args = <<>> THEN Error
                                ELSE ContainsIP(cidr, args[1])
    [] name = "containsCIDR" -> IF args = <<>> THEN Error
                                ELSE ContainsCIDR(cidr, args[1])
=============================================================================
