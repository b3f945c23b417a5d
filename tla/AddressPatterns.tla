--------------------------- MODULE AddressPatterns ---------------------------
(***************************************************************************)
(* What one token of a host or port list matches (rule.rs:381-505).        *)
(* A token is taken after the text has been split and its numbers parsed;  *)
(* a part that does not parse is kept as such, and matches nothing.        *)
(*                                                                         *)
(* An IPv4 address is a tuple of octets, an IPv6 address a tuple of Width  *)
(* bits, the most significant first.                                       *)
(***************************************************************************)
EXTENDS Encodings

CONSTANTS
  Width,   \* bits of an IPv6 address (128)
  MaxPort, \* the largest port (65535)
  Star     \* the wildcard octet

ASSUME PatternAssumption == Width \in Nat \ {0} /\ MaxPort \in Nat /\ Star \notin 0..Base

V4 == [1..Octets -> 0..(Base - 1)]
V6 == [1..Width -> 0..1]
Ports == 0..MaxPort

(* Parts of a dotted pattern: a wildcard, a number, or a number that does  *)
(* not fit an octet; and there may be too few of them.                     *)
Dotted == UNION {[1..k -> {Star} \cup 0..Base] : k \in {Octets - 1, Octets}}

Pattern ==
  [kind : {"any"}] \cup
  [kind : {"range4"}, lo : V4, hi : V4] \cup
  [kind : {"octets"}, parts : Dotted] \cup
  [kind : {"range6"}, lo : V6, hi : V6] \cup
  [kind : {"exact6"}, addr : V6] \cup
  [kind : {"cidr"}, net : V6, len : 0..(Width + 1)] \cup
  [kind : {"port"}, port : Ports] \cup
  [kind : {"ports"}, lo : Ports, hi : Ports]

(* Mutant: the octets are read in the byte order of a little-endian host. *)
NumberLittleEndian(ip) == FromLe(ip)

(* u32::from, and u128::from. *)
Number(ip) == Value(Base, ip)
Number6(ip) == Value(2, ip)

(* Mutant: the end of a range is not part of it. *)
InRangeExclusive(lo, n, hi) == lo <= n /\ n < hi

InRange(lo, n, hi) == lo <= n /\ n <= hi

MatchIpv4Pattern(p, ip) ==
  \/ p.kind = "any"
  \/ p.kind = "range4" /\ InRange(Number(p.lo), Number(ip), Number(p.hi))
  \/ /\ p.kind = "octets"
     /\ Len(p.parts) = Octets
     /\ \A k \in 1..Octets : p.parts[k] \in {Star, ip[k]}

(* u128::MAX << (128 - len). *)
Mask(len) == Shl(Ones(Width), Width - len)

(* Mutant: no case for len = 0; the shift distance wraps at the width. *)
MatchCidrUnguarded(net, len, ip) ==
  LET mask == Shl(Ones(Width), (Width - len) % Width)
  IN  len <= Width /\ And(net, mask) = And(ip, mask)

MatchCidr(net, len, ip) ==
  /\ len <= Width
  /\ len = 0 \/ And(net, Mask(len)) = And(ip, Mask(len))

MatchIpv6Pattern(p, ip) ==
  \/ p.kind = "any"
  \/ p.kind = "cidr" /\ MatchCidr(p.net, p.len, ip)
  \/ p.kind = "range6" /\ InRange(Number6(p.lo), Number6(ip), Number6(p.hi))
  \/ p.kind = "exact6" /\ p.addr = ip

MatchPortPattern(p, port) ==
  \/ p.kind = "any"
  \/ p.kind = "ports" /\ InRange(p.lo, port, p.hi)
  \/ p.kind = "port" /\ p.port = port

(* match_ip_pattern: a pattern of the other family matches nothing. *)
Address == [family : {"v4"}, addr : V4] \cup [family : {"v6"}, addr : V6]
PortOf  == [family : {"port"}, addr : Ports]

MatchIpPattern(p, a) ==
  IF a.family = "v4" THEN MatchIpv4Pattern(p, a.addr) ELSE MatchIpv6Pattern(p, a.addr)

-----------------------------------------------------------------------------
VARIABLES pattern, dest, answer

vars == <<pattern, dest, answer>>

Init ==
  /\ pattern \in Pattern
  /\ dest \in Address \cup PortOf
  /\ pattern.kind # "any" => (dest.family = "port" <=> pattern.kind \in {"port", "ports"})
  /\ answer = "pending"

Answer ==
  /\ answer = "pending"
  /\ answer' = IF \/ dest.family = "port" /\ MatchPortPattern(pattern, dest.addr)
                  \/ dest.family # "port" /\ MatchIpPattern(pattern, dest)
               THEN "match" ELSE "other"
  /\ UNCHANGED <<pattern, dest>>

Next == Answer

Spec == Init /\ [][Next]_vars

-----------------------------------------------------------------------------
Asked(kind) == answer # "pending" /\ pattern.kind = kind
Yes == answer = "match"

(* The order of addresses as they are written. *)
Precedes(a, b) ==
  a = b \/ \E k \in DOMAIN a : a[k] < b[k] /\ \A j \in 1..(k - 1) : a[j] = b[j]

(* An IPv6 CIDR matches the addresses that begin with the bits of the      *)
(* network: all of them for /0, one for the full width, none beyond it.    *)
(* They are the addresses from the network followed by zeros to the        *)
(* network followed by ones.                                               *)
CidrIsPrefix ==
  Asked("cidr") /\ dest.family = "v6" =>
    LET len == pattern.len
        Then(bit) == [i \in 1..Width |-> IF i <= len THEN pattern.net[i] ELSE bit]
    IN  /\ Yes <=> len <= Width /\ \A i \in 1..len : dest.addr[i] = pattern.net[i]
        /\ len <= Width => (Yes <=> InRange(Number6(Then(0)), Number6(dest.addr), Number6(Then(1))))

(* A range of addresses, compared as u32 or u128, is the one its text      *)
(* suggests: the first octet, or bit, in which two addresses differ orders *)
(* them.                                                                   *)
RangeIsLexicographic ==
  (Asked("range4") /\ dest.family = "v4") \/ (Asked("range6") /\ dest.family = "v6") =>
    (Yes <=> Precedes(pattern.lo, dest.addr) /\ Precedes(dest.addr, pattern.hi))

Is(f, a) == dest.family = f /\ dest.addr = a

(* The ways to write a single address or port (a range from it to itself,  *)
(* all its octets, a CIDR of full width, the address) match that one and   *)
(* no other.                                                               *)
SingleAddress ==
  CASE Asked("range4") /\ pattern.lo = pattern.hi -> Yes <=> Is("v4", pattern.lo)
    [] Asked("range6") /\ pattern.lo = pattern.hi -> Yes <=> Is("v6", pattern.lo)
    [] Asked("octets") /\ pattern.parts \in V4 -> Yes <=> Is("v4", pattern.parts)
    [] Asked("exact6") -> Yes <=> Is("v6", pattern.addr)
    [] Asked("ports") /\ pattern.lo = pattern.hi -> Yes <=> Is("port", pattern.lo)
    [] Asked("port") -> Yes <=> Is("port", pattern.port)
    [] Asked("cidr") /\ pattern.len = Width -> Yes <=> Is("v6", pattern.net)
    [] OTHER -> TRUE
=============================================================================
