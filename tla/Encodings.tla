------------------------------ MODULE Encodings ------------------------------
(***************************************************************************)
(* Numbers as the code handles them: their octets and bits, and the bytes  *)
(* in which addresses, ports and interface indexes are handed to the       *)
(* kernels, on a little-endian machine, with what the kernels read from    *)
(* them.                                                                   *)
(***************************************************************************)
EXTENDS Naturals, Sequences

CONSTANTS
  Base,  \* values of an octet (256)
  Octets \* octets of an IPv4 address (4)

ASSUME EncodingAssumption == Base \in Nat \ {0, 1} /\ Octets \in Nat \ {0}

(* u16 and u32 hold the numbers below these. *)
HalfWord == Base * Base
Word == Base * Base * Base * Base

(* The numbers that the first digits denote, the most significant first,   *)
(* and the number that all of them denote.                                 *)
Values(base, digits) ==
  LET v[k \in 0..Len(digits)] == IF k = 0 THEN 0 ELSE v[k - 1] * base + digits[k]
  IN  v
Value(base, digits) == Values(base, digits)[Len(digits)]

(* A number without its last digits. *)
Quotients(n, width) ==
  LET q[k \in 0..width] == IF k = 0 THEN n ELSE q[k - 1] \div Base
  IN  q

(* The bytes in the other order. *)
Swapped(bytes) == [i \in 1..Len(bytes) |-> bytes[Len(bytes) - i + 1]]

FromBe(bytes) == Value(Base, bytes)
FromLe(bytes) == FromBe(Swapped(bytes))
ToLe(n, width) == [i \in 1..width |-> Quotients(n, width)[i - 1] % Base]
ToBe(n, width) == Swapped(ToLe(n, width))
Zeros(n) == [i \in 1..n |-> 0]

(* Bits, the most significant first; a shift drops those above. *)
Ones(width) == [i \in 1..width |-> 1]
Shl(bits, s) == [i \in DOMAIN bits |-> IF i + s \in DOMAIN bits THEN bits[i + s] ELSE 0]
And(a, b) == [i \in DOMAIN a |-> a[i] * b[i]]

-----------------------------------------------------------------------------
(* windows/process.rs: a row of an owner table, as the driver writes it    *)
(* and as the fields of the row are loaded.                                *)
RowPort(port) == FromLe(ToBe(port, 2) \o Zeros(2))
RowAddr(octets) == FromLe(octets)

(* Mutant: the half word is taken as it was loaded. *)
TablePortUnswapped(dwLocalPort) == dwLocalPort % HalfWord

TablePortToHost(dwLocalPort) == FromBe(ToLe(dwLocalPort % HalfWord, 2))

Ipv4TableKey(octets) == FromLe(octets)

RowMatches(row, octets, port) ==
  RowAddr(row.octets) = Ipv4TableKey(octets) /\ TablePortToHost(RowPort(row.port)) = port

(* windows/dial.rs: the option value, as it lies in memory; the stack      *)
(* reads it in network order for IPv4 and in host order for IPv6.          *)
(* Mutant: host order for both families. *)
UnicastIfValueHostOrder(index, isIpv6) == index

UnicastIfValue(index, isIpv6) == IF isIpv6 THEN index ELSE FromLe(ToBe(index, 4))

UnicastIfRead(bytes, isIpv6) == IF isIpv6 THEN FromLe(bytes) ELSE FromBe(bytes)

-----------------------------------------------------------------------------
(* macos/netcfg.rs.  The kernel reads a sockaddr_in as length, family, two *)
(* bytes of port, address; a sockaddr_in6 has four bytes of flow label     *)
(* before the address.  An IPv6 address has as many octets here.           *)
V4Sockaddr(octets) == <<16, 2>> \o octets \o Zeros(14 - Octets)

V6Sockaddr(octets) == <<28, 30>> \o Zeros(2) \o Zeros(4) \o octets \o Zeros(4)

SinAddr(bytes) == SubSeq(bytes, 5, 4 + Octets)
Sin6Addr(bytes) == SubSeq(bytes, 9, 8 + Octets)

(* windows/netcfg.rs: S_addr is loaded from the octets of an IPv4 address; *)
(* the layouts are those above, with a family of two bytes.                *)
SockaddrInet(octets, isIpv6) ==
  IF isIpv6 THEN <<23, 0>> \o Zeros(2) \o Zeros(4) \o octets \o Zeros(4)
  ELSE <<2, 0>> \o Zeros(2) \o ToLe(FromLe(octets), Octets) \o Zeros(8)

(* netmask_v4 and netmask_v6, as `width` bits. *)
Netmask(prefix, width) ==
  IF prefix = 0 THEN Zeros(width) ELSE Shl(Ones(width), width - prefix)
=============================================================================
