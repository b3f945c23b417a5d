----------------------------- MODULE MCNetstack -----------------------------
(* Instances of Netstack for TLC. *)
EXTENDS Netstack, TLC

CONSTANTS app, tool, lo4, h4, h6, mc4, d1, d2

Interchangeable == Permutations(FlowId)

AnyTarget(p, protocol, action, config) ==
  [process |-> p, hosts |-> All, ports |-> All, domains |-> All, except |-> Absent,
   protocol |-> protocol, action |-> action, config |-> config]

NamedRule == [AnyTarget(All, "Both", "Block", 0) EXCEPT !.domains = {d1}]

(* All TCP to the proxy; a name is blocked. *)
NameRules == <<NamedRule, AnyTarget({app}, "Both", "Proxy", 2)>>

(* All to the proxy, whichever the process is. *)
ProxyRules == <<AnyTarget(All, "Both", "Proxy", 1)>>

BlockUdpRules == <<AnyTarget({app}, "Udp", "Block", 0), AnyTarget({app}, "Tcp", "Proxy", 1)>>

LocalProxy  == <<[host |-> lo4, names |-> TRUE]>>
RemoteProxy == <<[host |-> h4, names |-> TRUE]>>
TwoProxies  == <<[host |-> lo4, names |-> FALSE], [host |-> h4, names |-> TRUE]>>

To(h, p, udp) == [owner |-> app, dest |-> h, port |-> p, udp |-> udp]

(* Web over TCP on both families, QUIC, name lookups, a second process. *)
WebFlows ==
  {To(h4, 443, FALSE), To(h6, 443, FALSE), To(h6, 443, TRUE), To(h4, 53, TRUE),
   [owner |-> tool, dest |-> h4, port |-> 80, udp |-> FALSE]}

(* QUIC, multicast, loopback, and traffic of the host process itself. *)
MixedFlows ==
  {To(h4, 443, TRUE), To(h6, 443, FALSE), To(mc4, 80, TRUE), To(mc4, 80, FALSE), To(lo4, 80, FALSE),
   [owner |-> Self, dest |-> h6, port |-> 443, udp |-> TRUE]}

OneAnswer == {[name |-> d1, hosts |-> {h4, h6}]}
TwoAnswers == OneAnswer \cup {[name |-> d2, hosts |-> {h6}]}
=============================================================================
