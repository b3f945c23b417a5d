--------------------------- MODULE MCAttribution ---------------------------
(* Three worlds of flows and sockets for Attribution: TCP over IPv4, UDP over *)
(* IPv4 and UDP over IPv6, each with sockets that differ from the flow in the *)
(* peer, in the address, in the family or in the protocol.                    *)
EXTENDS Attribution

V4(h) == [v6 |-> FALSE, host |-> h]
V6(h) == [v6 |-> TRUE, host |-> h]
Peer(ip) == [ip |-> ip, port |-> 9]
Sock(udp, ip, peer) == [udp |-> udp, ip |-> ip, port |-> 5, peer |-> peer]

Tcp4(p, faults) ==
  [platform |-> p, callers |-> {1}, faults |-> faults,
   flows  |-> {Sock(FALSE, V4(1), Peer(V4(2)))},
         shapes |-> {Sock(FALSE, V4(1), Peer(V4(2))), Sock(FALSE, V4(1), Peer(V4(3))),
                     Sock(FALSE, V4(0), NoPeer)}]

Udp4(p, faults) ==
  [platform |-> p, callers |-> {1}, faults |-> faults,
   flows  |-> {Sock(TRUE, V4(1), Peer(V4(2)))},
         shapes |-> {Sock(TRUE, V4(1), Peer(V4(2))), Sock(TRUE, V4(1), NoPeer),
                     Sock(TRUE, V4(0), NoPeer)}]

Udp6(p, faults) ==
  [platform |-> p, callers |-> {1}, faults |-> faults,
   flows  |-> {Sock(TRUE, V6(1), Peer(V6(2)))},
         shapes |-> {Sock(TRUE, V6(1), Peer(V6(2))), Sock(TRUE, V6(0), NoPeer),
                     Sock(FALSE, V6(1), Peer(V6(3)))}]

(* Two threads ask about flows that share their local endpoint.               *)
Shared(p) ==
  [platform |-> p, callers |-> {1, 2}, faults |-> {},
   flows  |-> {Sock(FALSE, V4(1), Peer(V4(2)))},
   shapes |-> {Sock(FALSE, V4(1), Peer(V4(2)))}]

MCWorlds ==
  {Tcp4("linux", {"unreadable", "recycle"}), Udp4("linux", {"query", "name"}),
   Tcp4("macos", {"query"}), Tcp4("windows", {"query"}),
   Udp4("windows", {}), Udp6("windows", {"name"}), Shared("linux")}

(* One platform at a time, with two flows from one local endpoint.            *)
TwoPeers(p, faults) ==
  [platform |-> p, callers |-> {1}, faults |-> faults,
   flows  |-> {Sock(FALSE, V4(1), Peer(V4(2))), Sock(FALSE, V4(1), Peer(V4(3)))},
   shapes |-> {Sock(FALSE, V4(1), Peer(V4(2))), Sock(FALSE, V4(1), Peer(V4(3)))}]

LinuxRecycles == {TwoPeers("linux", {"recycle", "name"}), Udp4("linux", {})}
MacosTwoPeers == {TwoPeers("macos", {})}
WindowsTwoPeers == {TwoPeers("windows", {})}
=============================================================================
