------------------------------ MODULE Netstack ------------------------------
(***************************************************************************)
(* What the engine does with the flows the userland stack hands it: run,   *)
(* decide, handle_tcp and handle_udp (netstack.rs), the outbound sockets   *)
(* of dial.rs and of the proxy client (proxy.rs), the DNS cache they fill  *)
(* and read (dns.rs), and the counters (state.rs).                         *)
(*                                                                         *)
(* The tunnel is up.  An outbound socket of the engine that is not pinned  *)
(* to a physical interface, and does not go to the loopback, comes back    *)
(* out of the tunnel as a new flow, owned by the engine's own process.     *)
(* Payloads are left out, except for DNS answers.                          *)
(***************************************************************************)
EXTENDS RuleSet, FiniteSets

CONSTANTS
  FlowId, NoFlow,
  Self,       \* the engine's own process (current_pid, and its name)
  Nameless,   \* the empty name, of a process that was not found
  Loopback, Groups, Hosts6, \* loopback, multicast and IPv6 addresses
  QuicPort, DnsPort, ProxyPort,
  Rules,      \* Shared::rules
  Configs,    \* Shared::proxy_configs; build adds one if there is none
  Answers,    \* the answers of DNS servers: a name, and its addresses
  LocalhostViaProxy, QuicDrop, \* the builder's switches
  Offered,    \* the flows applications may open
  Faults      \* what may go wrong

FaultNames ==
  {"attribution", \* the owner of a flow, or its name, is not found
   "pin",         \* pin_socket fails
   "send",        \* a datagram cannot be sent
   "silent"}      \* the proxy stops answering

FlowFacts == [owner : Process, dest : Host, port : Port, udp : BOOLEAN]

ASSUME NetstackAssumption ==
  /\ NoFlow \notin FlowId
  /\ IsFiniteSet(FlowId)
  /\ Self \in Process /\ Nameless \in Process /\ Self # Nameless
  /\ Absent \notin Process
  /\ Loopback \cup Groups \cup Hosts6 \subseteq Host
  /\ {QuicPort, DnsPort, ProxyPort} \subseteq Port
  /\ Rules \in Seq(CompiledRule)
  /\ Configs # <<>> /\ Configs \in Seq([host : Host, names : BOOLEAN])
  /\ LocalhostViaProxy \in BOOLEAN /\ QuicDrop \in BOOLEAN
  /\ Answers \subseteq [name : Domain, hosts : SUBSET Host]
  /\ Offered \subseteq FlowFacts
  /\ Faults \subseteq FaultNames

VARIABLES
  known,   \* Shared::iface: the families that have an interface index
  pc,      \* where the task of each flow is
  flow,    \* who opened it, and where to
  parent,  \* the flow whose outbound socket it is, or NoFlow
  facts,   \* what the engine found out about it, when it opened
  match,   \* what it decided
  sockets, \* the outbound sockets it opened
  answer,  \* the addresses in a DNS answer that is read and not passed on
  cache,   \* DnsCache: the names that have not expired
  lapsed,  \* the addresses whose name expired after the last answer
  told,    \* the addresses in the answers that reached an application
  proxyUp, \* the upstream proxy answers
  stats    \* Shared::stats

relayVars == <<answer, cache, lapsed, told>>
vars == <<known, pc, flow, parent, facts, match, sockets, relayVars, proxyUp, stats>>

Family(h) == IF h \in Hosts6 THEN "v6" ELSE "v4"

Counters == {"tcp_flows", "udp_flows", "blocked", "quic_dropped",
             "proxy_fallbacks", "group_dropped", "udp_send_errors"}

MaxSendErrors == 1

Socket == [flow : FlowId, host : Host, port : Port, udp : BOOLEAN, pinned : BOOLEAN]

Ended == {"blocked", "failclosed", "done"}

TypeOK ==
  /\ known \subseteq {"v4", "v6"}
  /\ pc \in [FlowId -> {"none", "accepted", "dial", "proxy", "handshake", "relay", "deliver"}
                        \cup Ended]
  /\ flow \in [FlowId -> {Absent} \cup FlowFacts]
  /\ parent \in [FlowId -> FlowId \cup {NoFlow}]
  /\ facts \in [FlowId -> {Absent} \cup Facts]
  /\ match \in [FlowId -> {Absent} \cup RuleMatch]
  /\ sockets \subseteq Socket
  /\ answer \in [FlowId -> SUBSET Host]
  /\ cache \in [Host -> Domain \cup {Absent}]
  /\ lapsed \subseteq Host
  /\ told \subseteq Host
  /\ proxyUp \in BOOLEAN
  /\ stats \in [Counters -> Nat]

Init ==
  /\ known \in (SUBSET {"v4", "v6"}) \ {{}}
  /\ pc = [f \in FlowId |-> "none"]
  /\ flow = [f \in FlowId |-> Absent]
  /\ parent = [f \in FlowId |-> NoFlow]
  /\ facts = [f \in FlowId |-> Absent]
  /\ match = [f \in FlowId |-> Absent]
  /\ sockets = {}
  /\ answer = [f \in FlowId |-> {}]
  /\ cache = [h \in Host |-> Absent]
  /\ lapsed = {}
  /\ told = {}
  /\ proxyUp = TRUE
  /\ stats = [k \in Counters |-> 0]

Goto(f, l) == pc' = [pc EXCEPT ![f] = l]

Plus(s, k) == [s EXCEPT ![k] = @ + 1]

-----------------------------------------------------------------------------
(* run: a flow comes out of the stack and gets a task of its own. *)
FlowCounter(udp) == IF udp THEN "udp_flows" ELSE "tcp_flows"

Accept(f, w) ==
  /\ pc[f] = "none"
  /\ Goto(f, "accepted")
  /\ flow' = [flow EXCEPT ![f] = w]
  /\ stats' = Plus(stats, FlowCounter(w.udp))
  /\ UNCHANGED <<known, parent, facts, match, sockets, relayVars, proxyUp>>

(* attribute: the owner and its name; either may not be found. *)
Attributions(f) ==
  {[pid |-> flow[f].owner, name |-> flow[f].owner]} \cup
  (IF "attribution" \in Faults
   THEN {[pid |-> Absent, name |-> Nameless], [pid |-> flow[f].owner, name |-> Nameless]}
   ELSE {})

(* domain_for: the name is looked up only if some rule has a domain filter. *)
DomainFor(h) == IF HasDomainRules(Rules) THEN cache[h] ELSE Absent

Decided(action) == [action |-> action, config |-> 0]

(* Mutant: QUIC is dropped only for processes that were identified. *)
DecideOtherQuicNamed(c) ==
  IF c.dest \in Loopback /\ ~ LocalhostViaProxy THEN Decided("Direct")
  ELSE IF \/ c.dest \in Groups
          \/ c.udp /\ c.port = QuicPort /\ QuicDrop /\ c.process # Nameless
  THEN Decided("Block")
  ELSE Outcome(Rules, c)

(* decide, for the flow of another process, and ...  *)
DecideOther(c) ==
  IF c.dest \in Loopback /\ ~ LocalhostViaProxy THEN Decided("Direct")
  ELSE IF \/ c.dest \in Groups
          \/ c.udp /\ c.port = QuicPort /\ QuicDrop
  THEN Decided("Block")
  ELSE Outcome(Rules, c)

(* Mutant: the engine's own flows go direct without an interface, too. *)
DecideOwnDirect(pid, c) == IF pid = Self THEN Decided("Direct") ELSE DecideOther(c)

(* ... for any flow, the engine's own first. *)
Decide(pid, c) ==
  IF pid # Self THEN DecideOther(c)
  ELSE IF c.dest \notin Loopback /\ Family(c.dest) \notin known THEN Decided("Block")
  ELSE Decided("Direct")

(* The counter of a flow that is dropped. *)
DropCounter(c) ==
  CASE c.udp /\ c.port = QuicPort -> "quic_dropped"
    [] c.udp /\ c.port # QuicPort /\ c.dest \in Groups -> "group_dropped"
    [] OTHER -> "blocked"

(* handle_tcp and handle_udp up to the first await.  A Proxy rule is for   *)
(* TCP; a UDP flow goes direct instead.                                    *)
Open(f) ==
  /\ pc[f] = "accepted"
  /\ \E a \in Attributions(f) :
       LET c == [process |-> a.name, dest |-> flow[f].dest, port |-> flow[f].port,
                 udp |-> flow[f].udp, domain |-> DomainFor(flow[f].dest)]
           m == Decide(a.pid, c)
       IN  /\ facts' = [facts EXCEPT ![f] = c]
           /\ match' = [match EXCEPT ![f] = m]
           /\ IF m.action = "Block"
              THEN Goto(f, "blocked") /\ stats' = Plus(stats, DropCounter(c))
              ELSE /\ Goto(f, IF m.action = "Proxy" /\ ~ c.udp THEN "proxy" ELSE "dial")
                   /\ UNCHANGED stats
  /\ UNCHANGED <<known, flow, parent, sockets, relayVars, proxyUp>>

-----------------------------------------------------------------------------
(* pin_socket in dial.rs: only with an index for the family; a failure is  *)
(* logged and the socket is used as it is.                                 *)
Pinned(h) ==
  IF Family(h) \notin known THEN {FALSE}
  ELSE IF "pin" \in Faults THEN BOOLEAN ELSE {TRUE}

(* Flow f opens a socket to a host; unless something keeps it out of the   *)
(* tunnel, run accepts it at the other end.                                *)
Connect(f, h, p, udp, pinned, l) ==
  /\ sockets' = sockets \cup
       {[flow |-> f, host |-> h, port |-> p, udp |-> udp, pinned |-> pinned]}
  /\ IF pinned \/ h \in Loopback
     THEN Goto(f, l) /\ UNCHANGED <<flow, parent, stats>>
     ELSE \E k \in {j \in FlowId : pc[j] = "none"} :
            /\ pc' = [pc EXCEPT ![f] = l, ![k] = "accepted"]
            /\ flow' = [flow EXCEPT ![k] = [owner |-> Self, dest |-> h, port |-> p, udp |-> udp]]
            /\ parent' = [parent EXCEPT ![k] = f]
            /\ stats' = Plus(stats, FlowCounter(udp))

(* dial::tcp and dial::udp. *)
Dial(f) ==
  /\ pc[f] = "dial"
  /\ \E pinned \in Pinned(flow[f].dest) :
       Connect(f, flow[f].dest, flow[f].port, flow[f].udp, pinned, "relay")
  /\ UNCHANGED <<known, facts, match, relayVars, proxyUp>>

(* ... refused, or not connected within CONNECT_TIMEOUT. *)
DialFails(f) ==
  /\ pc[f] = "dial"
  /\ Goto(f, "done")
  /\ UNCHANGED <<known, flow, parent, facts, match, sockets, relayVars, proxyUp, stats>>

(* find_proxy_config: the one the rule names, or the first.  Their ids are *)
(* their positions (build).                                                *)
FindProxyConfig(id) == IF id \in DOMAIN Configs THEN Configs[id] ELSE Configs[1]

(* The destination that goes into the CONNECT request: a name or Absent,   *)
(* which stands for the address.                                           *)
Target(f) == IF FindProxyConfig(match[f].config).names THEN facts[f].domain ELSE Absent

(* connect_via_proxy: a socket that is never pinned. *)
DialProxy(f) ==
  /\ pc[f] = "proxy"
  /\ Connect(f, FindProxyConfig(match[f].config).host, ProxyPort, FALSE, FALSE, "handshake")
  /\ UNCHANGED <<known, facts, match, relayVars, proxyUp>>

(* The handshake succeeds; a connection through the tunnel must have got   *)
(* through.                                                                *)
ProxyAnswers(f) ==
  /\ pc[f] = "handshake"
  /\ proxyUp
  /\ \A k \in FlowId : parent[k] = f => pc[k] = "relay"
  /\ Goto(f, "relay")
  /\ UNCHANGED <<known, flow, parent, facts, match, sockets, relayVars, proxyUp, stats>>

(* Mutant: the flow is sent direct instead. *)
ProxyFailsOpen(f) ==
  /\ pc[f] \in {"proxy", "handshake"}
  /\ Goto(f, "dial")
  /\ UNCHANGED <<known, flow, parent, facts, match, sockets, relayVars, proxyUp, stats>>

(* Mutant: the flow does not count as blocked. *)
ProxyFailsUncounted(f) ==
  /\ pc[f] \in {"proxy", "handshake"}
  /\ stats' = Plus(stats, "proxy_fallbacks")
  /\ Goto(f, "failclosed")
  /\ UNCHANGED <<known, flow, parent, facts, match, sockets, relayVars, proxyUp>>

(* Mutant: no timeout; only a proxy that answers can refuse. *)
ProxyFailsIfAsked(f) ==
  /\ pc[f] \in {"proxy", "handshake"} /\ proxyUp
  /\ stats' = Plus(Plus(stats, "proxy_fallbacks"), "blocked")
  /\ Goto(f, "failclosed")
  /\ UNCHANGED <<known, flow, parent, facts, match, sockets, relayVars, proxyUp>>

(* The proxy refuses, breaks off, or lets UPSTREAM_CONNECT_TIMEOUT pass:   *)
(* fail_closed.                                                            *)
ProxyFails(f) ==
  /\ pc[f] \in {"proxy", "handshake"}
  /\ stats' = Plus(Plus(stats, "proxy_fallbacks"), "blocked")
  /\ Goto(f, "failclosed")
  /\ UNCHANGED <<known, flow, parent, facts, match, sockets, relayVars, proxyUp>>

-----------------------------------------------------------------------------
(* copy_bidirectional, or the loop of handle_udp, comes to its end: the    *)
(* peers are done, a read fails, or UDP_IDLE_TIMEOUT passes.               *)
RelayEnds(f) ==
  /\ pc[f] = "relay"
  /\ Goto(f, "done")
  /\ UNCHANGED <<known, flow, parent, facts, match, sockets, relayVars, proxyUp, stats>>

(* A datagram from the client is lost; the flow goes on. *)
SendFails(f) ==
  /\ "send" \in Faults
  /\ pc[f] = "relay" /\ flow[f].udp
  /\ stats["udp_send_errors"] < MaxSendErrors
  /\ stats' = Plus(stats, "udp_send_errors")
  /\ UNCHANGED <<known, pc, flow, parent, facts, match, sockets, relayVars, proxyUp>>

(* Mutant: the answer is passed on without a look at it. *)
SnoopNothing(f) ==
  /\ pc[f] = "relay" /\ flow[f].udp /\ flow[f].port = DnsPort
  /\ \E a \in Answers : answer' = [answer EXCEPT ![f] = a.hosts]
  /\ Goto(f, "deliver")
  /\ UNCHANGED <<known, flow, parent, facts, match, sockets, cache, lapsed, told, proxyUp, stats>>

(* An answer from a DNS server: snoop_response stores the name for every   *)
(* address, whatever was there before; ...                                 *)
Snoop(f) ==
  /\ pc[f] = "relay" /\ flow[f].udp /\ flow[f].port = DnsPort
  /\ \E a \in Answers :
       /\ cache' = [h \in Host |-> IF h \in a.hosts THEN a.name ELSE cache[h]]
       /\ lapsed' = lapsed \ a.hosts
       /\ answer' = [answer EXCEPT ![f] = a.hosts]
  /\ Goto(f, "deliver")
  /\ UNCHANGED <<known, flow, parent, facts, match, sockets, told, proxyUp, stats>>

(* ... and write_all passes it on, or finds the client gone.  The client   *)
(* of a flow that has a parent is the engine itself.                       *)
Deliver(f) ==
  /\ pc[f] = "deliver"
  /\ \/ /\ Goto(f, "relay")
        /\ told' = IF parent[f] = NoFlow THEN told \cup answer[f] ELSE told
     \/ Goto(f, "done") /\ UNCHANGED told
  /\ answer' = [answer EXCEPT ![f] = {}]
  /\ UNCHANGED <<known, flow, parent, facts, match, sockets, cache, lapsed, proxyUp, stats>>

(* lookup and purge_expired take an entry whose TTL has passed for absent. *)
Expire(h) ==
  /\ cache[h] # Absent
  /\ cache' = [cache EXCEPT ![h] = Absent]
  /\ lapsed' = lapsed \cup {h}
  /\ UNCHANGED <<known, pc, flow, parent, facts, match, sockets, answer, told, proxyUp, stats>>

ProxyFallsSilent ==
  /\ "silent" \in Faults
  /\ proxyUp
  /\ proxyUp' = FALSE
  /\ UNCHANGED <<known, pc, flow, parent, facts, match, sockets, relayVars, stats>>

-----------------------------------------------------------------------------
Settle(f) == Open(f) \/ Dial(f) \/ DialFails(f) \/ DialProxy(f) \/ ProxyAnswers(f) \/ ProxyFails(f)

Next ==
  \/ \E f \in FlowId :
       \/ \E w \in Offered : Accept(f, w)
       \/ Settle(f) \/ RelayEnds(f) \/ SendFails(f) \/ Snoop(f) \/ Deliver(f)
  \/ \E h \in Host : Expire(h)
  \/ ProxyFallsSilent

Spec == Init /\ [][Next]_vars

(* The task of a flow runs; connects and handshakes have timeouts. *)
FairSpec == Spec /\ \A f \in FlowId : WF_vars(Settle(f))

-----------------------------------------------------------------------------
(* "Our own traffic goes direct, always.  This is the loop guard." (decide)*)
(* An outbound socket may come back once, to be dialled again on a pinned  *)
(* socket or dropped; it is never the start of a chain of them.            *)
NoRoutingLoop ==
  \A f \in FlowId : parent[f] # NoFlow => parent[parent[f]] = NoFlow

(* The application's flow behind a flow. *)
Root(f) == IF parent[f] = NoFlow THEN f ELSE parent[f]

(* "Once a rule selects Proxy, failure to reach that proxy is fail-closed" *)
(* (netstack.rs): no socket opened for such a TCP flow, by itself or by    *)
(* the flow that its connection to the proxy came back as, goes anywhere   *)
(* but to the proxy.                                                       *)
FailClosed ==
  \A s \in sockets :
    LET r == Root(s.flow)
    IN  match[r].action = "Proxy" /\ ~ flow[r].udp =>
          s.host = FindProxyConfig(match[r].config).host

(* QUIC is dropped "regardless of which process owns it" (decide): under   *)
(* the Drop policy no socket carries it out, unless the engine's own       *)
(* process opened the flow.                                                *)
QuicStaysIn ==
  QuicDrop =>
    \A s \in sockets : s.udp /\ s.port = QuicPort /\ s.host \notin Loopback =>
      flow[Root(s.flow)].owner = Self

At(ls) == Cardinality({f \in FlowId : pc[f] \in ls})

(* Every flow is counted when it is accepted, and once more if it is       *)
(* dropped, by exactly one of the three counters for that.                 *)
FlowsCounted ==
  /\ stats["tcp_flows"] + stats["udp_flows"] = Cardinality(FlowId) - At({"none"})
  /\ stats["blocked"] + stats["quic_dropped"] + stats["group_dropped"]
       = At({"blocked", "failclosed"})
  /\ stats["proxy_fallbacks"] = At({"failclosed"})

(* The snoop comes before the delivery (handle_udp): an application that   *)
(* has been told an address cannot open a flow to it before the cache has  *)
(* a name for it, as long as the TTL has not passed.                       *)
SnoopBeforeDelivery ==
  \A h \in told : cache[h] # Absent \/ h \in lapsed

(* A flow is dropped, relayed or given up: not even a proxy that accepts   *)
(* the connection and never answers keeps it waiting.                      *)
FlowsSettle ==
  \A f \in FlowId : pc[f] = "accepted" ~> pc[f] \in {"relay", "deliver"} \cup Ended

-----------------------------------------------------------------------------
(* What the documentation says. *)

(* dial.rs: "pin every outbound socket to it". *)
EverySocketPinned ==
  \A s \in sockets : s.host \notin Loopback /\ Family(s.host) \in known => s.pinned

(* README: "unreachable upstream proxy - every one of those results in     *)
(* traffic flowing".                                                       *)
FailsOpen == \A f \in FlowId : pc[f] # "failclosed"

(* StatsSnapshot::blocked: "Flows dropped because a Block rule matched".   *)
BlockedByRule ==
  stats["blocked"] <=
    Cardinality({f \in FlowId : pc[f] = "blocked" /\ Outcome(Rules, facts[f]).action = "Block"})

(* StatsSnapshot::quic_dropped: "QUIC datagrams dropped to force a TCP     *)
(* fallback", which QuicPolicy::Allow does not ask for.                    *)
QuicCounterIsPolicy == ~ QuicDrop => stats["quic_dropped"] = 0

(* README: the proxy is asked for "the hostname from the DNS-snoop cache   *)
(* when one is known".                                                     *)
ProxyGetsKnownName ==
  [][\A f \in FlowId :
       pc[f] = "accepted" /\ pc'[f] = "proxy" /\ FindProxyConfig(match'[f].config).names =>
         Target(f)' = cache[flow[f].dest]]_vars
=============================================================================
