--------------------------- MODULE NetstackProofs ---------------------------
(***************************************************************************)
(* Proofs about Netstack, for any flows, rules, proxies, DNS answers and   *)
(* interfaces. The first part is what every task keeps to, whatever goes   *)
(* wrong: TypeOK, and ShapeInv on where a task is and what its flow has.   *)
(*                                                                         *)
(* The properties rest on them, and on the kinds of steps of StepCases:    *)
(* QuicInv, SnoopInv and FlowsCounted hold whatever goes wrong, and        *)
(* LoopInv says something only where attribution works.                    *)
(***************************************************************************)
EXTENDS Netstack, FiniteSetTheorems, TLAPS

(* The flow has been decided. *)
Past(f) == pc[f] \notin {"none", "accepted"}

(* The flow has been decided and is not dropped. *)
Passed(f) == pc[f] \notin {"none", "accepted", "blocked"}

(* The flow has its outbound socket, or has had its chance. *)
Dialled(f) == pc[f] \notin {"none", "accepted", "blocked", "dial", "proxy"}

(* What the place of a task says about its flow, and who can have a socket *)
(* or a child.                                                             *)
ShapeInv ==
  /\ \A f \in FlowId :
       /\ pc[f] # "none" => flow[f] \in FlowFacts
       /\ Past(f) => facts[f] \in Facts /\ match[f] \in RuleMatch
       /\ pc[f] \in {"proxy", "handshake"} => match[f].action = "Proxy" /\ ~ flow[f].udp
       /\ pc[f] = "dial" => ~ (match[f].action = "Proxy" /\ ~ flow[f].udp)
       /\ parent[f] # NoFlow =>
            /\ pc[f] # "none" /\ Dialled(parent[f])
            /\ flow[f].owner = Self /\ flow[f].dest \notin Loopback
  /\ \A s \in sockets : Dialled(s.flow)

(* What becomes of a flow of pid with the facts c. *)
Opened(f, pid, c) ==
  /\ pc[f] = "accepted"
  /\ c \in Facts
  /\ c.dest = flow[f].dest /\ c.port = flow[f].port /\ c.udp = flow[f].udp
  /\ pid = Self => flow[f].owner = Self
  /\ "attribution" \notin Faults => pid = flow[f].owner
  /\ facts' = [facts EXCEPT ![f] = c]
  /\ match' = [match EXCEPT ![f] = Decide(pid, c)]
  /\ pc' = [pc EXCEPT ![f] =
              IF Decide(pid, c).action = "Block" THEN "blocked"
              ELSE IF Decide(pid, c).action = "Proxy" /\ ~ c.udp THEN "proxy" ELSE "dial"]
  /\ UNCHANGED <<known, flow, parent, sockets>>

(* The steps that open nothing: a task goes on to its relay or to its end. *)
Quiet ==
  /\ UNCHANGED <<known, flow, parent, facts, match, sockets>>
  /\ pc' \in [FlowId -> {"none", "accepted", "dial", "proxy", "handshake", "relay", "deliver"}
                         \cup Ended]
  /\ \A f \in FlowId : pc'[f] # pc[f] =>
       Passed(f) /\ pc'[f] \in {"relay", "deliver", "done", "failclosed"}

(* A flow opens its socket, which is a direct one or one to the proxy, ... *)
Opens(f, h, p, udp, l) ==
  /\ \/ /\ pc[f] = "dial" /\ l = "relay"
        /\ h = flow[f].dest /\ p = flow[f].port /\ udp = flow[f].udp
     \/ /\ pc[f] = "proxy" /\ l = "handshake"
        /\ h = FindProxyConfig(match[f].config).host /\ p = ProxyPort /\ udp = FALSE
  /\ h \in Host /\ p \in Port /\ udp \in BOOLEAN
  /\ \E pinned \in BOOLEAN : sockets' = sockets \cup
       {[flow |-> f, host |-> h, port |-> p, udp |-> udp, pinned |-> pinned]}
  /\ UNCHANGED <<known, facts, match>>

(* ... and it stays outside, ... *)
Alone(f, h, p, udp, l) ==
  Opens(f, h, p, udp, l) /\ pc' = [pc EXCEPT ![f] = l] /\ UNCHANGED <<flow, parent>>

(* ... or comes back as flow k. *)
WithChild(f, k, h, p, udp, l) ==
  /\ Opens(f, h, p, udp, l)
  /\ h \notin Loopback /\ pc[k] = "none"
  /\ pc[f] = "dial" /\ "pin" \notin Faults => Family(h) \notin known
  /\ pc' = [pc EXCEPT ![f] = l, ![k] = "accepted"]
  /\ flow' = [flow EXCEPT ![k] = [owner |-> Self, dest |-> h, port |-> p, udp |-> udp]]
  /\ parent' = [parent EXCEPT ![k] = f]

-----------------------------------------------------------------------------
(* What the rules say is an action and a configuration. *)
LEMMA OutcomeType ==
  ASSUME NEW c PROVE Outcome(Rules, c) \in RuleMatch
<1>1. \A r \in CompiledRule : AsMatch(r) \in RuleMatch
  BY DEF AsMatch, RuleMatch, CompiledRule
<1>2. DefaultMatch \in RuleMatch
  BY MarkerAssumption DEF DefaultMatch, RuleMatch, Action
<1>3. \A i \in DOMAIN Rules : Rules[i] \in CompiledRule
  BY NetstackAssumption
<1>4. ASSUME NEW s \in SUBSET (DOMAIN Rules), s # {} PROVE First(s) \in DOMAIN Rules
  <2>1. s \in SUBSET Nat
    BY NetstackAssumption
  <2>. DEFINE Less == {ss \in Nat \X Nat : ss[1] < ss[2]}
  <2>2. OpToRel(<, Nat) = Less
    BY DEF OpToRel
  <2>3. \A m, n \in Nat : m < n => <<m, n>> \in Less
    OBVIOUS
  <2>. HIDE DEF Less
  <2>4. PICK i \in s : \A j \in s : ~ (<<j, i>> \in Less)
    BY <1>4, <2>1, <2>2, NatLessThanWellFounded, WFMin, Zenon
  <2>5. ASSUME NEW j \in s PROVE i <= j
    <3>1. i \in Nat /\ j \in Nat
      BY <2>1
    <3>2. ~ (j < i)
      BY <2>3, <2>4, <3>1, Zenon
    <3>. QED
      BY <3>1, <3>2
  <2>. QED
    BY <2>5 DEF First
<1>5. Hits(Rules, c) \in SUBSET (DOMAIN Rules) /\ Spare(Rules, c) \in SUBSET (DOMAIN Rules)
  BY DEF Hits, Spare
<1>6. Hits(Rules, c) # {} => AsMatch(Rules[First(Hits(Rules, c))]) \in RuleMatch
  BY <1>1, <1>3, <1>4, <1>5
<1>7. Spare(Rules, c) # {} => AsMatch(Rules[First(Spare(Rules, c))]) \in RuleMatch
  BY <1>1, <1>3, <1>4, <1>5
<1>. QED
  BY <1>2, <1>6, <1>7 DEF Outcome

(* decide returns an action and a configuration. *)
LEMMA DecideType ==
  ASSUME NEW pid, NEW c PROVE Decide(pid, c) \in RuleMatch
<1>1. \A action \in Action : Decided(action) \in RuleMatch
  BY MarkerAssumption DEF Decided, RuleMatch
<1>2. Outcome(Rules, c) \in RuleMatch
  BY OutcomeType
<1>. QED
  BY <1>1, <1>2 DEF Decide, DecideOther, Action

(* find_proxy_config always finds one. *)
LEMMA ConfigFound ==
  ASSUME NEW id PROVE FindProxyConfig(id).host \in Host
<1>. DEFINE Entry == [host : Host, names : BOOLEAN]
<1>1. \A e \in Entry : e.host \in Host
  OBVIOUS
<1>2. Configs \in Seq(Entry) /\ Configs # <<>>
  BY NetstackAssumption
<1>. HIDE DEF Entry
<1>3. 1 \in DOMAIN Configs /\ \A i \in DOMAIN Configs : Configs[i] \in Entry
  BY <1>2
<1>. QED
  BY <1>1, <1>3 DEF FindProxyConfig

(* What attribute and domain_for find out. *)
LEMMA FactsFound ==
  ASSUME TypeOK, ShapeInv, NEW f \in FlowId, pc[f] = "accepted", NEW a \in Attributions(f)
  PROVE  /\ [process |-> a.name, dest |-> flow[f].dest, port |-> flow[f].port,
              udp |-> flow[f].udp, domain |-> DomainFor(flow[f].dest)] \in Facts
         /\ a.pid = Self => flow[f].owner = Self
         /\ "attribution" \notin Faults => a.pid = flow[f].owner
<1>1. flow[f] \in FlowFacts
  BY DEF ShapeInv
<1>2. /\ flow[f].owner \in Process /\ flow[f].dest \in Host
      /\ flow[f].port \in Port /\ flow[f].udp \in BOOLEAN
  BY <1>1 DEF FlowFacts
<1>3. DomainFor(flow[f].dest) \in Domain \cup {Absent}
  BY <1>2 DEF DomainFor, TypeOK
<1>4. \/ a = [pid |-> flow[f].owner, name |-> flow[f].owner]
      \/ "attribution" \in Faults /\ a = [pid |-> Absent, name |-> Nameless]
      \/ "attribution" \in Faults /\ a = [pid |-> flow[f].owner, name |-> Nameless]
  BY DEF Attributions
<1>5. a.name \in Process
  BY <1>2, <1>4, NetstackAssumption
<1>6. a.pid = Self => flow[f].owner = Self
  BY <1>4, NetstackAssumption
<1>7. "attribution" \notin Faults => a.pid = flow[f].owner
  BY <1>4
<1>. QED
  BY <1>2, <1>3, <1>5, <1>6, <1>7 DEF Facts

-----------------------------------------------------------------------------
(* The relays, the expiry of a name and the proxy open no socket. *)
LEMMA QuietSteps ==
  ASSUME TypeOK,
         \/ \E f \in FlowId : \/ DialFails(f) \/ ProxyAnswers(f) \/ ProxyFails(f)
                             \/ RelayEnds(f) \/ SendFails(f) \/ Snoop(f) \/ Deliver(f)
         \/ \E h \in Host : Expire(h)
         \/ ProxyFallsSilent \/ UNCHANGED vars
  PROVE  Quiet
<1>. USE DEF TypeOK, Goto, Quiet, Passed, Ended
<1>1. ASSUME NEW f \in FlowId, DialFails(f) PROVE Quiet
  BY <1>1 DEF DialFails
<1>2. ASSUME NEW f \in FlowId, ProxyAnswers(f) PROVE Quiet
  BY <1>2 DEF ProxyAnswers
<1>3. ASSUME NEW f \in FlowId, ProxyFails(f) PROVE Quiet
  BY <1>3 DEF ProxyFails
<1>4. ASSUME NEW f \in FlowId, RelayEnds(f) PROVE Quiet
  BY <1>4 DEF RelayEnds
<1>5. ASSUME NEW f \in FlowId, SendFails(f) PROVE Quiet
  BY <1>5 DEF SendFails
<1>6. ASSUME NEW f \in FlowId, Snoop(f) PROVE Quiet
  BY <1>6 DEF Snoop
<1>7. ASSUME NEW f \in FlowId, Deliver(f) PROVE Quiet
  BY <1>7 DEF Deliver
<1>8. CASE (\E h \in Host : Expire(h)) \/ ProxyFallsSilent \/ UNCHANGED vars
  BY <1>8 DEF Expire, ProxyFallsSilent, vars
<1>. QED
  BY <1>1, <1>2, <1>3, <1>4, <1>5, <1>6, <1>7, <1>8

(* A socket that is opened. *)
LEMMA ConnectSteps ==
  ASSUME TypeOK, ShapeInv, NEW f \in FlowId, NEW h \in Host, NEW p \in Port,
         NEW udp \in BOOLEAN, NEW pinned \in BOOLEAN, NEW l,
         Connect(f, h, p, udp, pinned, l), UNCHANGED <<known, facts, match>>,
         \/ /\ pc[f] = "dial" /\ l = "relay"
            /\ h = flow[f].dest /\ p = flow[f].port /\ udp = flow[f].udp
         \/ /\ pc[f] = "proxy" /\ l = "handshake"
            /\ h = FindProxyConfig(match[f].config).host /\ p = ProxyPort /\ udp = FALSE,
         pc[f] = "dial" /\ "pin" \notin Faults /\ ~ pinned => Family(h) \notin known
  PROVE  Alone(f, h, p, udp, l) \/ \E k \in FlowId : WithChild(f, k, h, p, udp, l)
<1>1. Opens(f, h, p, udp, l)
  BY DEF Opens, Connect
<1>2. CASE pinned \/ h \in Loopback
  BY <1>1, <1>2 DEF Alone, Connect, Goto
<1>3. CASE ~ (pinned \/ h \in Loopback)
  BY <1>1, <1>3 DEF WithChild, Connect
<1>. QED
  BY <1>2, <1>3

(* The steps of Netstack as the invariants below see them. *)
LEMMA StepCases ==
  ASSUME TypeOK, ShapeInv, [Next]_vars
  PROVE  \/ \E f \in FlowId : \E w \in Offered : Accept(f, w)
         \/ \E f \in FlowId : Open(f)
         \/ \E f \in FlowId : \E h, p, udp, l : Alone(f, h, p, udp, l)
         \/ \E f, k \in FlowId : \E h, p, udp, l : WithChild(f, k, h, p, udp, l)
         \/ Quiet
<1>. DEFINE Goal == \/ \E f \in FlowId : \E w \in Offered : Accept(f, w)
                    \/ \E f \in FlowId : Open(f)
                    \/ \E f \in FlowId : \E h, p, udp, l : Alone(f, h, p, udp, l)
                    \/ \E f, k \in FlowId : \E h, p, udp, l : WithChild(f, k, h, p, udp, l)
                    \/ Quiet
<1>1. ASSUME NEW f \in FlowId, Dial(f) PROVE Goal
  <2>1. flow[f].dest \in Host /\ flow[f].port \in Port /\ flow[f].udp \in BOOLEAN
    BY <1>1 DEF ShapeInv, FlowFacts, Dial
  <2>2. PICK pinned \in Pinned(flow[f].dest) :
          Connect(f, flow[f].dest, flow[f].port, flow[f].udp, pinned, "relay")
    BY <1>1 DEF Dial
  <2>3. pinned \in BOOLEAN
    BY Zenon DEF Pinned
  <2>4. "pin" \notin Faults /\ ~ pinned => Family(flow[f].dest) \notin known
    BY <2>3, Zenon DEF Pinned
  <2>5. pc[f] = "dial" /\ UNCHANGED <<known, facts, match>>
    BY <1>1 DEF Dial
  <2>6. \/ Alone(f, flow[f].dest, flow[f].port, flow[f].udp, "relay")
        \/ \E k \in FlowId : WithChild(f, k, flow[f].dest, flow[f].port, flow[f].udp, "relay")
    BY <2>1, <2>2, <2>3, <2>4, <2>5, ConnectSteps, Zenon
  <2>. QED
    BY <2>6, Zenon
<1>2. ASSUME NEW f \in FlowId, DialProxy(f) PROVE Goal
  <2>. DEFINE host == FindProxyConfig(match[f].config).host
  <2>1. host \in Host /\ ProxyPort \in Port
    BY ConfigFound, NetstackAssumption
  <2>2. /\ Connect(f, host, ProxyPort, FALSE, FALSE, "handshake")
        /\ pc[f] = "proxy" /\ UNCHANGED <<known, facts, match>>
    BY <1>2, Zenon DEF DialProxy
  <2>. HIDE DEF host
  <2>3. host = FindProxyConfig(match[f].config).host
    BY DEF host
  <2>4. \/ Alone(f, host, ProxyPort, FALSE, "handshake")
        \/ \E k \in FlowId : WithChild(f, k, host, ProxyPort, FALSE, "handshake")
    BY <2>1, <2>2, <2>3, ConnectSteps, Zenon
  <2>. QED
    BY <2>4, Zenon
<1>3. ASSUME \/ \E f \in FlowId : \/ DialFails(f) \/ ProxyAnswers(f) \/ ProxyFails(f)
                                 \/ RelayEnds(f) \/ SendFails(f) \/ Snoop(f) \/ Deliver(f)
             \/ \E h \in Host : Expire(h)
             \/ ProxyFallsSilent \/ UNCHANGED vars
      PROVE  Goal
  BY <1>3, QuietSteps, Zenon
<1>4. ASSUME NEW f \in FlowId, (\E w \in Offered : Accept(f, w)) \/ Open(f) PROVE Goal
  BY <1>4, Zenon
<1>. HIDE DEF Goal
<1>5. Goal
  BY <1>1, <1>2, <1>3, <1>4, Zenon DEF Next, Settle
<1>. QED
  BY <1>5 DEF Goal

-----------------------------------------------------------------------------
(* A counter goes up. *)
LEMMA PlusType ==
  ASSUME NEW s \in [Counters -> Nat], NEW k \in Counters
  PROVE  Plus(s, k) \in [Counters -> Nat]
BY DEF Plus

(* Every step keeps the types. *)
LEMMA TypeStep ==
  ASSUME TypeOK, ShapeInv, [Next]_vars PROVE TypeOK'
<1>. USE DEF Goto
<1>0. /\ FlowCounter(TRUE) \in Counters /\ FlowCounter(FALSE) \in Counters
      /\ \A c : DropCounter(c) \in Counters
      /\ "proxy_fallbacks" \in Counters /\ "blocked" \in Counters
      /\ "udp_send_errors" \in Counters
  BY DEF FlowCounter, DropCounter, Counters
<1>1. ASSUME NEW f \in FlowId, NEW w \in Offered, Accept(f, w) PROVE TypeOK'
  <2>1. w \in FlowFacts
    BY NetstackAssumption
  <2>2. stats' \in [Counters -> Nat]
    BY <1>0, <1>1, <2>1, PlusType, Zenon DEF Accept, TypeOK, FlowFacts
  <2>. QED
    BY <1>1, <2>1, <2>2 DEF Accept, TypeOK, relayVars
<1>2. ASSUME NEW f \in FlowId, Open(f) PROVE TypeOK'
  <2>1. PICK a \in Attributions(f) :
          LET c == [process |-> a.name, dest |-> flow[f].dest, port |-> flow[f].port,
                    udp |-> flow[f].udp, domain |-> DomainFor(flow[f].dest)]
              m == Decide(a.pid, c)
          IN  /\ facts' = [facts EXCEPT ![f] = c]
              /\ match' = [match EXCEPT ![f] = m]
              /\ IF m.action = "Block"
                 THEN Goto(f, "blocked") /\ stats' = Plus(stats, DropCounter(c))
                 ELSE /\ Goto(f, IF m.action = "Proxy" /\ ~ c.udp THEN "proxy" ELSE "dial")
                      /\ UNCHANGED stats
    BY <1>2, Zenon DEF Open
  <2>. DEFINE c == [process |-> a.name, dest |-> flow[f].dest, port |-> flow[f].port,
                    udp |-> flow[f].udp, domain |-> DomainFor(flow[f].dest)]
              m == Decide(a.pid, c)
  <2>2. c \in Facts
    BY <1>2, FactsFound DEF Open
  <2>3. m \in RuleMatch
    BY DecideType
  <2>4. stats' \in [Counters -> Nat]
    BY <1>0, <2>1, PlusType DEF TypeOK
  <2>5. facts' = [facts EXCEPT ![f] = c] /\ match' = [match EXCEPT ![f] = m]
    BY <2>1
  <2>6. \E l \in {"blocked", "proxy", "dial"} : pc' = [pc EXCEPT ![f] = l]
    BY <2>1
  <2>. HIDE DEF c, m
  <2>7. facts' \in [FlowId -> {Absent} \cup Facts] /\ match' \in [FlowId -> {Absent} \cup RuleMatch]
    BY <2>2, <2>3, <2>5 DEF TypeOK
  <2>8. pc' \in [FlowId -> {"none", "accepted", "dial", "proxy", "handshake", "relay", "deliver"}
                           \cup Ended]
    BY <2>6 DEF TypeOK, Ended
  <2>. QED
    BY <1>2, <2>4, <2>7, <2>8 DEF Open, TypeOK, relayVars
<1>3. ASSUME NEW f \in FlowId, NEW h \in Host, NEW p \in Port, NEW udp \in BOOLEAN,
             NEW pinned \in BOOLEAN, NEW l \in {"relay", "handshake"},
             Connect(f, h, p, udp, pinned, l), UNCHANGED <<known, facts, match, relayVars, proxyUp>>
      PROVE  TypeOK'
  <2>1. sockets' \subseteq Socket
    BY <1>3 DEF Connect, TypeOK, Socket
  <2>2. CASE pinned \/ h \in Loopback
    BY <1>3, <2>1, <2>2 DEF Connect, TypeOK, relayVars
  <2>3. CASE ~ (pinned \/ h \in Loopback)
    <3>1. PICK k \in FlowId :
            /\ pc' = [pc EXCEPT ![f] = l, ![k] = "accepted"]
            /\ flow' = [flow EXCEPT ![k] = [owner |-> Self, dest |-> h, port |-> p, udp |-> udp]]
            /\ parent' = [parent EXCEPT ![k] = f]
            /\ stats' = Plus(stats, FlowCounter(udp))
      BY <1>3, <2>3 DEF Connect
    <3>2. [owner |-> Self, dest |-> h, port |-> p, udp |-> udp] \in FlowFacts
      BY NetstackAssumption DEF FlowFacts
    <3>3. flow' \in [FlowId -> {Absent} \cup FlowFacts]
      BY <3>1, <3>2 DEF TypeOK
    <3>4. stats' \in [Counters -> Nat]
      BY <1>0, <3>1, PlusType, Zenon DEF TypeOK
    <3>5. pc' \in [FlowId -> {"none", "accepted", "dial", "proxy", "handshake", "relay", "deliver"}
                             \cup Ended]
      BY <3>1 DEF TypeOK
    <3>6. parent' \in [FlowId -> FlowId \cup {NoFlow}]
      BY <3>1 DEF TypeOK
    <3>. QED
      BY <1>3, <2>1, <3>3, <3>4, <3>5, <3>6 DEF TypeOK, relayVars
  <2>. QED
    BY <2>2, <2>3
<1>4. ASSUME NEW f \in FlowId, Dial(f) PROVE TypeOK'
  <2>1. flow[f].dest \in Host /\ flow[f].port \in Port /\ flow[f].udp \in BOOLEAN
    BY <1>4 DEF ShapeInv, FlowFacts, Dial
  <2>2. PICK pinned \in Pinned(flow[f].dest) :
          Connect(f, flow[f].dest, flow[f].port, flow[f].udp, pinned, "relay")
    BY <1>4 DEF Dial
  <2>3. pinned \in BOOLEAN
    BY Zenon DEF Pinned
  <2>. QED
    BY <1>3, <1>4, <2>1, <2>2, <2>3 DEF Dial
<1>5. ASSUME NEW f \in FlowId, DialProxy(f) PROVE TypeOK'
  <2>1. FindProxyConfig(match[f].config).host \in Host /\ ProxyPort \in Port
    BY ConfigFound, NetstackAssumption
  <2>. QED
    BY <1>3, <1>5, <2>1, Zenon DEF DialProxy
<1>6. ASSUME NEW f \in FlowId, DialFails(f) \/ ProxyAnswers(f) \/ RelayEnds(f) PROVE TypeOK'
  BY <1>6, Zenon DEF DialFails, ProxyAnswers, RelayEnds, TypeOK, relayVars, Ended
<1>7. ASSUME NEW f \in FlowId, ProxyFails(f) PROVE TypeOK'
  <2>1. stats' \in [Counters -> Nat]
    BY <1>0, <1>7, PlusType DEF ProxyFails, TypeOK
  <2>. QED
    BY <1>7, <2>1 DEF ProxyFails, TypeOK, relayVars, Ended
<1>8. ASSUME NEW f \in FlowId, SendFails(f) PROVE TypeOK'
  <2>1. stats' \in [Counters -> Nat]
    BY <1>0, <1>8, PlusType DEF SendFails, TypeOK
  <2>. QED
    BY <1>8, <2>1 DEF SendFails, TypeOK, relayVars
<1>9. ASSUME NEW f \in FlowId, Snoop(f) PROVE TypeOK'
  <2>1. \A a \in Answers : a.name \in Domain /\ a.hosts \in SUBSET Host
    BY NetstackAssumption
  <2>. QED
    BY <1>9, <2>1 DEF Snoop, TypeOK
<1>10. ASSUME NEW f \in FlowId, Deliver(f) PROVE TypeOK'
  BY <1>10 DEF Deliver, TypeOK, Ended
<1>11. CASE (\E h \in Host : Expire(h)) \/ ProxyFallsSilent \/ UNCHANGED vars
  BY <1>11, Zenon DEF Expire, ProxyFallsSilent, vars, TypeOK, relayVars
<1>. QED
  BY <1>1, <1>2, <1>4, <1>5, <1>6, <1>7, <1>8, <1>9, <1>10, <1>11 DEF Next, Settle

(* A flow is decided by what is found out about it. *)
LEMMA OpenStep ==
  ASSUME TypeOK, ShapeInv, NEW f \in FlowId, Open(f)
  PROVE  \E pid, c : Opened(f, pid, c)
<1>1. pc[f] = "accepted"
  BY DEF Open
<1>2. PICK a \in Attributions(f) :
        LET c == [process |-> a.name, dest |-> flow[f].dest, port |-> flow[f].port,
                  udp |-> flow[f].udp, domain |-> DomainFor(flow[f].dest)]
            m == Decide(a.pid, c)
        IN  /\ facts' = [facts EXCEPT ![f] = c]
            /\ match' = [match EXCEPT ![f] = m]
            /\ IF m.action = "Block"
               THEN Goto(f, "blocked") /\ stats' = Plus(stats, DropCounter(c))
               ELSE /\ Goto(f, IF m.action = "Proxy" /\ ~ c.udp THEN "proxy" ELSE "dial")
                    /\ UNCHANGED stats
  BY Zenon DEF Open
<1>. DEFINE c == [process |-> a.name, dest |-> flow[f].dest, port |-> flow[f].port,
                  udp |-> flow[f].udp, domain |-> DomainFor(flow[f].dest)]
<1>3. /\ c \in Facts
      /\ a.pid = Self => flow[f].owner = Self
      /\ "attribution" \notin Faults => a.pid = flow[f].owner
  BY <1>1, FactsFound
<1>4. c.dest = flow[f].dest /\ c.port = flow[f].port /\ c.udp = flow[f].udp
  OBVIOUS
<1>5. /\ facts' = [facts EXCEPT ![f] = c]
      /\ match' = [match EXCEPT ![f] = Decide(a.pid, c)]
      /\ IF Decide(a.pid, c).action = "Block" THEN Goto(f, "blocked")
         ELSE Goto(f, IF Decide(a.pid, c).action = "Proxy" /\ ~ c.udp THEN "proxy" ELSE "dial")
  BY <1>2
<1>. HIDE DEF c
<1>6. pc' = [pc EXCEPT ![f] =
              IF Decide(a.pid, c).action = "Block" THEN "blocked"
              ELSE IF Decide(a.pid, c).action = "Proxy" /\ ~ c.udp THEN "proxy" ELSE "dial"]
  BY <1>5 DEF Goto
<1>7. UNCHANGED <<known, flow, parent, sockets>>
  BY DEF Open
<1>8. Opened(f, a.pid, c)
  BY <1>1, <1>3, <1>4, <1>5, <1>6, <1>7 DEF Opened
<1>. QED
  BY <1>8

(* The variables that have an entry for every flow. *)
LEMMA Domains ==
  ASSUME TypeOK
  PROVE  /\ DOMAIN pc = FlowId /\ DOMAIN flow = FlowId /\ DOMAIN parent = FlowId
         /\ DOMAIN facts = FlowId /\ DOMAIN match = FlowId
BY DEF TypeOK

(* Every step keeps the shape. *)
LEMMA ShapeStep ==
  ASSUME TypeOK, ShapeInv, TypeOK', [Next]_vars PROVE ShapeInv'
<1>. USE DEF Past, Dialled
<1>0. \A s \in sockets : s.flow \in FlowId
  BY DEF TypeOK, Socket
<1>1. ASSUME NEW f \in FlowId, NEW w \in Offered, Accept(f, w) PROVE ShapeInv'
  <2>1. w \in FlowFacts
    BY NetstackAssumption
  <2>2. \A g \in FlowId : g # f => pc'[g] = pc[g] /\ flow'[g] = flow[g]
    BY <1>1, Domains DEF Accept, Goto
  <2>3. pc[f] = "none" /\ pc'[f] = "accepted" /\ flow'[f] = w /\ parent[f] = NoFlow
    BY <1>1, Domains DEF Accept, Goto, ShapeInv
  <2>4. UNCHANGED <<parent, facts, match, sockets>>
    BY <1>1 DEF Accept
  <2>5. \A g \in FlowId : parent[g] # NoFlow => parent[g] \in FlowId /\ parent[g] # f
    BY <2>3 DEF TypeOK, ShapeInv
  <2>. QED
    BY <1>0, <2>1, <2>2, <2>3, <2>4, <2>5 DEF ShapeInv
<1>2. ASSUME NEW f \in FlowId, Open(f) PROVE ShapeInv'
  <2>1. PICK pid, c : Opened(f, pid, c)
    BY <1>2, OpenStep
  <2>. DEFINE m == Decide(pid, c)
  <2>2. m \in RuleMatch
    BY DecideType
  <2>3. /\ pc[f] = "accepted" /\ facts'[f] = c /\ match'[f] = m
        /\ c \in Facts /\ c.udp = flow[f].udp
        /\ pc'[f] = IF m.action = "Block" THEN "blocked"
                    ELSE IF m.action = "Proxy" /\ ~ c.udp THEN "proxy" ELSE "dial"
    BY <2>1, Domains DEF Opened
  <2>4. \A g \in FlowId : g # f => pc'[g] = pc[g] /\ facts'[g] = facts[g] /\ match'[g] = match[g]
    BY <2>1, Domains DEF Opened
  <2>5. UNCHANGED <<flow, parent, sockets>>
    BY <2>1 DEF Opened
  <2>. HIDE DEF m
  <2>6. \A g \in FlowId : parent[g] # NoFlow => parent[g] \in FlowId /\ parent[g] # f
    BY <2>3 DEF TypeOK, ShapeInv
  <2>7. \A s \in sockets : s.flow # f
    BY <2>3 DEF ShapeInv
  <2>8. \A g \in FlowId :
         /\ pc'[g] # "none" => flow'[g] \in FlowFacts
         /\ Past(g)' => facts'[g] \in Facts /\ match'[g] \in RuleMatch
    BY <2>2, <2>3, <2>4, <2>5, Zenon DEF ShapeInv
  <2>9. \A g \in FlowId :
         /\ pc'[g] \in {"proxy", "handshake"} => match'[g].action = "Proxy" /\ ~ flow'[g].udp
         /\ pc'[g] = "dial" => ~ (match'[g].action = "Proxy" /\ ~ flow'[g].udp)
    BY <2>3, <2>4, <2>5 DEF ShapeInv
  <2>10. \A g \in FlowId : parent'[g] # NoFlow =>
            /\ pc'[g] # "none" /\ Dialled(parent[g])'
            /\ flow'[g].owner = Self /\ flow'[g].dest \notin Loopback
    BY <2>3, <2>4, <2>5, <2>6 DEF ShapeInv
  <2>11. \A s \in sockets' : Dialled(s.flow)'
    BY <1>0, <2>4, <2>5, <2>7 DEF ShapeInv
  <2>. QED
    BY <2>8, <2>9, <2>10, <2>11 DEF ShapeInv
<1>3. ASSUME NEW f \in FlowId, NEW h, NEW p, NEW udp, NEW l, Alone(f, h, p, udp, l)
      PROVE  ShapeInv'
  <2>1. /\ pc[f] \in {"dial", "proxy"} /\ pc'[f] \in {"relay", "handshake"}
        /\ pc'[f] = "handshake" => pc[f] = "proxy"
    BY <1>3, Domains DEF Alone, Opens
  <2>2. \A g \in FlowId : g # f => pc'[g] = pc[g]
    BY <1>3, Domains DEF Alone
  <2>3. UNCHANGED <<flow, parent, facts, match>>
    BY <1>3 DEF Alone, Opens
  <2>4. \A s \in sockets' : s \in sockets \/ s.flow = f
    BY <1>3 DEF Alone, Opens
  <2>5. \A g \in FlowId : parent[g] # NoFlow => parent[g] \in FlowId
    BY DEF TypeOK
  <2>. QED
    BY <1>0, <2>1, <2>2, <2>3, <2>4, <2>5 DEF ShapeInv
<1>4. ASSUME NEW f \in FlowId, NEW k \in FlowId, NEW h, NEW p, NEW udp, NEW l,
             WithChild(f, k, h, p, udp, l)
      PROVE  ShapeInv'
  <2>1. /\ pc[f] \in {"dial", "proxy"} /\ pc[k] = "none" /\ f # k
        /\ pc'[f] \in {"relay", "handshake"} /\ pc'[k] = "accepted"
        /\ pc'[f] = "handshake" => pc[f] = "proxy"
    BY <1>4, Domains DEF WithChild, Opens
  <2>2. \A g \in FlowId : g # f /\ g # k => pc'[g] = pc[g]
    BY <1>4, Domains DEF WithChild
  <2>3. UNCHANGED <<facts, match>>
    BY <1>4 DEF WithChild, Opens
  <2>4. \A s \in sockets' : s \in sockets \/ s.flow = f
    BY <1>4 DEF WithChild, Opens
  <2>5. /\ \A g \in FlowId : g # k => parent'[g] = parent[g] /\ flow'[g] = flow[g]
        /\ parent'[k] = f
        /\ flow'[k] = [owner |-> Self, dest |-> h, port |-> p, udp |-> udp]
        /\ h \in Host /\ h \notin Loopback /\ p \in Port /\ udp \in BOOLEAN
    BY <1>4, Domains DEF WithChild, Opens
  <2>6. flow'[k] \in FlowFacts /\ flow'[k].owner = Self /\ flow'[k].dest \notin Loopback
    BY <2>5, NetstackAssumption DEF FlowFacts
  <2>7. \A g \in FlowId : parent[g] # NoFlow => parent[g] \in FlowId /\ parent[g] # k
    BY <2>1 DEF TypeOK, ShapeInv
  <2>8. \A s \in sockets : s.flow # k
    BY <2>1 DEF ShapeInv
  <2>9. \A g \in FlowId :
         /\ pc'[g] # "none" => flow'[g] \in FlowFacts
         /\ Past(g)' => facts'[g] \in Facts /\ match'[g] \in RuleMatch
    BY <2>1, <2>2, <2>3, <2>5, <2>6, Zenon DEF ShapeInv
  <2>10. \A g \in FlowId :
         /\ pc'[g] \in {"proxy", "handshake"} => match'[g].action = "Proxy" /\ ~ flow'[g].udp
         /\ pc'[g] = "dial" => ~ (match'[g].action = "Proxy" /\ ~ flow'[g].udp)
    BY <2>1, <2>2, <2>3, <2>5, Zenon DEF ShapeInv
  <2>11. \A g \in FlowId : parent'[g] # NoFlow =>
            /\ pc'[g] # "none" /\ Dialled(parent[g])'
            /\ flow'[g].owner = Self /\ flow'[g].dest \notin Loopback
    <3>. TAKE g \in FlowId
    <3>1. CASE g = k
      BY <2>1, <2>5, <2>6, <3>1
    <3>2. CASE g # k
      <4>1. parent'[g] = parent[g] /\ flow'[g] = flow[g]
        BY <2>5, <3>2
      <4>. QED
        BY <2>1, <2>2, <2>7, <4>1 DEF ShapeInv
    <3>. QED
      BY <3>1, <3>2
  <2>12. \A s \in sockets' : Dialled(s.flow)'
    BY <1>0, <2>1, <2>2, <2>4, <2>8 DEF ShapeInv
  <2>. QED
    BY <2>9, <2>10, <2>11, <2>12 DEF ShapeInv
<1>5. CASE Quiet
  <2>1. \A g \in FlowId : parent[g] # NoFlow => parent[g] \in FlowId
    BY DEF TypeOK
  <2>. QED
    BY <1>0, <1>5, <2>1 DEF Quiet, Passed, ShapeInv
<1>. QED
  BY <1>1, <1>2, <1>3, <1>4, <1>5, StepCases

(* The tasks of the flows keep to their types and to ShapeInv: a flow has  *)
(* its facts and its match once it has been decided, takes the way its     *)
(* match says, and only a flow that was dialled has a socket or a child.   *)
THEOREM FlowsTyped == Spec => [](TypeOK /\ ShapeInv)
<1>1. Init => TypeOK /\ ShapeInv
  <2>. SUFFICES ASSUME Init PROVE TypeOK /\ ShapeInv
    OBVIOUS
  <2>1. TypeOK
    BY DEF Init, TypeOK
  <2>2. \A f \in FlowId : pc[f] = "none" /\ parent[f] = NoFlow
    BY DEF Init
  <2>3. sockets = {}
    BY DEF Init
  <2>. QED
    BY <2>1, <2>2, <2>3 DEF ShapeInv, Past
<1>2. TypeOK /\ ShapeInv /\ [Next]_vars => (TypeOK /\ ShapeInv)'
  BY TypeStep, ShapeStep
<1>. QED
  BY <1>1, <1>2, PTL DEF Spec

-----------------------------------------------------------------------------
Quic(f) == flow[f].udp /\ flow[f].port = QuicPort /\ flow[f].dest \notin Loopback

(* Only the engine's own QUIC is passed, and only it comes back. *)
QuicInv ==
  QuicDrop =>
    /\ \A f \in FlowId :
         /\ Passed(f) /\ Quic(f) => flow[f].owner = Self
         /\ parent[f] # NoFlow /\ Quic(f) => flow[parent[f]].owner = Self
    /\ QuicStaysIn

(* A flow that came back goes direct, over a family that has an interface, *)
(* and to the proxy if that is where its parent was sent.                  *)
LoopInv ==
  \A f \in FlowId : parent[f] # NoFlow =>
    /\ Passed(f) => match[f].action = "Direct" /\ Family(flow[f].dest) \in known
    /\ match[parent[f]].action = "Proxy" /\ ~ flow[parent[f]].udp =>
         flow[f].dest = FindProxyConfig(match[parent[f]].config).host

(* An answer that is being passed on has been stored. *)
SnoopInv ==
  /\ \A f \in FlowId : \A h \in answer[f] : cache[h] # Absent \/ h \in lapsed
  /\ SnoopBeforeDelivery

(* Sockets and parents belong to flows that have been decided, so neither  *)
(* a flow that is accepted nor one that is opened is the root of a socket. *)
LEMMA RootsDialled ==
  ASSUME TypeOK, ShapeInv
  PROVE  /\ \A s \in sockets : s.flow \in FlowId /\ Root(s.flow) \in FlowId /\ Dialled(Root(s.flow))
         /\ \A f \in FlowId : parent[f] # NoFlow => parent[f] \in FlowId /\ Dialled(parent[f])
BY DEF TypeOK, ShapeInv, Root, Socket

(* Every step keeps QUIC in, whatever goes wrong. *)
LEMMA QuicStep ==
  ASSUME TypeOK, ShapeInv, QuicInv, [Next]_vars PROVE QuicInv'
<1>. SUFFICES ASSUME QuicDrop
              PROVE  /\ \A g \in FlowId :
                          /\ Passed(g)' /\ Quic(g)' => flow'[g].owner = Self
                          /\ parent'[g] # NoFlow /\ Quic(g)' => (flow[parent[g]].owner = Self)'
                     /\ QuicStaysIn'
  BY DEF QuicInv
<1>. DEFINE Goal == /\ \A g \in FlowId :
                          /\ Passed(g)' /\ Quic(g)' => flow'[g].owner = Self
                          /\ parent'[g] # NoFlow /\ Quic(g)' => (flow[parent[g]].owner = Self)'
                    /\ QuicStaysIn'
<1>a. \A g \in FlowId :
        /\ Passed(g) /\ Quic(g) => flow[g].owner = Self
        /\ parent[g] # NoFlow /\ Quic(g) => flow[parent[g]].owner = Self
  BY DEF QuicInv
<1>b. \A s \in sockets : s.udp /\ s.port = QuicPort /\ s.host \notin Loopback =>
        flow[Root(s.flow)].owner = Self
  BY DEF QuicInv, QuicStaysIn
<1>c. /\ \A s \in sockets : /\ s.flow \in FlowId /\ Root(s.flow) \in FlowId
                            /\ pc[Root(s.flow)] \notin {"none", "accepted"}
      /\ \A f \in FlowId : parent[f] # NoFlow =>
           parent[f] \in FlowId /\ pc[parent[f]] \notin {"none", "accepted"}
  BY RootsDialled DEF Dialled
<1>1. ASSUME NEW f \in FlowId, NEW w \in Offered, Accept(f, w) PROVE Goal
  <2>1. \A g \in FlowId : g # f => pc'[g] = pc[g] /\ flow'[g] = flow[g]
    BY <1>1, Domains DEF Accept, Goto
  <2>2. pc[f] = "none" /\ pc'[f] = "accepted" /\ parent[f] = NoFlow /\ UNCHANGED <<parent, sockets>>
    BY <1>1, Domains DEF Accept, Goto, ShapeInv
  <2>. QED
    BY <1>c, <1>a, <1>b, <2>1, <2>2 DEF Passed, Quic, QuicStaysIn, Root
<1>2. ASSUME NEW f \in FlowId, Open(f) PROVE Goal
  <2>1. PICK pid, c : Opened(f, pid, c)
    BY <1>2, OpenStep
  <2>2. \A g \in FlowId : g # f => pc'[g] = pc[g]
    BY <2>1, Domains DEF Opened
  <2>3. UNCHANGED <<flow, parent, sockets>>
    BY <2>1 DEF Opened
  <2>4. pc'[f] # "blocked" => Decide(pid, c).action # "Block"
    BY <2>1, Domains DEF Opened
  <2>5. Quic(f) /\ pid # Self => Decide(pid, c).action = "Block"
    BY <2>1 DEF Quic, Opened, Decide, DecideOther, Decided
  <2>6. pid = Self => flow[f].owner = Self
    BY <2>1 DEF Opened
  <2>7. Passed(f)' /\ Quic(f) => flow[f].owner = Self
    BY <2>4, <2>5, <2>6 DEF Passed
  <2>. QED
    BY <1>a, <1>b, <2>2, <2>3, <2>7 DEF Passed, Quic, QuicStaysIn, Root
<1>3. ASSUME NEW f \in FlowId, NEW h, NEW p, NEW udp, NEW l, Opens(f, h, p, udp, l)
      PROVE  /\ Passed(f)
             /\ udp /\ p = QuicPort /\ h \notin Loopback => Quic(f)
             /\ \A s \in sockets' : s \in sockets \/
                  (s.flow = f /\ s.udp = udp /\ s.port = p /\ s.host = h)
  BY <1>3 DEF Opens, Passed, Quic
<1>4. ASSUME NEW f \in FlowId, NEW h, NEW p, NEW udp, NEW l, Alone(f, h, p, udp, l) PROVE Goal
  <2>1. /\ Passed(f)
        /\ udp /\ p = QuicPort /\ h \notin Loopback => Quic(f)
        /\ \A s \in sockets' : s \in sockets \/
             (s.flow = f /\ s.udp = udp /\ s.port = p /\ s.host = h)
    BY <1>3, <1>4 DEF Alone
  <2>2. \A g \in FlowId : g # f => pc'[g] = pc[g]
    BY <1>4, Domains DEF Alone
  <2>3. UNCHANGED <<flow, parent>>
    BY <1>4 DEF Alone
  <2>4. Quic(f) => flow[Root(f)].owner = Self
    BY <1>a, <2>1 DEF Root
  <2>. QED
    BY <1>a, <1>b, <2>1, <2>2, <2>3, <2>4 DEF Passed, Quic, QuicStaysIn, Root
<1>5. ASSUME NEW f \in FlowId, NEW k \in FlowId, NEW h, NEW p, NEW udp, NEW l,
             WithChild(f, k, h, p, udp, l)
      PROVE  Goal
  <2>1. /\ Passed(f)
        /\ udp /\ p = QuicPort /\ h \notin Loopback => Quic(f)
        /\ \A s \in sockets' : s \in sockets \/
             (s.flow = f /\ s.udp = udp /\ s.port = p /\ s.host = h)
    BY <1>3, <1>5 DEF WithChild
  <2>2. /\ pc[k] = "none" /\ f # k /\ pc'[k] = "accepted" /\ parent[k] = NoFlow
        /\ \A g \in FlowId : g # f /\ g # k => pc'[g] = pc[g]
    BY <1>5, <2>1, Domains DEF WithChild, Passed, ShapeInv
  <2>3. /\ \A g \in FlowId : g # k => parent'[g] = parent[g] /\ flow'[g] = flow[g]
        /\ parent'[k] = f
        /\ flow'[k].udp = udp /\ flow'[k].port = p /\ flow'[k].dest = h
    BY <1>5, Domains, Zenon DEF WithChild
  <2>4. Quic(f) => flow[Root(f)].owner = Self
    BY <1>a, <2>1 DEF Root
  <2>5. ASSUME NEW s \in sockets
        PROVE  Root(s.flow)' = Root(s.flow) /\ flow'[Root(s.flow)] = flow[Root(s.flow)]
    <3>1. s.flow \in FlowId /\ s.flow # k /\ Root(s.flow) \in FlowId /\ Root(s.flow) # k
      BY <1>c, <2>2 DEF ShapeInv, Dialled
    <3>. QED
      BY <2>3, <3>1 DEF Root
  <2>6. Root(f)' = Root(f) /\ flow'[Root(f)] = flow[Root(f)]
    <3>1. f \in FlowId /\ f # k /\ Root(f) \in FlowId /\ Root(f) # k
      BY <1>c, <2>2 DEF Root
    <3>. QED
      BY <2>3, <3>1 DEF Root
  <2>7. QuicStaysIn'
    BY <1>b, <2>1, <2>4, <2>5, <2>6 DEF QuicStaysIn
  <2>8. \A g \in FlowId : Passed(g)' /\ Quic(g)' => flow'[g].owner = Self
    BY <1>a, <2>1, <2>2, <2>3 DEF Passed, Quic
  <2>9. \A g \in FlowId : parent'[g] # NoFlow /\ Quic(g)' => (flow[parent[g]].owner = Self)'
    BY <1>c, <1>a, <2>1, <2>2, <2>3 DEF Quic
  <2>. QED
    BY <2>7, <2>8, <2>9
<1>6. CASE Quiet
  BY <1>a, <1>b, <1>6 DEF Quiet, Passed, Quic, QuicStaysIn, Root
<1>. QED
  BY <1>1, <1>2, <1>4, <1>5, <1>6, StepCases

(* A flow with a parent is the engine's own, and known to be. *)
LEMMA LoopStep ==
  ASSUME TypeOK, ShapeInv, LoopInv, "attribution" \notin Faults, [Next]_vars PROVE LoopInv'
<1>c. /\ \A s \in sockets : /\ s.flow \in FlowId /\ Root(s.flow) \in FlowId
                            /\ pc[Root(s.flow)] \notin {"none", "accepted"}
      /\ \A f \in FlowId : parent[f] # NoFlow =>
           parent[f] \in FlowId /\ pc[parent[f]] \notin {"none", "accepted"}
  BY RootsDialled DEF Dialled
<1>1. ASSUME NEW f \in FlowId, NEW w \in Offered, Accept(f, w) PROVE LoopInv'
  <2>1. \A g \in FlowId : g # f => pc'[g] = pc[g] /\ flow'[g] = flow[g]
    BY <1>1, Domains DEF Accept, Goto
  <2>2. /\ pc[f] = "none" /\ pc'[f] = "accepted" /\ parent[f] = NoFlow
        /\ UNCHANGED <<known, parent, match>>
    BY <1>1, Domains DEF Accept, Goto, ShapeInv
  <2>. QED
    BY <1>c, <2>1, <2>2 DEF LoopInv, Passed
<1>2. ASSUME NEW f \in FlowId, Open(f) PROVE LoopInv'
  <2>1. PICK pid, c : Opened(f, pid, c)
    BY <1>2, OpenStep
  <2>2. \A g \in FlowId : g # f => pc'[g] = pc[g] /\ match'[g] = match[g]
    BY <2>1, Domains DEF Opened
  <2>3. UNCHANGED <<known, flow, parent>> /\ pc[f] = "accepted" /\ match'[f] = Decide(pid, c)
    BY <2>1, Domains DEF Opened
  <2>4. pc'[f] # "blocked" => Decide(pid, c).action # "Block"
    BY <2>1, Domains DEF Opened
  <2>5. c.dest = flow[f].dest /\ pid = flow[f].owner
    BY <2>1 DEF Opened
  <2>6. parent[f] # NoFlow => flow[f].owner = Self /\ flow[f].dest \notin Loopback
    BY DEF ShapeInv
  <2>7. parent[f] # NoFlow /\ pc'[f] # "blocked" =>
          Decide(pid, c).action = "Direct" /\ Family(flow[f].dest) \in known
    BY <2>4, <2>5, <2>6 DEF Decide, Decided
  <2>8. \A g \in FlowId : parent[g] # NoFlow => parent[g] # f
    BY <1>c, <2>3
  <2>9. ASSUME NEW g \in FlowId, parent'[g] # NoFlow, Passed(g)'
        PROVE  match'[g].action = "Direct" /\ (Family(flow[g].dest) \in known)'
    <3>1. CASE g = f
      BY <2>3, <2>7, <2>9, <3>1 DEF Passed, Family
    <3>2. CASE g # f
      BY <2>2, <2>3, <2>9, <3>2 DEF LoopInv, Passed, Family
    <3>. QED
      BY <3>1, <3>2
  <2>10. ASSUME NEW g \in FlowId, parent'[g] # NoFlow
         PROVE  (match[parent[g]].action = "Proxy" /\ ~ flow[parent[g]].udp =>
                   flow[g].dest = FindProxyConfig(match[parent[g]].config).host)'
    <3>1. parent[g] \in FlowId /\ match'[parent[g]] = match[parent[g]]
      BY <1>c, <2>2, <2>3, <2>8, <2>10
    <3>. QED
      BY <2>3, <2>10, <3>1 DEF LoopInv, FindProxyConfig
  <2>. QED
    BY <2>9, <2>10 DEF LoopInv
<1>3. ASSUME NEW f \in FlowId, NEW h, NEW p, NEW udp, NEW l, Alone(f, h, p, udp, l) PROVE LoopInv'
  <2>1. pc[f] \in {"dial", "proxy"} /\ \A g \in FlowId : g # f => pc'[g] = pc[g]
    BY <1>3, Domains DEF Alone, Opens
  <2>2. UNCHANGED <<known, flow, parent, match>>
    BY <1>3 DEF Alone, Opens
  <2>. QED
    BY <2>1, <2>2 DEF LoopInv, Passed
<1>4. ASSUME NEW f \in FlowId, NEW k \in FlowId, NEW h, NEW p, NEW udp, NEW l,
             WithChild(f, k, h, p, udp, l)
      PROVE  LoopInv'
  <2>1. /\ pc[f] \in {"dial", "proxy"} /\ pc[k] = "none" /\ f # k
        /\ pc'[k] = "accepted" /\ parent[k] = NoFlow
        /\ \A g \in FlowId : g # f /\ g # k => pc'[g] = pc[g]
    BY <1>4, Domains DEF WithChild, Opens, ShapeInv
  <2>2. /\ \A g \in FlowId : g # k => parent'[g] = parent[g] /\ flow'[g] = flow[g]
        /\ parent'[k] = f /\ flow'[k].dest = h /\ UNCHANGED <<known, match>>
    BY <1>4, Domains DEF WithChild, Opens
  <2>3. match[f].action = "Proxy" /\ ~ flow[f].udp => h = FindProxyConfig(match[f].config).host
    BY <1>4 DEF WithChild, Opens, ShapeInv
  <2>4. \A g \in FlowId : parent[g] # NoFlow => parent[g] # k
    BY <1>c, <2>1
  <2>5. ASSUME NEW g \in FlowId, parent'[g] # NoFlow, Passed(g)'
        PROVE  match'[g].action = "Direct" /\ (Family(flow[g].dest) \in known)'
    <3>1. g # k /\ Passed(g)
      BY <2>1, <2>5 DEF Passed
    <3>. QED
      BY <2>2, <2>5, <3>1 DEF LoopInv, Family
  <2>6. ASSUME NEW g \in FlowId, parent'[g] # NoFlow
        PROVE  (match[parent[g]].action = "Proxy" /\ ~ flow[parent[g]].udp =>
                  flow[g].dest = FindProxyConfig(match[parent[g]].config).host)'
    <3>1. CASE g = k
      BY <2>1, <2>2, <2>3, <3>1 DEF FindProxyConfig
    <3>2. CASE g # k
      <4>1. parent'[g] = parent[g] /\ flow'[g] = flow[g] /\ parent[g] # NoFlow
        BY <2>2, <2>6, <3>2
      <4>2. parent[g] \in FlowId /\ flow'[parent[g]] = flow[parent[g]]
        BY <1>c, <2>2, <2>4, <4>1
      <4>. QED
        BY <2>2, <4>1, <4>2 DEF LoopInv, FindProxyConfig
    <3>. QED
      BY <3>1, <3>2
  <2>. QED
    BY <2>5, <2>6 DEF LoopInv
<1>5. CASE Quiet
  <2>1. \A g \in FlowId : Passed(g)' => Passed(g)
    BY <1>5 DEF Quiet, Passed
  <2>. QED
    BY <1>5, <2>1 DEF LoopInv, Quiet, Family, FindProxyConfig
<1>. QED
  BY <1>1, <1>2, <1>3, <1>4, <1>5, StepCases

(* A flow that came back, dialled on a pinned socket, does not come back.  *)
LEMMA NoLoopStep ==
  ASSUME TypeOK, ShapeInv, LoopInv, NoRoutingLoop, "pin" \notin Faults, [Next]_vars
  PROVE  NoRoutingLoop'
<1>1. CASE UNCHANGED parent
  BY <1>1 DEF NoRoutingLoop
<1>2. ASSUME NEW f \in FlowId, NEW k \in FlowId, NEW h, NEW p, NEW udp, NEW l,
             WithChild(f, k, h, p, udp, l)
      PROVE  NoRoutingLoop'
  <2>1. /\ pc[f] \in {"dial", "proxy"} /\ pc[k] = "none" /\ f # k
        /\ \A g \in FlowId : g # k => parent'[g] = parent[g]
        /\ parent'[k] = f
    BY <1>2, Domains DEF WithChild, Opens
  <2>2. pc[f] = "dial" => h = flow[f].dest /\ Family(h) \notin known
    BY <1>2 DEF WithChild, Opens
  <2>3. pc[f] = "proxy" => match[f].action = "Proxy"
    BY DEF ShapeInv
  <2>4. parent[f] = NoFlow
    BY <2>1, <2>2, <2>3 DEF LoopInv, Passed
  <2>5. \A g \in FlowId : parent[g] # NoFlow => parent[g] \in FlowId /\ parent[g] # k
    BY <2>1, RootsDialled DEF Dialled
  <2>. QED
    BY <2>1, <2>4, <2>5 DEF NoRoutingLoop
<1>. QED
  BY <1>1, <1>2, StepCases DEF Accept, Open, Alone, Quiet

(* No socket is opened but the one of a direct flow or the one to the      *)
(* proxy.                                                                  *)
LEMMA ClosedStep ==
  ASSUME TypeOK, ShapeInv, LoopInv, FailClosed, [Next]_vars PROVE FailClosed'
<1>c. /\ \A s \in sockets : /\ s.flow \in FlowId /\ Root(s.flow) \in FlowId
                            /\ pc[Root(s.flow)] \notin {"none", "accepted"}
      /\ \A f \in FlowId : parent[f] # NoFlow =>
           parent[f] \in FlowId /\ pc[parent[f]] \notin {"none", "accepted"}
  BY RootsDialled DEF Dialled
<1>1. ASSUME NEW f \in FlowId, NEW w \in Offered, Accept(f, w) PROVE FailClosed'
  <2>1. \A g \in FlowId : g # f => flow'[g] = flow[g]
    BY <1>1, Domains, Zenon DEF Accept
  <2>2. pc[f] = "none" /\ UNCHANGED <<parent, match, sockets>>
    BY <1>1 DEF Accept
  <2>. QED
    BY <1>c, <2>1, <2>2 DEF FailClosed, Root, FindProxyConfig
<1>2. ASSUME NEW f \in FlowId, Open(f) PROVE FailClosed'
  <2>1. \A g \in FlowId : g # f => match'[g] = match[g]
    BY <1>2, Domains, Zenon DEF Open
  <2>2. pc[f] = "accepted" /\ UNCHANGED <<flow, parent, sockets>>
    BY <1>2, Zenon DEF Open
  <2>. QED
    BY <1>c, <2>1, <2>2 DEF FailClosed, Root, FindProxyConfig
<1>3. ASSUME NEW f \in FlowId, NEW h, NEW p, NEW udp, NEW l, Opens(f, h, p, udp, l)
      PROVE  /\ match[Root(f)].action = "Proxy" /\ ~ flow[Root(f)].udp =>
                  h = FindProxyConfig(match[Root(f)].config).host
             /\ \A s \in sockets' : s \in sockets \/ (s.flow = f /\ s.host = h)
  <2>1. /\ \/ pc[f] = "dial" /\ h = flow[f].dest
           \/ pc[f] = "proxy" /\ h = FindProxyConfig(match[f].config).host
        /\ \A s \in sockets' : s \in sockets \/ (s.flow = f /\ s.host = h)
    BY <1>3 DEF Opens
  <2>2. /\ pc[f] = "dial" => ~ (match[f].action = "Proxy" /\ ~ flow[f].udp)
        /\ pc[f] = "proxy" => match[f].action = "Proxy"
    BY DEF ShapeInv
  <2>3. CASE parent[f] = NoFlow
    BY <2>1, <2>2, <2>3 DEF Root
  <2>4. CASE parent[f] # NoFlow
    <3>1. match[f].action = "Direct"
      BY <2>1, <2>4 DEF LoopInv, Passed
    <3>2. h = flow[f].dest
      BY <2>1, <2>2, <3>1
    <3>. QED
      BY <2>1, <2>4, <3>2 DEF Root, LoopInv
  <2>. QED
    BY <2>3, <2>4
<1>4. ASSUME NEW f \in FlowId, NEW h, NEW p, NEW udp, NEW l, Alone(f, h, p, udp, l)
      PROVE  FailClosed'
  <2>1. UNCHANGED <<flow, parent, match>>
    BY <1>4 DEF Alone, Opens
  <2>2. /\ match[Root(f)].action = "Proxy" /\ ~ flow[Root(f)].udp =>
             h = FindProxyConfig(match[Root(f)].config).host
        /\ \A s \in sockets' : s \in sockets \/ (s.flow = f /\ s.host = h)
    BY <1>3, <1>4 DEF Alone
  <2>. QED
    BY <2>1, <2>2 DEF FailClosed, Root, FindProxyConfig
<1>5. ASSUME NEW f \in FlowId, NEW k \in FlowId, NEW h, NEW p, NEW udp, NEW l,
             WithChild(f, k, h, p, udp, l)
      PROVE  FailClosed'
  <2>1. /\ pc[f] \in {"dial", "proxy"} /\ pc[k] = "none" /\ f # k /\ UNCHANGED match
        /\ \A g \in FlowId : g # k => parent'[g] = parent[g] /\ flow'[g] = flow[g]
    BY <1>5, Domains, Zenon DEF WithChild, Opens
  <2>2. /\ match[Root(f)].action = "Proxy" /\ ~ flow[Root(f)].udp =>
             h = FindProxyConfig(match[Root(f)].config).host
        /\ \A s \in sockets' : s \in sockets \/ (s.flow = f /\ s.host = h)
    BY <1>3, <1>5, Zenon DEF WithChild
  <2>3. ASSUME NEW s \in sockets
        PROVE  Root(s.flow)' = Root(s.flow) /\ flow'[Root(s.flow)] = flow[Root(s.flow)]
    <3>1. s.flow \in FlowId /\ s.flow # k /\ Root(s.flow) \in FlowId /\ Root(s.flow) # k
      BY <1>c, <2>1 DEF ShapeInv, Dialled
    <3>. QED
      BY <2>1, <3>1 DEF Root
  <2>4. Root(f)' = Root(f) /\ flow'[Root(f)] = flow[Root(f)]
    BY <1>c, <2>1 DEF Root
  <2>. QED
    BY <2>1, <2>2, <2>3, <2>4 DEF FailClosed, FindProxyConfig
<1>6. CASE Quiet
  BY <1>6 DEF Quiet, FailClosed, Root, FindProxyConfig
<1>. QED
  BY <1>1, <1>2, <1>4, <1>5, <1>6, StepCases

(* The cache has a name for every address in an answer before the          *)
(* answer is passed on.                                                    *)
LEMMA SnoopStep ==
  ASSUME TypeOK, SnoopInv, [Next]_vars PROVE SnoopInv'
<1>1. CASE UNCHANGED relayVars
  BY <1>1 DEF SnoopInv, SnoopBeforeDelivery, relayVars
<1>2. ASSUME NEW f \in FlowId, Snoop(f) PROVE SnoopInv'
  <2>1. PICK a \in Answers :
          /\ cache' = [h \in Host |-> IF h \in a.hosts THEN a.name ELSE cache[h]]
          /\ lapsed' = lapsed \ a.hosts
          /\ answer' = [answer EXCEPT ![f] = a.hosts]
    BY <1>2, Zenon DEF Snoop
  <2>2. a.name # Absent /\ a.hosts \subseteq Host /\ told' = told
    BY <1>2, NetstackAssumption, MarkerAssumption DEF Snoop
  <2>3. \A h \in Host : cache[h] # Absent \/ h \in lapsed \/ h \in a.hosts =>
                       cache'[h] # Absent \/ h \in lapsed'
    BY <2>1, <2>2
  <2>4. \A g \in FlowId : \A h \in answer'[g] : h \in Host /\ (h \in answer[g] \/ h \in a.hosts)
    BY <2>1, <2>2 DEF TypeOK
  <2>5. \A h \in told : h \in Host
    BY DEF TypeOK
  <2>. QED
    BY <2>2, <2>3, <2>4, <2>5 DEF SnoopInv, SnoopBeforeDelivery
<1>3. ASSUME NEW f \in FlowId, Deliver(f) PROVE SnoopInv'
  <2>1. \A g \in FlowId : answer'[g] \subseteq answer[g]
    BY <1>3 DEF Deliver, TypeOK
  <2>2. told' \subseteq told \cup answer[f] /\ UNCHANGED <<cache, lapsed>>
    BY <1>3, Zenon DEF Deliver
  <2>. QED
    BY <2>1, <2>2 DEF SnoopInv, SnoopBeforeDelivery
<1>4. ASSUME NEW h \in Host, Expire(h) PROVE SnoopInv'
  <2>1. \A i \in Host : cache[i] # Absent \/ i \in lapsed => cache'[i] # Absent \/ i \in lapsed'
    BY <1>4 DEF Expire, TypeOK
  <2>2. UNCHANGED <<answer, told>>
    BY <1>4 DEF Expire
  <2>3. told \subseteq Host /\ \A g \in FlowId : answer[g] \subseteq Host
    BY DEF TypeOK
  <2>. QED
    BY <2>1, <2>2, <2>3 DEF SnoopInv, SnoopBeforeDelivery
<1>5. [Next]_vars => \/ UNCHANGED relayVars \/ \E h \in Host : Expire(h)
                     \/ \E f \in FlowId : Snoop(f) \/ Deliver(f)
  BY Zenon DEF Next, Settle, Accept, Open, Dial, DialFails, DialProxy, ProxyAnswers,
         ProxyFails,
         RelayEnds, SendFails, ProxyFallsSilent, vars
<1>. QED
  BY <1>1, <1>2, <1>3, <1>4, <1>5

-----------------------------------------------------------------------------
(* The flows that are at one of the places ls. *)
Count(p, ls) == Cardinality({g \in FlowId : p[g] \in ls})

In(l, ls) == IF l \in ls THEN 1 ELSE 0

(* Task f moves to l, ... *)
Moves(p, q, f, l) == q[f] = l /\ \A g \in FlowId : g # f => q[g] = p[g]

(* ... and the count of the places ls goes along. *)
Shift(p, q, f, l, ls) ==
  /\ Count(p, ls) \in Nat /\ Count(q, ls) \in Nat
  /\ In(p[f], ls) \in Nat /\ In(l, ls) \in Nat
  /\ Count(q, ls) + In(p[f], ls) = Count(p, ls) + In(l, ls)

(* A task that moves is counted at its new place, and no longer at its old *)
(* one.                                                                    *)
LEMMA CountMove ==
  ASSUME NEW p, NEW q, NEW f \in FlowId, NEW l, NEW ls, Moves(p, q, f, l)
  PROVE  Shift(p, q, f, l, ls)
<1>. DEFINE rest == {g \in FlowId \ {f} : p[g] \in ls}
            here == {g \in FlowId : p[g] \in ls}
            there == {g \in FlowId : q[g] \in ls}
<1>1. IsFiniteSet(rest) /\ Cardinality(rest) \in Nat
  BY NetstackAssumption, FS_Subset, FS_CardinalityType, Zenon
<1>2. /\ f \notin rest
      /\ here = IF p[f] \in ls THEN rest \cup {f} ELSE rest
      /\ there = IF l \in ls THEN rest \cup {f} ELSE rest
  BY DEF Moves
<1>. HIDE DEF rest, here, there
<1>3. Cardinality(rest \cup {f}) = Cardinality(rest) + 1
  BY <1>1, <1>2, FS_AddElement, Zenon
<1>4. Cardinality(here) = Cardinality(rest) + In(p[f], ls)
  BY <1>1, <1>2, <1>3 DEF In
<1>5. Cardinality(there) = Cardinality(rest) + In(l, ls)
  BY <1>1, <1>2, <1>3 DEF In
<1>6. In(p[f], ls) \in Nat /\ In(l, ls) \in Nat
  BY DEF In
<1>7. Count(p, ls) = Cardinality(here) /\ Count(q, ls) = Cardinality(there)
  BY DEF Count, here, there
<1>. QED
  BY <1>1, <1>4, <1>5, <1>6, <1>7 DEF Shift

(* The places the three equations of FlowsCounted count. *)
Counted(p, s) ==
  /\ s["tcp_flows"] + s["udp_flows"] = Cardinality(FlowId) - Count(p, {"none"})
  /\ s["blocked"] + s["quic_dropped"] + s["group_dropped"] = Count(p, {"blocked", "failclosed"})
  /\ s["proxy_fallbacks"] = Count(p, {"failclosed"})

(* The counters change as a move of a task asks for. *)
Balance(p, f, l, s, t) ==
  /\ t["tcp_flows"] + t["udp_flows"] + In(l, {"none"})
       = s["tcp_flows"] + s["udp_flows"] + In(p[f], {"none"})
  /\ t["blocked"] + t["quic_dropped"] + t["group_dropped"] + In(p[f], {"blocked", "failclosed"})
       = s["blocked"] + s["quic_dropped"] + s["group_dropped"] + In(l, {"blocked", "failclosed"})
  /\ t["proxy_fallbacks"] + In(p[f], {"failclosed"})
       = s["proxy_fallbacks"] + In(l, {"failclosed"})

(* What the counters say after a move of one task. *)
LEMMA CountedMove ==
  ASSUME NEW p, NEW q, NEW f \in FlowId, NEW l,
         NEW s \in [Counters -> Nat], NEW t \in [Counters -> Nat],
         Moves(p, q, f, l), Counted(p, s), Balance(p, f, l, s, t)
  PROVE  Counted(q, t)
<1>1. \A ls : Shift(p, q, f, l, ls)
  BY CountMove, Zenon
<1>2. Cardinality(FlowId) \in Nat
  BY NetstackAssumption, FS_CardinalityType
<1>3. \A k \in Counters : s[k] \in Nat /\ t[k] \in Nat
  OBVIOUS
<1>4. t["tcp_flows"] + t["udp_flows"] = Cardinality(FlowId) - Count(q, {"none"})
  <2>. DEFINE ls == {"none"}
  <2>1. /\ Count(p, ls) \in Nat
        /\ Count(q, ls) \in Nat
        /\ In(p[f], ls) \in Nat /\ In(l, ls) \in Nat
        /\ Count(q, ls) + In(p[f], ls) = Count(p, ls) + In(l, ls)
    BY <1>1 DEF Shift
  <2>2. /\ s["tcp_flows"] + s["udp_flows"] = Cardinality(FlowId) - Count(p, ls)
        /\ t["tcp_flows"] + t["udp_flows"] + In(l, ls) = s["tcp_flows"] + s["udp_flows"] + In(p[f], ls)
    BY DEF Counted, Balance
  <2>3. /\ s["tcp_flows"] \in Nat /\ s["udp_flows"] \in Nat
        /\ t["tcp_flows"] \in Nat /\ t["udp_flows"] \in Nat
    BY <1>3 DEF Counters
  <2>. HIDE DEF ls
  <2>4. t["tcp_flows"] + t["udp_flows"] = Cardinality(FlowId) - Count(q, ls)
    BY <1>2, <2>1, <2>2, <2>3
  <2>. QED
    BY <2>4 DEF ls
<1>5. t["blocked"] + t["quic_dropped"] + t["group_dropped"] = Count(q, {"blocked", "failclosed"})
  <2>. DEFINE ls == {"blocked", "failclosed"}
  <2>1. /\ Count(p, ls) \in Nat
        /\ Count(q, ls) \in Nat
        /\ In(p[f], ls) \in Nat /\ In(l, ls) \in Nat
        /\ Count(q, ls) + In(p[f], ls) = Count(p, ls) + In(l, ls)
    BY <1>1 DEF Shift
  <2>2. /\ s["blocked"] + s["quic_dropped"] + s["group_dropped"] = Count(p, ls)
        /\ t["blocked"] + t["quic_dropped"] + t["group_dropped"] + In(p[f], ls)
             = s["blocked"] + s["quic_dropped"] + s["group_dropped"] + In(l, ls)
    BY DEF Counted, Balance
  <2>3. t["blocked"] \in Nat /\ t["quic_dropped"] \in Nat /\ t["group_dropped"] \in Nat
    BY <1>3 DEF Counters
  <2>. HIDE DEF ls
  <2>4. t["blocked"] + t["quic_dropped"] + t["group_dropped"] = Count(q, ls)
    BY <2>1, <2>2, <2>3
  <2>. QED
    BY <2>4 DEF ls
<1>6. t["proxy_fallbacks"] = Count(q, {"failclosed"})
  <2>. DEFINE ls == {"failclosed"}
  <2>1. /\ Count(p, ls) \in Nat
        /\ Count(q, ls) \in Nat
        /\ In(p[f], ls) \in Nat /\ In(l, ls) \in Nat
        /\ Count(q, ls) + In(p[f], ls) = Count(p, ls) + In(l, ls)
    BY <1>1 DEF Shift
  <2>2. /\ s["proxy_fallbacks"] = Count(p, ls)
        /\ t["proxy_fallbacks"] + In(p[f], ls) = s["proxy_fallbacks"] + In(l, ls)
    BY DEF Counted, Balance
  <2>3. t["proxy_fallbacks"] \in Nat
    BY <1>3 DEF Counters
  <2>. HIDE DEF ls
  <2>4. t["proxy_fallbacks"] = Count(q, ls)
    BY <2>1, <2>2, <2>3
  <2>. QED
    BY <2>4 DEF ls
<1>. QED
  BY <1>4, <1>5, <1>6 DEF Counted

(* The counter that goes up, and the ones that do not. *)
LEMMA PlusAt ==
  ASSUME NEW s \in [Counters -> Nat], NEW k \in Counters
  PROVE  \A j \in Counters : s[j] \in Nat /\ Plus(s, k)[j] = IF j = k THEN s[j] + 1 ELSE s[j]
BY DEF Plus

(* Moves that no counter counts. *)
LEMMA FreeMove ==
  ASSUME NEW p, NEW q, NEW f \in FlowId, NEW l, NEW s \in [Counters -> Nat],
         Moves(p, q, f, l), Counted(p, s),
         p[f] \notin {"none", "blocked", "failclosed"}, l \notin {"none", "blocked", "failclosed"}
  PROVE  Counted(q, s)
<1>1. Balance(p, f, l, s, s)
  BY DEF Balance, In
<1>. QED
  BY <1>1, CountedMove

(* A flow that comes in. *)
LEMMA EnterMove ==
  ASSUME NEW p, NEW q, NEW f \in FlowId, NEW udp \in BOOLEAN, NEW s \in [Counters -> Nat],
         Moves(p, q, f, "accepted"), Counted(p, s), p[f] = "none"
  PROVE  Counted(q, Plus(s, FlowCounter(udp)))
<1>. DEFINE t == Plus(s, FlowCounter(udp))
<1>1. FlowCounter(udp) \in {"udp_flows", "tcp_flows"} /\ FlowCounter(udp) \in Counters
  BY DEF FlowCounter, Counters
<1>2. t \in [Counters -> Nat]
  BY <1>1, PlusType
<1>3. \A j \in Counters : s[j] \in Nat /\ t[j] = IF j = FlowCounter(udp) THEN s[j] + 1 ELSE s[j]
  BY <1>1, PlusAt
<1>. HIDE DEF t
<1>4. /\ t["tcp_flows"] + t["udp_flows"] = s["tcp_flows"] + s["udp_flows"] + 1
      /\ t["blocked"] = s["blocked"] /\ t["quic_dropped"] = s["quic_dropped"]
      /\ t["group_dropped"] = s["group_dropped"] /\ t["proxy_fallbacks"] = s["proxy_fallbacks"]
  <2>1. /\ s["tcp_flows"] \in Nat /\ s["udp_flows"] \in Nat
        /\ \/ t["tcp_flows"] = s["tcp_flows"] + 1 /\ t["udp_flows"] = s["udp_flows"]
           \/ t["udp_flows"] = s["udp_flows"] + 1 /\ t["tcp_flows"] = s["tcp_flows"]
    BY <1>1, <1>3 DEF Counters
  <2>2. t["tcp_flows"] + t["udp_flows"] = s["tcp_flows"] + s["udp_flows"] + 1
    BY <2>1
  <2>3. /\ t["blocked"] = s["blocked"] /\ t["quic_dropped"] = s["quic_dropped"]
        /\ t["group_dropped"] = s["group_dropped"] /\ t["proxy_fallbacks"] = s["proxy_fallbacks"]
    BY <1>1, <1>3 DEF Counters
  <2>. QED
    BY <2>2, <2>3
<1>5. t["tcp_flows"] \in Nat /\ t["udp_flows"] \in Nat
  BY <1>2 DEF Counters
<1>6. Balance(p, f, "accepted", s, t)
  BY <1>4, <1>5 DEF Balance, In
<1>7. Counted(q, t)
  BY <1>2, <1>6, CountedMove
<1>. QED
  BY <1>7 DEF t

(* Every flow that comes in is counted, and every flow that is dropped is  *)
(* counted by one counter.                                                 *)
LEMMA CountedStep ==
  ASSUME TypeOK, TypeOK', ShapeInv, FlowsCounted, [Next]_vars PROVE FlowsCounted'
<1>a. Counted(pc, stats)
  BY DEF FlowsCounted, Counted, At, Count
<1>b. Counted(pc', stats') => FlowsCounted'
  BY DEF FlowsCounted, Counted, At, Count
<1>c. stats \in [Counters -> Nat] /\ stats' \in [Counters -> Nat]
  BY DEF TypeOK
<1>d. ASSUME NEW f \in FlowId, NEW l, Goto(f, l) PROVE Moves(pc, pc', f, l)
  BY <1>d DEF Goto, Moves, TypeOK
<1>. SUFFICES Counted(pc', stats')
  BY <1>b
<1>1. ASSUME NEW f \in FlowId, NEW w \in Offered, Accept(f, w) PROVE Counted(pc', stats')
  <2>1. w.udp \in BOOLEAN
    BY NetstackAssumption DEF FlowFacts
  <2>2. /\ pc[f] = "none" /\ Moves(pc, pc', f, "accepted")
        /\ stats' = Plus(stats, FlowCounter(w.udp))
    BY <1>1, <1>d DEF Accept
  <2>. QED
    BY <1>a, <1>c, <2>1, <2>2, EnterMove
<1>2. ASSUME NEW f \in FlowId, Open(f) PROVE Counted(pc', stats')
  <2>1. pc[f] = "accepted"
    BY <1>2, Zenon DEF Open
  <2>2. \/ UNCHANGED stats /\ \E l \in {"proxy", "dial"} : Goto(f, l)
        \/ Goto(f, "blocked") /\ \E c : stats' = Plus(stats, DropCounter(c))
    BY <1>2, Zenon DEF Open
  <2>3. ASSUME NEW l \in {"proxy", "dial"}, Goto(f, l), UNCHANGED stats PROVE Counted(pc', stats')
    <3>1. Moves(pc, pc', f, l)
      BY <1>d, <2>3
    <3>. QED
      BY <1>a, <1>c, <2>1, <2>3, <3>1, FreeMove
  <2>4. ASSUME NEW c, Goto(f, "blocked"), stats' = Plus(stats, DropCounter(c))
        PROVE  Counted(pc', stats')
    <3>. DEFINE k == DropCounter(c)
    <3>1. k \in {"blocked", "quic_dropped", "group_dropped"} /\ k \in Counters
      BY DEF DropCounter, Counters
    <3>2. \A j \in Counters : stats[j] \in Nat /\ stats'[j] = IF j = k THEN stats[j] + 1 ELSE stats[j]
      BY <1>c, <2>4, <3>1, PlusAt
    <3>. HIDE DEF k
    <3>3. /\ stats["blocked"] \in Nat /\ stats["quic_dropped"] \in Nat /\ stats["group_dropped"] \in Nat
          /\ \/ /\ stats'["blocked"] = stats["blocked"] + 1
                /\ stats'["quic_dropped"] = stats["quic_dropped"]
                /\ stats'["group_dropped"] = stats["group_dropped"]
             \/ /\ stats'["blocked"] = stats["blocked"]
                /\ stats'["quic_dropped"] = stats["quic_dropped"] + 1
                /\ stats'["group_dropped"] = stats["group_dropped"]
             \/ /\ stats'["blocked"] = stats["blocked"]
                /\ stats'["quic_dropped"] = stats["quic_dropped"]
                /\ stats'["group_dropped"] = stats["group_dropped"] + 1
      BY <3>1, <3>2 DEF Counters
    <3>4. stats'["blocked"] + stats'["quic_dropped"] + stats'["group_dropped"]
            = stats["blocked"] + stats["quic_dropped"] + stats["group_dropped"] + 1
      BY <3>3
    <3>5. /\ stats'["blocked"] + stats'["quic_dropped"] + stats'["group_dropped"] \in Nat
          /\ stats'["blocked"] + stats'["quic_dropped"] + stats'["group_dropped"] + 0
               = stats'["blocked"] + stats'["quic_dropped"] + stats'["group_dropped"]
      BY <3>3
    <3>6. /\ stats'["tcp_flows"] = stats["tcp_flows"] /\ stats'["udp_flows"] = stats["udp_flows"]
          /\ stats'["proxy_fallbacks"] = stats["proxy_fallbacks"]
      BY <3>1, <3>2 DEF Counters
    <3>7. Balance(pc, f, "blocked", stats, stats')
      BY <2>1, <3>4, <3>5, <3>6 DEF Balance, In
    <3>. QED
      BY <1>a, <1>c, <1>d, <2>4, <3>7, CountedMove
  <2>. QED
    BY <2>2, <2>3, <2>4
<1>3. ASSUME NEW f \in FlowId, NEW h, NEW p, NEW udp \in BOOLEAN, NEW pinned,
             NEW l \in {"relay", "handshake"}, pc[f] \in {"dial", "proxy"},
             Connect(f, h, p, udp, pinned, l)
      PROVE  Counted(pc', stats')
  <2>1. CASE pinned \/ h \in Loopback
    <3>1. Moves(pc, pc', f, l) /\ stats' = stats
      BY <1>3, <1>d, <2>1 DEF Connect
    <3>. QED
      BY <1>3, <1>a, <1>c, <3>1, FreeMove
  <2>2. CASE ~ (pinned \/ h \in Loopback)
    <3>1. PICK k \in FlowId : /\ pc[k] = "none"
                             /\ pc' = [pc EXCEPT ![f] = l, ![k] = "accepted"]
                             /\ stats' = Plus(stats, FlowCounter(udp))
      BY <1>3, <2>2 DEF Connect
    <3>. DEFINE via == [pc EXCEPT ![f] = l]
    <3>2. Moves(pc, via, f, l) /\ Moves(via, pc', k, "accepted") /\ via[k] = "none"
      BY <1>3, <3>1 DEF TypeOK, Moves
    <3>. HIDE DEF via
    <3>3. Counted(via, stats)
      BY <1>3, <1>a, <1>c, <3>2, FreeMove
    <3>. QED
      BY <1>c, <3>1, <3>2, <3>3, EnterMove
  <2>. QED
    BY <2>1, <2>2
<1>4. ASSUME NEW f \in FlowId, Dial(f) PROVE Counted(pc', stats')
  <2>1. pc[f] = "dial" /\ flow[f].udp \in BOOLEAN
    BY <1>4 DEF Dial, ShapeInv, FlowFacts
  <2>2. PICK pinned : Connect(f, flow[f].dest, flow[f].port, flow[f].udp, pinned, "relay")
    BY <1>4 DEF Dial
  <2>. QED
    BY <1>3, <2>1, <2>2
<1>5. ASSUME NEW f \in FlowId, DialProxy(f) PROVE Counted(pc', stats')
  BY <1>3, <1>5, Zenon DEF DialProxy
<1>6. ASSUME NEW f \in FlowId, DialFails(f) \/ ProxyAnswers(f) \/ RelayEnds(f) \/ Snoop(f) \/ Deliver(f)
      PROVE  Counted(pc', stats')
  <2>1. PICK l \in {"done", "relay", "deliver"} : Goto(f, l)
    BY <1>6 DEF DialFails, ProxyAnswers, RelayEnds, Snoop, Deliver
  <2>2. pc[f] \in {"dial", "handshake", "relay", "deliver"} /\ stats' = stats
    BY <1>6, Zenon DEF DialFails, ProxyAnswers, RelayEnds, Snoop, Deliver
  <2>3. Moves(pc, pc', f, l)
    BY <1>d, <2>1
  <2>. QED
    BY <1>a, <1>c, <2>2, <2>3, FreeMove
<1>7. ASSUME NEW f \in FlowId, ProxyFails(f) PROVE Counted(pc', stats')
  <2>1. /\ pc[f] \in {"proxy", "handshake"} /\ Moves(pc, pc', f, "failclosed")
        /\ stats' = Plus(Plus(stats, "proxy_fallbacks"), "blocked")
    BY <1>7, <1>d DEF ProxyFails
  <2>2. /\ stats'["tcp_flows"] = stats["tcp_flows"] /\ stats'["udp_flows"] = stats["udp_flows"]
        /\ stats'["blocked"] = stats["blocked"] + 1
        /\ stats'["quic_dropped"] = stats["quic_dropped"]
        /\ stats'["group_dropped"] = stats["group_dropped"]
        /\ stats'["proxy_fallbacks"] = stats["proxy_fallbacks"] + 1
    BY <1>c, <2>1 DEF Plus, Counters
  <2>3. \A j \in Counters : stats[j] \in Nat
    BY <1>c
  <2>4. Balance(pc, f, "failclosed", stats, stats')
    BY <2>1, <2>2, <2>3 DEF Balance, In, Counters
  <2>. QED
    BY <1>a, <1>c, <2>1, <2>4, CountedMove
<1>8. ASSUME NEW f \in FlowId, SendFails(f) PROVE Counted(pc', stats')
  <2>1. pc' = pc /\ stats' = Plus(stats, "udp_send_errors")
    BY <1>8 DEF SendFails
  <2>2. \A j \in Counters : j # "udp_send_errors" => stats'[j] = stats[j]
    BY <1>c, <2>1, PlusAt DEF Counters
  <2>. QED
    BY <1>a, <2>1, <2>2 DEF Counted, Counters
<1>9. CASE (\E h \in Host : Expire(h)) \/ ProxyFallsSilent \/ UNCHANGED vars
  BY <1>9, <1>a DEF Expire, ProxyFallsSilent, vars
<1>. QED
  BY <1>1, <1>2, <1>4, <1>5, <1>6, <1>7, <1>8, <1>9 DEF Next, Settle

-----------------------------------------------------------------------------
(* Before the first flow. *)
LEMMA Start ==
  ASSUME Init
  PROVE  /\ TypeOK /\ ShapeInv /\ QuicInv /\ LoopInv /\ NoRoutingLoop
         /\ FailClosed /\ SnoopInv /\ FlowsCounted
<1>1. TypeOK
  BY DEF Init, TypeOK
<1>2. /\ \A f \in FlowId : pc[f] = "none" /\ parent[f] = NoFlow /\ answer[f] = {}
      /\ sockets = {} /\ told = {}
  BY DEF Init
<1>3. ShapeInv /\ QuicInv /\ LoopInv /\ NoRoutingLoop /\ FailClosed /\ SnoopInv
  BY <1>2, Zenon DEF ShapeInv, Past, QuicInv, Passed, QuicStaysIn, LoopInv,
         NoRoutingLoop, FailClosed,
              SnoopInv, SnoopBeforeDelivery
<1>4. FlowsCounted
  <2>1. /\ {f \in FlowId : pc[f] \in {"none"}} = FlowId
        /\ {f \in FlowId : pc[f] \in {"blocked", "failclosed"}} = {}
        /\ {f \in FlowId : pc[f] \in {"failclosed"}} = {}
    BY <1>2
  <2>2. At({"none"}) = Cardinality(FlowId) /\ At({"blocked", "failclosed"}) = 0 /\ At({"failclosed"}) = 0
    BY <2>1, FS_EmptySet DEF At
  <2>3. \A k \in Counters : stats[k] = 0
    BY DEF Init
  <2>4. Cardinality(FlowId) \in Nat
    BY NetstackAssumption, FS_CardinalityType
  <2>. QED
    BY <2>2, <2>3, <2>4 DEF FlowsCounted, Counters
<1>. QED
  BY <1>1, <1>3, <1>4

(* QUIC is dropped under the Drop policy, whichever process owns it and    *)
(* whatever goes wrong in attribution, pinning and the proxy (decide).     *)
THEOREM QuicIsKept == Spec => []QuicStaysIn
<1>1. Init => QuicInv
  BY Start
<1>2. TypeOK /\ ShapeInv /\ QuicInv /\ [Next]_vars => QuicInv'
  BY QuicStep
<1>3. QuicInv => QuicStaysIn
  BY DEF QuicInv, QuicStaysIn
<1>. QED
  BY <1>1, <1>2, <1>3, FlowsTyped, PTL DEF Spec

(* The loop guard of decide: as long as owners are found and sockets can   *)
(* be pinned, an outbound socket comes back at most once.                  *)
THEOREM LoopGuard ==
  ASSUME "attribution" \notin Faults, "pin" \notin Faults
  PROVE  Spec => []NoRoutingLoop
<1>1. Init => LoopInv /\ NoRoutingLoop
  BY Start
<1>2. TypeOK /\ ShapeInv /\ LoopInv /\ NoRoutingLoop /\ [Next]_vars => (LoopInv /\ NoRoutingLoop)'
  BY LoopStep, NoLoopStep
<1>. QED
  BY <1>1, <1>2, FlowsTyped, PTL DEF Spec

(* fail_closed: as long as owners are found, nothing of a TCP flow that a  *)
(* rule sends to a proxy goes anywhere else, pinned or not, whether the    *)
(* proxy answers or not.                                                   *)
THEOREM ProxiedOnly ==
  ASSUME "attribution" \notin Faults
  PROVE  Spec => []FailClosed
<1>1. Init => LoopInv /\ FailClosed
  BY Start
<1>2. TypeOK /\ ShapeInv /\ LoopInv /\ FailClosed /\ [Next]_vars => (LoopInv /\ FailClosed)'
  BY LoopStep, ClosedStep
<1>. QED
  BY <1>1, <1>2, FlowsTyped, PTL DEF Spec

(* handle_udp stores the names of an answer before it passes it on.        *)
THEOREM NamesComeFirst == Spec => []SnoopBeforeDelivery
<1>1. Init => SnoopInv
  BY Start
<1>2. TypeOK /\ SnoopInv /\ [Next]_vars => SnoopInv'
  BY SnoopStep
<1>3. SnoopInv => SnoopBeforeDelivery
  BY DEF SnoopInv
<1>. QED
  BY <1>1, <1>2, <1>3, FlowsTyped, PTL DEF Spec

(* The counters of Shared::stats agree with the flows, for any number of   *)
(* them: each counted when it comes in, and once when it is dropped.       *)
THEOREM CountersAddUp == Spec => []FlowsCounted
<1>1. Init => FlowsCounted
  BY Start
<1>2. TypeOK /\ TypeOK' /\ ShapeInv /\ FlowsCounted /\ [Next]_vars => FlowsCounted'
  BY CountedStep
<1>. QED
  BY <1>1, <1>2, FlowsTyped, PTL DEF Spec
=============================================================================
