--------------------------- MODULE FlowSetupProofs ---------------------------
(***************************************************************************)
(* Proofs about the two loops a flow goes through when it is set up: the   *)
(* choice of its rule (Evaluate) and the negotiation of its tunnel with    *)
(* the proxy (ProxyHandshake).  The two are independent.                   *)
(***************************************************************************)
EXTENDS Evaluate, ProxyHandshake, TLAPS

-----------------------------------------------------------------------------
(* RULES.  evaluate computes Outcome, for every rule list and connection.  *)
(*                                                                         *)
(* The loop invariant: no rule before i is a specific rule that applies,   *)
(* and fallback is the first full wildcard before i that applies, if any.  *)

Seen == {j \in DOMAIN rules : j < i}

LoopInv ==
  /\ result = Absent => Hits(rules, conn) \cap Seen = {}
  /\ result = Absent /\ fallback = 0 => Spare(rules, conn) \cap Seen = {}
  /\ result = Absent /\ fallback # 0 =>
       /\ fallback \in Spare(rules, conn)
       /\ \A j \in Spare(rules, conn) : fallback <= j
  /\ EvaluateCorrect

EvaluateInv == LoopTypeOK /\ LoopInv

(* The first of a set of indices is the one below all others. *)
LEMMA FirstIs ==
  ASSUME NEW s \in SUBSET Nat, NEW k \in s, \A j \in s : k <= j
  PROVE  First(s) = k
<1>1. \A m \in s : (\A j \in s : m <= j) => m = k
  OBVIOUS
<1>. QED
  BY <1>1, Zenon DEF First

(* A rule that its own branch of the loop decides is a hit if it matches.  *)
LEMMA RuleCases ==
  ASSUME NEW r \in CompiledRule, NEW c \in Facts
  PROVE  /\ ~ ProtocolMatches(r.protocol, c.udp) => ~ Applies(r, c)
         /\ FullWildcard(r) /\ ProtocolMatches(r.protocol, c.udp) => Applies(r, c)
         /\ r.process = All /\ Filtered(r) =>
              /\ ~ FullWildcard(r)
              /\ Applies(r, c) <=> ProtocolMatches(r.protocol, c.udp) /\ MatchesTarget(r, c)
         /\ r.process # All =>
              /\ ~ FullWildcard(r)
              /\ Applies(r, c) <=> /\ ProtocolMatches(r.protocol, c.udp)
                                   /\ c.process \in r.process
                                   /\ MatchesTarget(r, c)
BY DEF Applies, FullWildcard, Filtered, Passes, MatchesTarget

(* A hit with no hit before it decides the outcome. *)
LEMMA HitDecides ==
  ASSUME NEW rs \in Seq(CompiledRule), NEW c, NEW k \in Hits(rs, c),
         \A j \in Hits(rs, c) : k <= j
  PROVE  Outcome(rs, c) = AsMatch(rs[k])
<1>1. Hits(rs, c) \in SUBSET Nat
  BY DEF Hits
<1>2. First(Hits(rs, c)) = k
  BY <1>1, FirstIs
<1>. QED
  BY <1>2 DEF Outcome

(* Without hits, the first full wildcard that applies does. *)
LEMMA SpareDecides ==
  ASSUME NEW rs \in Seq(CompiledRule), NEW c, Hits(rs, c) = {}
  PROVE  /\ Spare(rs, c) = {} => Outcome(rs, c) = DefaultMatch
         /\ \A k \in Spare(rs, c) :
              (\A j \in Spare(rs, c) : k <= j) => Outcome(rs, c) = AsMatch(rs[k])
<1>1. Spare(rs, c) \in SUBSET Nat
  BY DEF Spare
<1>2. ASSUME NEW k \in Spare(rs, c), \A j \in Spare(rs, c) : k <= j
      PROVE  First(Spare(rs, c)) = k
  BY <1>1, <1>2, FirstIs
<1>. QED
  BY <1>2 DEF Outcome

(* What evaluate returns is a RuleMatch: of a rule, or the default. *)
LEMMA MatchType ==
  /\ \A r \in CompiledRule : AsMatch(r) \in RuleMatch
  /\ DefaultMatch \in RuleMatch
BY MarkerAssumption DEF AsMatch, DefaultMatch, RuleMatch, CompiledRule, Action

(* Before the first rule nothing has been seen, and no fallback is held. *)
LEMMA EvaluateInit == LoopInit => EvaluateInv
<1>. SUFFICES ASSUME LoopInit PROVE EvaluateInv
  OBVIOUS
<1>1. rules \in Seq(CompiledRule) /\ conn \in Facts
  BY InputAssumption DEF LoopInit
<1>2. Seen = {}
  BY <1>1 DEF Seen, LoopInit
<1>. QED
  BY <1>1, <1>2 DEF EvaluateInv, LoopTypeOK, LoopInv, EvaluateCorrect, LoopInit

(* Every iteration of evaluate's loop keeps the loop invariant. *)
LEMMA EvaluateStep == EvaluateInv /\ [LoopNext]_loopVars => EvaluateInv'
<1>. SUFFICES ASSUME EvaluateInv, [LoopNext]_loopVars PROVE EvaluateInv'
  OBVIOUS
<1>. USE DEF EvaluateInv, LoopTypeOK
<1>1. CASE UNCHANGED loopVars
  BY <1>1 DEF loopVars, LoopInv, EvaluateCorrect, Seen
<1>2. ASSUME LoopNext PROVE UNCHANGED <<rules, conn>>
  BY <1>2 DEF LoopNext, SkipProtocol, FilteredRule, Hold, ProcessRule, EndOfRules
<1>3. ASSUME LoopNext, Looping
      PROVE  /\ Rule \in CompiledRule /\ i \in DOMAIN rules
             /\ i + 1 \in 1..(Len(rules) + 1)
             /\ \A j \in DOMAIN rules : j < i + 1 <=> j < i \/ j = i
  BY <1>3 DEF Looping, Rule
(* A step that goes on without a hit keeps the invariant. *)
<1>4. ASSUME LoopNext, Looping, Continue, i \notin Hits(rules, conn),
             \/ fallback' = fallback /\ i \notin Spare(rules, conn)
             \/ fallback' = fallback /\ fallback # 0
             \/ fallback' = i /\ fallback = 0 /\ i \in Spare(rules, conn)
      PROVE  EvaluateInv'
  <2>1. result' = Absent /\ i' = i + 1 /\ result = Absent
    BY <1>4 DEF Continue, Looping
  <2>2. Seen' = Seen \cup {i}
    BY <1>2, <1>3, <1>4, <2>1 DEF Seen
  <2>3. Hits(rules, conn) \cap Seen' = {}
    BY <1>4, <2>1, <2>2 DEF LoopInv
  <2>4. fallback' = 0 => Spare(rules, conn) \cap Seen' = {}
    BY <1>3, <1>4, <2>1, <2>2 DEF LoopInv
  <2>5. \A j \in Spare(rules, conn) : j \in Seen \/ i <= j
    BY <1>3, <1>4 DEF Seen, Spare
  <2>6. ASSUME fallback' # 0
        PROVE  fallback' \in Spare(rules, conn) /\ \A j \in Spare(rules, conn) : fallback' <= j
    <3>1. CASE fallback # 0
      BY <1>3, <1>4, <2>1, <2>6, <3>1 DEF LoopInv
    <3>2. CASE fallback = 0
      BY <1>3, <1>4, <2>1, <2>5, <2>6, <3>2 DEF LoopInv
    <3>. QED
      BY <3>1, <3>2
  <2>7. LoopTypeOK'
    BY <1>2, <1>3, <1>4, <2>1
  <2>. QED
    BY <1>2, <1>4, <2>1, <2>3, <2>4, <2>6, <2>7 DEF LoopInv, EvaluateCorrect
(* A step that returns the current rule has found the first hit. *)
<1>5. ASSUME LoopNext, Looping, Return(AsMatch(Rule)), UNCHANGED fallback, i \in Hits(rules, conn)
      PROVE  EvaluateInv'
  <2>1. \A j \in Hits(rules, conn) : i <= j
    BY <1>3, <1>5 DEF LoopInv, Looping, Seen, Hits
  <2>2. Outcome(rules, conn) = AsMatch(Rule)
    BY <1>5, <2>1, HitDecides DEF Rule
  <2>3. result' = AsMatch(Rule) /\ i' = i /\ result = Absent
    BY <1>5 DEF Return, Looping
  <2>4. LoopTypeOK'
    BY <1>2, <1>3, <1>5, <2>3, MatchType
  <2>5. Seen' = Seen
    BY <1>2, <1>5, <2>3 DEF Seen
  <2>. QED
    BY <1>2, <1>5, <2>2, <2>3, <2>4, <2>5 DEF LoopInv, EvaluateCorrect
<1>6. CASE SkipProtocol
  BY <1>3, <1>4, <1>6, RuleCases DEF LoopNext, SkipProtocol, Hits, Spare, Rule
<1>7. CASE FilteredRule
  <2>1. Looping /\ LoopNext /\ fallback' = fallback /\ Rule.process = All /\ Filtered(Rule)
        /\ ProtocolMatches(Rule.protocol, conn.udp)
    BY <1>7 DEF FilteredRule, LoopNext
  <2>2. i \notin Spare(rules, conn) /\ (i \in Hits(rules, conn) <=> MatchesTarget(Rule, conn))
    BY <1>3, <2>1, RuleCases DEF Hits, Spare, Rule
  <2>3. CASE MatchesTarget(Rule, conn)
    BY <1>5, <1>7, <2>1, <2>2, <2>3 DEF FilteredRule
  <2>4. CASE ~ MatchesTarget(Rule, conn)
    BY <1>4, <1>7, <2>1, <2>2, <2>4 DEF FilteredRule
  <2>. QED
    BY <2>3, <2>4
<1>8. CASE Hold
  <2>1. Looping /\ LoopNext /\ Continue /\ Rule.process = All /\ ~ Filtered(Rule)
        /\ ProtocolMatches(Rule.protocol, conn.udp)
        /\ fallback' = IF fallback = 0 THEN i ELSE fallback
    BY <1>8 DEF Hold, LoopNext
  <2>2. FullWildcard(Rule)
    BY <2>1 DEF FullWildcard
  <2>3. i \notin Hits(rules, conn) /\ i \in Spare(rules, conn)
    BY <1>3, <2>1, <2>2, RuleCases DEF Hits, Spare, Rule
  <2>. QED
    BY <1>4, <2>1, <2>3
<1>9. CASE ProcessRule
  <2>1. Looping /\ LoopNext /\ fallback' = fallback /\ Rule.process # All
        /\ ProtocolMatches(Rule.protocol, conn.udp)
    BY <1>9 DEF ProcessRule, LoopNext
  <2>2. /\ i \notin Spare(rules, conn)
        /\ i \in Hits(rules, conn) <=> conn.process \in Rule.process /\ MatchesTarget(Rule, conn)
    BY <1>3, <2>1, RuleCases DEF Hits, Spare, Rule
  <2>3. CASE conn.process \in Rule.process /\ MatchesTarget(Rule, conn)
    BY <1>5, <1>9, <2>1, <2>2, <2>3 DEF ProcessRule
  <2>4. CASE ~ (conn.process \in Rule.process /\ MatchesTarget(Rule, conn))
    BY <1>4, <1>9, <2>1, <2>2, <2>4 DEF ProcessRule
  <2>. QED
    BY <2>3, <2>4
<1>10. CASE EndOfRules
  <2>1. /\ result = Absent /\ i = Len(rules) + 1 /\ i' = i /\ UNCHANGED <<rules, conn, fallback>>
        /\ result' = IF fallback # 0 THEN AsMatch(rules[fallback]) ELSE DefaultMatch
    BY <1>10 DEF EndOfRules, Return
  <2>2. Seen = DOMAIN rules
    <3>1. \A j \in DOMAIN rules : j < i
      BY <2>1
    <3>. QED
      BY <3>1, Zenon DEF Seen
  <2>3. Hits(rules, conn) = {}
    BY <2>1, <2>2 DEF LoopInv, Hits
  <2>4. result' = Outcome(rules, conn)
    <3>1. CASE fallback # 0
      BY <2>1, <2>3, <3>1, SpareDecides DEF LoopInv
    <3>2. CASE fallback = 0
      <4>1. Spare(rules, conn) = {}
        BY <2>1, <2>2, <3>2 DEF LoopInv, Spare
      <4>. QED
        BY <2>1, <2>3, <3>2, <4>1, SpareDecides
    <3>. QED
      BY <3>1, <3>2
  <2>5. fallback # 0 => rules[fallback] \in CompiledRule
    OBVIOUS
  <2>6. LoopTypeOK'
    BY <2>1, <2>5, MatchType
  <2>7. Seen' = Seen
    BY <2>1 DEF Seen
  <2>. QED
    BY <2>1, <2>4, <2>6, <2>7 DEF LoopInv, EvaluateCorrect
<1>. QED
  BY <1>1, <1>6, <1>7, <1>8, <1>9, <1>10 DEF LoopNext

(* A rule list without domain filters gives every name the same outcome. *)
LEMMA NameIrrelevant ==
  ASSUME NEW rs \in Seq(CompiledRule), NEW c \in Facts, NEW d, ~ HasDomainRules(rs)
  PROVE  Outcome(rs, [c EXCEPT !.domain = d]) = Outcome(rs, c)
<1>. DEFINE e == [c EXCEPT !.domain = d]
<1>1. /\ e.process = c.process /\ e.dest = c.dest /\ e.port = c.port /\ e.udp = c.udp
  BY DEF Facts
<1>2. \A j \in DOMAIN rs : Applies(rs[j], e) <=> Applies(rs[j], c)
  BY <1>1 DEF HasDomainRules, Applies, MatchesTarget
<1>3. Hits(rs, e) = Hits(rs, c) /\ Spare(rs, e) = Spare(rs, c)
  BY <1>2 DEF Hits, Spare
<1>. QED
  BY <1>3 DEF Outcome

(* The two facts the engine relies on. *)
THEOREM EvaluateTypeCorrect == LoopSpec => []LoopTypeOK
<1>1. EvaluateInv => LoopTypeOK
  BY DEF EvaluateInv
<1>. QED
  BY <1>1, EvaluateInit, EvaluateStep, PTL DEF LoopSpec

(* Whatever the rules and the connection, evaluate returns the action of   *)
(* the first specific rule that applies, else of the first full wildcard,  *)
(* else Direct.                                                            *)
THEOREM EvaluateCorrectAlways == LoopSpec => []EvaluateCorrect
<1>1. EvaluateInv => EvaluateCorrect
  BY DEF EvaluateInv, LoopInv
<1>. QED
  BY <1>1, EvaluateInit, EvaluateStep, PTL DEF LoopSpec

(* Whatever the rules, domain_for may skip the lookup when none of them    *)
(* has a domain filter.                                                    *)
THEOREM LookupGateSoundAlways == LoopSpec => []LookupGateSound
<1>1. EvaluateInv => LookupGateSound
  BY NameIrrelevant, Zenon DEF EvaluateInv, LoopTypeOK, LoopInv, EvaluateCorrect,
         LookupGateSound
<1>. QED
  BY <1>1, EvaluateInit, EvaluateStep, PTL DEF LoopSpec

-----------------------------------------------------------------------------
(* TUNNELS.  For every length of a head, of a name and of a piece of data. *)
(* The inductive invariant says, for every place the client waits at, how  *)
(* far the bytes it has read are from the end of the proxy's answer.       *)

(* The question is open, and everything said before has been read. *)
Waiting(question) == asked = question /\ got = said /\ ~ granted

(* The answer is there, and n bytes of it are left. *)
Owed(n) == asked = "nothing" /\ start = got + n

QuietHttp == "http" \notin SpeaksFirst

HttpInv ==
  pc = "head" =>
    /\ cfg.kind = "http"
    /\ \/ Waiting("connect") /\ blank = {} /\ reply.code = "garbled"
       \/ /\ asked = "nothing" /\ (granted <=> reply.code = "ok")
          /\ QuietHttp => said = start /\ blank = {start}

SocksInv ==
  /\ pc \in {"method", "auth", "reply", "length", "drain"} => cfg.kind = "socks5"
  /\ pc = "method" => Waiting("greeting") \/ (Owed(2) /\ said = start /\ ~ granted)
  /\ pc = "auth" => Waiting("userpass") \/ (Owed(2) /\ said = start /\ ~ granted)
  /\ pc = "reply" =>
       \/ Waiting("request")
       \/ /\ Owed(4 + BoundLen(reply))
          /\ granted <=> reply.code = "ok" /\ reply.version = 5
  /\ pc = "length" => reply.atyp = "name" /\ Owed(1 + Drain) /\ granted
  /\ pc = "drain" => reply.atyp \in {"v4", "v6", "name"} /\ Owed(Drain) /\ granted

EndsInv ==
  /\ pc = "connect" => /\ asked = "nothing" /\ said = 0 /\ got = 0
                       /\ ~ granted /\ blank = {} /\ reply.code = "garbled"
  /\ pc = "open" => /\ granted /\ asked = "nothing"
                    /\ QuietHttp \/ cfg.kind = "socks5" => got = start

HandshakeInv == TypeOK /\ HttpInv /\ SocksInv /\ EndsInv
-----------------------------------------------------------------------------
(* What the proxy may say is a Reply, and the address in it has a length. *)
LEMMA ReplyFacts ==
  /\ \A codes \in SUBSET Codes :
       Short(codes) \cup Bound(codes) \cup Named(codes) \subseteq Reply
  /\ \A r \in Reply : /\ BoundLen(r) \in Nat
                       /\ r.atyp \in {"v4", "v6", "name", "other"}
                       /\ r.len \in 0..255
  BY HandshakeAssumption DEF Short, Bound, Named, Codes, Reply, BoundLen

(* The drained part is what BoundLen leaves after the length of a name. *)
LEMMA DrainFacts ==
  ASSUME reply \in Reply, reply.atyp # "other"
  PROVE  /\ Drain \in 0..257
         /\ BoundLen(reply) = IF reply.atyp = "name" THEN 1 + Drain ELSE Drain
  BY ReplyFacts DEF Drain, BoundLen

(* Types: nothing is read that has not arrived, nothing arrives unsent. *)
LEMMA TypeStep == TypeOK /\ SocksInv /\ [Next]_vars => TypeOK'
<1>. SUFFICES ASSUME TypeOK, SocksInv, [Next]_vars PROVE TypeOK'
  OBVIOUS
<1>. USE HandshakeAssumption DEF TypeOK, Reading, proxyVars, Finish, Ask
<1>0. CASE UNCHANGED vars
  BY <1>0 DEF vars
<1>1. CASE Connected
  BY <1>1 DEF Connected
<1>2. CASE ReadHead
  <2>1. MinOf(ReadSize, arrived - got) \in 0..(arrived - got)
    BY <1>2 DEF MinOf, ReadHead
  <2>. QED
    BY <1>2, <2>1 DEF ReadHead
<1>3. CASE ReadMethod
  BY <1>3 DEF ReadMethod, ReadExact, Request, UserPass
<1>4. CASE ReadAuth
  BY <1>4 DEF ReadAuth, ReadExact, Request
<1>5. CASE ReadReply
  BY <1>5 DEF ReadReply, ReadExact
<1>6. CASE ReadLength
  BY <1>6 DEF ReadLength, ReadExact
<1>7. CASE ReadBound
  <2>1. Drain \in Nat
    BY <1>7, DrainFacts DEF ReadBound, ReadExact, SocksInv
  <2>. QED
    BY <1>7, <2>1 DEF ReadBound, ReadExact
<1>8. CASE Eof
  BY <1>8 DEF Eof
<1>9. CASE GiveUp
  BY <1>9 DEF GiveUp
<1>10. CASE Answer
  <2>1. PICK n \in Nat : said' = said + n /\ blank' \in {blank, blank \cup {said + n}}
    <3>1. CASE asked = "connect"
      BY <1>10, <3>1 DEF Answer, Say
    <3>2. CASE asked \in {"greeting", "userpass"}
      BY <1>10, <3>2 DEF Answer, Say
    <3>3. CASE asked = "request"
      <4>1. PICK r \in Bound({"ok", "refused"}) \cup Named({"ok", "refused"}) :
              said' = said + (4 + BoundLen(r)) /\ blank' = blank
        BY <1>10, <3>3 DEF Answer, Say
      <4>2. BoundLen(r) \in Nat
        BY ReplyFacts DEF Codes
      <4>. QED
        BY <4>1, <4>2
    <3>. QED
      BY <1>10, <3>1, <3>2, <3>3 DEF Answer
  <2>2. reply' \in Reply
    BY <1>10, ReplyFacts DEF Answer, Say, Codes
  <2>3. granted' \in BOOLEAN
    BY <1>10, Zenon DEF Answer
  <2>4. blank' \subseteq 0..said'
    BY <2>1
  <2>. QED
    BY <1>10, <2>1, <2>2, <2>3, <2>4 DEF Answer, Say
<1>11. CASE FarEndSpeaks
  BY <1>11 DEF FarEndSpeaks
<1>12. CASE Arrive
  BY <1>12 DEF Arrive
<1>13. CASE Close
  BY <1>13 DEF Close
<1>. QED
  BY <1>0, <1>1, <1>2, <1>3, <1>4, <1>5, <1>6, <1>7, <1>8, <1>9, <1>10, <1>11, <1>12, <1>13
     DEF Next, Client

(* What the proxy and the network do, and the client's end, leave open what *)
(* the client has established.                                             *)
LEMMA ProxyStep ==
  ASSUME HandshakeInv, Answer \/ FarEndSpeaks \/ Arrive \/ Close \/ Eof \/ GiveUp
  PROVE  HttpInv' /\ SocksInv' /\ EndsInv'
<1>. USE HandshakeAssumption
     DEF HandshakeInv, TypeOK, HttpInv, SocksInv, EndsInv, Waiting, Owed, QuietHttp, Reading, proxyVars
<1>1. CASE Answer
  <2>1. CASE asked = "connect"
    BY <1>1, <2>1, Zenon DEF Answer, Say, Short, Settings
  <2>2. CASE asked = "greeting"
    BY <1>1, <2>2 DEF Answer, Say, Short
  <2>3. CASE asked = "userpass"
    BY <1>1, <2>3 DEF Answer, Say, Short
  <2>4. CASE asked = "request"
    <3>1. PICK r \in Bound({"ok", "refused"}) \cup Named({"ok", "refused"}) :
            /\ Say(r, 4 + BoundLen(r)) /\ granted' = (r.code = "ok" /\ r.version = 5)
      BY <1>1, <2>4 DEF Answer
    <3>2. r \in Reply
      BY ReplyFacts DEF Codes
    <3>3. BoundLen(reply') = BoundLen(r) /\ BoundLen(r) \in Nat
      BY <3>1, <3>2, ReplyFacts DEF Say
    <3>. QED
      BY <1>1, <2>4, <3>1, <3>3, Zenon DEF Answer, Say
  <2>. QED
    BY <1>1, <2>1, <2>2, <2>3, <2>4 DEF Answer
<1>2. CASE FarEndSpeaks
  <2>1. Drain' = Drain /\ BoundLen(reply') = BoundLen(reply)
    BY <1>2 DEF FarEndSpeaks, Drain
  <2>2. HttpInv'
    BY <1>2 DEF FarEndSpeaks
  <2>3. SocksInv'
    BY <1>2, <2>1 DEF FarEndSpeaks
  <2>4. EndsInv'
    BY <1>2 DEF FarEndSpeaks
  <2>. QED
    BY <2>2, <2>3, <2>4
<1>3. CASE Arrive
  BY <1>3, Zenon DEF Arrive, Drain, BoundLen
<1>4. CASE Close
  BY <1>4, Zenon DEF Close, Drain, BoundLen
<1>5. CASE Eof
  BY <1>5 DEF Eof, Finish
<1>6. CASE GiveUp
  BY <1>6 DEF GiveUp, Finish
<1>. QED
  BY <1>1, <1>2, <1>3, <1>4, <1>5, <1>6

(* Each of the client's steps reads what it is owed and asks for the next.  *)
LEMMA ClientStep ==
  ASSUME HandshakeInv,
         \/ Connected \/ ReadHead \/ ReadMethod \/ ReadAuth
         \/ ReadReply \/ ReadLength \/ ReadBound
  PROVE  HttpInv' /\ SocksInv' /\ EndsInv'
<1>. USE HandshakeAssumption
     DEF HandshakeInv, TypeOK, HttpInv, SocksInv, EndsInv, Waiting, Owed, QuietHttp, Reading, proxyVars,
         Ask, Finish
<1>1. CASE Connected
  BY <1>1 DEF Connected
<1>2. CASE ReadHead
  BY <1>2 DEF ReadHead, MinOf
<1>3. CASE ReadMethod
  BY <1>3 DEF ReadMethod, ReadExact, Request, UserPass
<1>4. CASE ReadAuth
  BY <1>4 DEF ReadAuth, ReadExact, Request
<1>5. CASE ReadReply
  <2>1. Drain' = Drain
    BY <1>5 DEF ReadReply, ReadExact, Drain
  <2>. QED
    BY <1>5, <2>1, ReplyFacts, DrainFacts DEF ReadReply, ReadExact
<1>6. CASE ReadLength
  <2>1. Drain' = Drain /\ Drain \in Nat
    BY <1>6, DrainFacts DEF ReadLength, ReadExact, Drain
  <2>. QED
    BY <1>6, <2>1 DEF ReadLength, ReadExact
<1>7. CASE ReadBound
  <2>1. Drain \in Nat
    BY <1>7, DrainFacts DEF ReadBound, ReadExact
  <2>. QED
    BY <1>7, <2>1 DEF ReadBound, ReadExact
<1>. QED
  BY <1>1, <1>2, <1>3, <1>4, <1>5, <1>6, <1>7, Zenon

(* The invariant is inductive. *)
THEOREM HandshakeInvariant == Spec => []HandshakeInv
<1>1. Init => HandshakeInv
  <2>. SUFFICES ASSUME Init PROVE HandshakeInv
    OBVIOUS
  <2>1. reply \in Reply
    BY DEF Init, Reply, Bound, Codes
  <2>2. TypeOK
    <3>1. /\ start \in Nat /\ said \in Nat /\ arrived \in 0..said /\ got \in 0..arrived
          /\ pieces \in 0..MaxPieces
      BY HandshakeAssumption DEF Init
    <3>. QED
      BY <2>1, <3>1, Zenon DEF Init, TypeOK
  <2>. QED
    BY <2>2 DEF Init, HandshakeInv, HttpInv, SocksInv, EndsInv
<1>2. HandshakeInv /\ [Next]_vars => HandshakeInv'
  <2>. SUFFICES ASSUME HandshakeInv, [Next]_vars PROVE HandshakeInv'
    OBVIOUS
  <2>1. TypeOK'
    BY TypeStep DEF HandshakeInv
  <2>2. CASE UNCHANGED vars
    BY <2>1, <2>2, Zenon DEF HandshakeInv, HttpInv, SocksInv, EndsInv, Waiting, Owed,
           Drain, BoundLen,
                      vars, proxyVars
  <2>3. CASE Next
    BY <2>1, <2>3, ProxyStep, ClientStep DEF Next, Client, HandshakeInv
  <2>. QED
    BY <2>2, <2>3
<1>. QED
  BY <1>1, <1>2, PTL DEF Spec

(* Positions and phases keep their types for every length of a message     *)
(* (http_connect, socks5_connect).                                         *)
THEOREM TypesHold == Spec => []TypeOK
<1>1. HandshakeInv => TypeOK
  BY DEF HandshakeInv
<1>. QED
  BY <1>1, HandshakeInvariant, PTL

(* No tunnel is handed over that the proxy did not open, however its       *)
(* answer is cut into pieces (http_connect, socks5_connect).               *)
THEOREM TunnelsAreGranted == Spec => []OpenMeansGranted
<1>1. HandshakeInv => OpenMeansGranted
  BY DEF HandshakeInv, EndsInv, OpenMeansGranted
<1>. QED
  BY <1>1, HandshakeInvariant, PTL

(* The scratch buffer of read_socks5_reply is large enough for every reply. *)
THEOREM ScratchSuffices == Spec => []DrainFits
<1>1. HandshakeInv => DrainFits
  BY DrainFacts DEF HandshakeInv, SocksInv, TypeOK, DrainFits, ScratchSize
<1>. QED
  BY <1>1, HandshakeInvariant, PTL

(* The client stops exactly at the end of the negotiation.  An HTTP proxy  *)
(* through which nothing comes before the client has sent is assumed: with *)
(* one that does not wait, http_connect reads into the tunnel.             *)
THEOREM TunnelsAreAligned == ASSUME QuietHttp PROVE Spec => []TunnelAligned
<1>1. HandshakeInv => TunnelAligned
  BY DEF HandshakeInv, EndsInv, TunnelAligned
<1>. QED
  BY <1>1, HandshakeInvariant, PTL
=============================================================================
