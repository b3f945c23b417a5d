------------------------------- MODULE RuleSet -------------------------------
(***************************************************************************)
(* Compiled rules and what they match (rule.rs).                           *)
(*                                                                         *)
(* A list of patterns is the set of the values that some pattern of it     *)
(* matches (AddressPatterns says which those are); a list that is_match_all*)
(* recognises is All, which is not the same thing: `*;10.0.0.1` matches    *)
(* every host, but is a filter all the same.                               *)
(***************************************************************************)
EXTENDS Naturals, Sequences

CONSTANTS
  Process,  \* executable names without `.exe`, the empty one included
  Host,     \* destination addresses
  Port,     \* destination ports
  Domain,   \* host names
  Config,   \* proxy configuration ids
  All,      \* a list for which is_match_all holds
  Absent    \* Option::None

ASSUME MarkerAssumption ==
  /\ Absent \notin Domain \cup {All}
  /\ 0 \in Config

Action   == {"Proxy", "Direct", "Block"}
Protocol == {"Tcp", "Udp", "Both"}

CompiledRule ==
  [process  : {All} \cup SUBSET Process,
   hosts    : {All} \cup SUBSET Host,
   ports    : {All} \cup SUBSET Port,
   domains  : {All} \cup SUBSET Domain,
   except   : {All, Absent} \cup SUBSET Host,
   protocol : Protocol,
   action   : Action,
   config   : Config]

RuleMatch == [action : Action, config : Config]

(* What evaluate is told of a connection. *)
Facts ==
  [process : Process, dest : Host, port : Port, udp : BOOLEAN,
   domain : Domain \cup {Absent}]

ProtocolMatches(p, udp) == p = "Both" \/ (p = "Udp" /\ udp) \/ (p = "Tcp" /\ ~ udp)

(* match_ip_list, match_port_list and the process list: a list matches. *)
Passes(list, x) == list = All \/ x \in list

(* matches_target: the host, port and domain filters are conjoined, and a  *)
(* destination on the except list is out.  Without a name, a domain filter *)
(* does not match.                                                         *)
MatchesTarget(r, c) ==
  /\ ~ (r.except # Absent /\ Passes(r.except, c.dest))
  /\ Passes(r.hosts, c.dest)
  /\ Passes(r.ports, c.port)
  /\ r.domains = All \/ (c.domain # Absent /\ c.domain \in r.domains)

(* A rule that applies to all processes is filtered if anything narrows    *)
(* its targets; the protocol does not count.                               *)
Filtered(r) ==
  r.hosts # All \/ r.ports # All \/ r.domains # All \/ r.except # Absent

AsMatch(r) == [action |-> r.action, config |-> r.config]

DefaultMatch == [action |-> "Direct", config |-> 0]

(* Mutant: only rules for all processes are looked at. *)
HasDomainRulesForAll(rules) ==
  \E i \in DOMAIN rules : rules[i].process = All /\ rules[i].domains # All

(* RuleSet::new and needs_domain_resolution. *)
HasDomainRules(rules) == \E i \in DOMAIN rules : rules[i].domains # All

-----------------------------------------------------------------------------
(* The meaning of a rule list (rule.rs:8-14): the first specific rule that *)
(* applies, or else the first full wildcard that applies, or else Direct.  *)
FullWildcard(r) == r.process = All /\ ~ Filtered(r)

Applies(r, c) ==
  /\ ProtocolMatches(r.protocol, c.udp)
  /\ Passes(r.process, c.process)
  /\ MatchesTarget(r, c)

Hits(rules, c)  == {i \in DOMAIN rules : ~ FullWildcard(rules[i]) /\ Applies(rules[i], c)}
Spare(rules, c) == {i \in DOMAIN rules : FullWildcard(rules[i]) /\ Applies(rules[i], c)}

First(s) == CHOOSE i \in s : \A j \in s : i <= j

Outcome(rules, c) ==
  IF Hits(rules, c) # {} THEN AsMatch(rules[First(Hits(rules, c))])
  ELSE IF Spare(rules, c) # {} THEN AsMatch(rules[First(Spare(rules, c))])
  ELSE DefaultMatch
=============================================================================
