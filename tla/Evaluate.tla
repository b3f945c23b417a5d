------------------------------ MODULE Evaluate ------------------------------
(***************************************************************************)
(* RuleSet::evaluate as the loop it is: one step for each rule.  It is to  *)
(* compute Outcome, which is what the rest of the engine relies on.        *)
(***************************************************************************)
EXTENDS RuleSet

CONSTANTS
  RuleLists,   \* the rule lists a program may configure
  Connections  \* the connections they are asked about

ASSUME InputAssumption ==
  /\ RuleLists \subseteq Seq(CompiledRule)
  /\ Connections \subseteq Facts

VARIABLES
  rules, conn,  \* the arguments
  i,            \* the next rule
  fallback,     \* the index of the rule held back, or 0
  result        \* the RuleMatch, or Absent while the loop runs

loopVars == <<rules, conn, i, fallback, result>>

LoopTypeOK ==
  /\ rules \in Seq(CompiledRule)
  /\ conn \in Facts
  /\ i \in 1..(Len(rules) + 1)
  /\ fallback \in 0..Len(rules)
  /\ result \in RuleMatch \cup {Absent}

LoopInit ==
  /\ rules \in RuleLists
  /\ conn \in Connections
  /\ i = 1
  /\ fallback = 0
  /\ result = Absent

Rule == rules[i]
Looping == result = Absent /\ i <= Len(rules)

Continue == i' = i + 1 /\ UNCHANGED result
Return(m) == result' = m /\ UNCHANGED i

SkipProtocol ==
  /\ Looping
  /\ ~ ProtocolMatches(Rule.protocol, conn.udp)
  /\ Continue
  /\ UNCHANGED <<rules, conn, fallback>>

(* All processes, but only some targets. *)
FilteredRule ==
  /\ Looping
  /\ ProtocolMatches(Rule.protocol, conn.udp)
  /\ Rule.process = All /\ Filtered(Rule)
  /\ IF MatchesTarget(Rule, conn) THEN Return(AsMatch(Rule)) ELSE Continue
  /\ UNCHANGED <<rules, conn, fallback>>

(* Mutant: the last full wildcard is held, not the first. *)
HoldLast ==
  /\ Looping
  /\ ProtocolMatches(Rule.protocol, conn.udp)
  /\ Rule.process = All /\ ~ Filtered(Rule)
  /\ fallback' = i
  /\ Continue
  /\ UNCHANGED <<rules, conn>>

Hold ==
  /\ Looping
  /\ ProtocolMatches(Rule.protocol, conn.udp)
  /\ Rule.process = All /\ ~ Filtered(Rule)
  /\ fallback' = IF fallback = 0 THEN i ELSE fallback
  /\ Continue
  /\ UNCHANGED <<rules, conn>>

ProcessRule ==
  /\ Looping
  /\ ProtocolMatches(Rule.protocol, conn.udp)
  /\ Rule.process # All
  /\ IF conn.process \in Rule.process /\ MatchesTarget(Rule, conn)
     THEN Return(AsMatch(Rule)) ELSE Continue
  /\ UNCHANGED <<rules, conn, fallback>>

EndOfRules ==
  /\ result = Absent
  /\ i = Len(rules) + 1
  /\ Return(IF fallback # 0 THEN AsMatch(rules[fallback]) ELSE DefaultMatch)
  /\ UNCHANGED <<rules, conn, fallback>>

LoopNext == SkipProtocol \/ FilteredRule \/ Hold \/ ProcessRule \/ EndOfRules

LoopSpec == LoopInit /\ [][LoopNext]_loopVars

-----------------------------------------------------------------------------
(* evaluate returns what the rule list means (rule.rs:8-14), wherever the  *)
(* full wildcards stand among the specific rules.                          *)
EvaluateCorrect == result # Absent => result = Outcome(rules, conn)

(* domain_for skips the lookup when no rule has a domain filter: the match *)
(* is the one the connection would get under any name.                     *)
LookupGateSound ==
  result # Absent /\ ~ HasDomainRules(rules) =>
    \A d \in Domain \cup {Absent} : result = Outcome(rules, [conn EXCEPT !.domain = d])
=============================================================================
