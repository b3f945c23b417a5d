----------------------------- MODULE MCEvaluate -----------------------------
(* Instances of Evaluate for TLC: every list of at most two rules that     *)
(* differ in every field, and of three rules that differ in the fields     *)
(* that decide the order.                                                  *)
EXTENDS Evaluate

CONSTANTS p1, h1, d1

Rules ==
  [process : {All, {p1}}, hosts : {All, {h1}}, ports : {All},
   domains : {All, {d1}}, except : {Absent, {h1}, All},
   protocol : {"Tcp", "Both"}, action : {"Proxy", "Block"}, config : {0}]

OrderRules ==
  {r \in Rules : r.except = Absent /\ r.hosts = All /\ (r.process = All \/ r.domains = All)}

Lists(s, n) == UNION {[1..k -> s] : k \in 0..n}

MCRuleLists == Lists(Rules, 2) \cup Lists(OrderRules, 3)
MCConnections == Facts
=============================================================================
