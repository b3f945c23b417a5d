CONSTANTS
  Process = {p1, p2}
  Host = {h1, h2}
  Port = {443}
  Domain = {d1}
  Config = {0}
  All = All
  Absent = Absent
  p1 = p1
  h1 = h1
  d1 = d1
  RuleLists <- MCRuleLists
  Connections <- MCConnections
SPECIFICATION LoopSpec
INVARIANTS EvaluateCorrect LookupGateSound
CHECK_DEADLOCK FALSE
