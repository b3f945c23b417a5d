CONSTANTS
  app = app
  tool = tool
  Self = engine
  Nameless = unknown
  Process = {app, tool, engine, unknown}
  lo4 = lo4
  h4 = h4
  h6 = h6
  mc4 = mc4
  Host = {lo4, h4, h6, mc4}
  Loopback = {lo4}
  Groups = {mc4}
  Hosts6 = {h6}
  Port = {53, 80, 443, 8080}
  QuicPort = 443
  DnsPort = 53
  ProxyPort = 8080
  d1 = d1
  d2 = d2
  Domain = {d1, d2}
  Config = {0, 1, 2}
  All = All
  Absent = Absent
  FlowId = {f1, f2, f3}
  NoFlow = NoFlow
  Rules <- ProxyRules
  Configs <- RemoteProxy
  Offered <- MixedFlows
  Answers <- OneAnswer
  LocalhostViaProxy = TRUE
  QuicDrop = TRUE
  Faults = {"attribution", "pin", "send", "silent"}
SPECIFICATION FairSpec
INVARIANTS QuicStaysIn FlowsCounted
CHECK_DEADLOCK FALSE
PROPERTY FlowsSettle
