CONSTANTS
  Platform = "linux"
  Ipv6 = TRUE
  Gen = {g1, g2}
  Nic = {n1}
  n1 = n1
  None = None
  Admin = Admin
  NoGen = NoGen
  Caller = {c1}
  AdminRoutes <- NoAdminRoutes
  Faults = {"probe", "netstack", "drop", "nic"}
SPECIFICATION FairSpec
INVARIANTS UpMeansDiverting MulticastStaysOut
PROPERTY ServiceImplemented
CHECK_DEADLOCK FALSE
