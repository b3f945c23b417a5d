CONSTANTS
  Platform = "linux"
  Ipv6 = FALSE
  Gen = {g1, g2}
  Nic = {n1}
  n1 = n1
  None = None
  Admin = Admin
  NoGen = NoGen
  Caller = {c1, c2}
  AdminRoutes <- NoAdminRoutes
  Faults = {}
SPECIFICATION Spec
INVARIANT UpMeansDiverting
CHECK_DEADLOCK FALSE
