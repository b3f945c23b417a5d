CONSTANTS
  Platform = "linux"
  Ipv6 = FALSE
  Gen = {g1, g2}
  Nic = {n1, n2}
  n1 = n1
  None = None
  Admin = Admin
  NoGen = NoGen
  Caller = {c1}
  AdminRoutes <- NoAdminRoutes
  Faults = {"kill", "nic"}
SPECIFICATION Spec
INVARIANT StopRemovesGroupRoutes
CHECK_DEADLOCK FALSE
