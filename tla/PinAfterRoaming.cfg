CONSTANTS
  Platform = "linux"
  Ipv6 = FALSE
  Gen = {g1, g2}
  Nic = {n1, n2}
  n1 = n1
  None = None
  Admin = Admin
  NoGen = NoGen
  Caller = {c1}
  AdminRoutes <- NoAdminRoutes
  Faults = {"nic"}
SPECIFICATION Spec
INVARIANT PinIsCurrent
CHECK_DEADLOCK FALSE
