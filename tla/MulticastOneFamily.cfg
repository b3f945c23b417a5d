CONSTANTS
  Platform = "linux"
  Ipv6 = TRUE
  Gen = {g1}
  Nic = {n1}
  n1 = n1
  None = None
  Admin = Admin
  NoGen = NoGen
  Caller = {c1}
  AdminRoutes <- NoAdminRoutes
  Faults = {"probe"}
SPECIFICATION Spec
INVARIANT MulticastNeverEnters
CHECK_DEADLOCK FALSE
