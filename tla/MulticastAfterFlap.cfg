CONSTANTS
  Platform = "linux"
  Ipv6 = FALSE
  Gen = {g1}
  Nic = {n1}
  n1 = n1
  None = None
  Admin = Admin
  NoGen = NoGen
  Caller = {c1}
  AdminRoutes <- NoAdminRoutes
  Faults = {"flap"}
SPECIFICATION Spec
INVARIANT MulticastStaysOut
CHECK_DEADLOCK FALSE
