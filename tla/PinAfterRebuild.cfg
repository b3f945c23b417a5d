CONSTANTS
  Platform = "linux"
  Ipv6 = FALSE
  Gen = {g1, g2}
  Nic = {n1}
  n1 = n1
  None = None
  Admin = Admin
  NoGen = NoGen
  Caller = {c1}
  AdminRoutes <- NoAdminRoutes
  Faults = {"netstack", "drop", "rebuild"}
SPECIFICATION Spec
INVARIANT PinnedToPhysical
CHECK_DEADLOCK FALSE
