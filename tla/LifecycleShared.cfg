CONSTANTS
  Platform = "macos"
  Ipv6 = FALSE
  Gen = {g1, g2}
  Nic = {n1}
  n1 = n1
  None = None
  Admin = Admin
  NoGen = NoGen
  Caller = {c1, c2}
  AdminRoutes <- NoAdminRoutes
  Faults = {"create", "netstack", "cancel", "runtime", "drop", "rebuild", "kill", "flap"}
SPECIFICATION Spec
SYMMETRY Interchangeable
INVARIANTS OneRunState RoutesAccountedFor ReturnedMeansRestored AdapterHasOwner
CHECK_DEADLOCK FALSE
