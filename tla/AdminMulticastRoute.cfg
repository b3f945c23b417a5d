CONSTANTS
  Platform = "linux"
  Ipv6 = FALSE
  Gen = {g1}
  Nic = {n1}
  n1 = n1
  None = None
  Admin = Admin
  NoGen = NoGen
  Caller = {c1}
  AdminRoutes <- AdminMulticast
  Faults = {}
SPECIFICATION FairSpec
PROPERTY AdminRoutesKept
CHECK_DEADLOCK FALSE
