CONSTANTS
  Platform = "windows"
  Ipv6 = FALSE
  Gen = {g1}
  Nic = {n1}
  n1 = n1
  None = None
  Admin = Admin
  NoGen = NoGen
  Caller = {c1, c2}
  AdminRoutes <- NoAdminRoutes
  Faults = {"create", "netstack", "delete", "cancel", "drop", "kill"}
SPECIFICATION FairSpec
PROPERTIES StopReturns NetstackEndRestores DropRestores
CHECK_DEADLOCK FALSE
