CONSTANTS
  Octets = 3
  Base = 3
  Width = 4
  MaxPort = 3
  Star = Star
  MaxList = 3
  MaxName = 3
SPECIFICATION SpecFunctions
INVARIANTS StripReturns SockaddrV4Reads
CHECK_DEADLOCK FALSE
