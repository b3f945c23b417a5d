SPECIFICATION Spec
CONSTANTS
  Worlds <- WindowsTwoPeers
  Pids = {1, 2}
  Inodes = {1, 2}
  Callers = {1}
  Ttl = 1
  MaxClock = 2
  MaxChanges = 4
  MaxSockets = 2
INVARIANT OwnerOrNone
CHECK_DEADLOCK FALSE
