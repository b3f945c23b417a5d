SPECIFICATION Spec
CONSTANTS
  Worlds <- MacosTwoPeers
  Pids = {1, 2}
  Inodes = {1, 2}
  Callers = {1}
  Ttl = 1
  MaxClock = 2
  MaxChanges = 4
  MaxSockets = 2
INVARIANTS RemoteTellsApart TruncationAbsorbed
CHECK_DEADLOCK FALSE
