SPECIFICATION FairSpec
CONSTANTS
  Worlds <- MCWorlds
  Pids = {1, 2}
  Inodes = {1,2,3}
  Callers = {1, 2}
  Ttl = 1
  MaxClock = 2
  MaxChanges = 3
  MaxSockets = 2
INVARIANTS TypeOK AnswerFresh OwnerFound ExactBeforeWildcard
PROPERTIES CallsReturn
