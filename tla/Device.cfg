SPECIFICATION FairSpec
CONSTANTS
  Platforms = {"windows", "linux", "macos"}
  RingSize = 2
  QueueDepth = 2
  Header = 2
  Room = 4
  MaxPacket = 5
  Lengths = {0, 1, 4, 5, 6}
  MaxArrivals = 4
  MaxWrites = 1
INVARIANTS TypeOK InOrderOnce NoLostWakeup WriteReports
PROPERTIES ReaderExits PacketsMove
