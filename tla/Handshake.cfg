CONSTANTS
  Kinds = {"http", "socks5"}
  SpeaksFirst = {"socks5"}
  HeadLens = {4, 5, 9}
  NameLens = {0, 1, 255}
  DataLens = {1, 4}
  ReadSize = 3
  HttpLimit = 7
  MaxPieces = 1
SPECIFICATION FairSpec
INVARIANTS TunnelAligned OpenMeansGranted 
PROPERTY NegotiationEnds
CHECK_DEADLOCK FALSE
