CONSTANTS
  Kinds = {"http"}
  SpeaksFirst = {"http"}
  HeadLens = {4, 5, 9}
  NameLens = {0, 1, 255}
  DataLens = {1, 4}
  ReadSize = 3
  HttpLimit = 7
  MaxPieces = 2
SPECIFICATION Spec
CHECK_DEADLOCK FALSE
INVARIANT TunnelAligned
