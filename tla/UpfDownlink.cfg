SPECIFICATION Spec
CONSTANTS
  MaxPkt = 4
  MaxMod = 2
  BufCap = 2
  ReportCap = 1
INVARIANT
  TypeOK
  PacketConserved
  FlushInOrder
  FlushComplete
  EpisodeReported
  TunnelNotStale
CHECK_DEADLOCK FALSE
