SPECIFICATION FaultSpec
CONSTANTS
  Smf = {s1}
  Ref = {r1}
  NoRef = NoRef
  SeqNo = {q1, q2}
  NoSeq = NoSeq
  N1 = 1
  NetCap = 2
  MaxSmfRts = 2
  MaxUpfRts = 2
  EventCap = 1
SYMMETRY Symmetry
INVARIANT
  OrphanBound
  DataPlaneCaughtUp
  IpIndexSound
CHECK_DEADLOCK FALSE
