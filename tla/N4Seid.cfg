SPECIFICATION SeidSpec
CONSTANTS
  Smf = {s1}
  Ref = {r1, r2}
  NoRef = NoRef
  SeqNo = {q1, q2}
  NoSeq = NoSeq
  N1 = 1
  NetCap = 2
  MaxSmfRts = 1
  MaxUpfRts = 2
  EventCap = 1
SYMMETRY Symmetry
INVARIANT
  SeidStable
  ResponseMatchesRequest
  NoSeidAliasing
CHECK_DEADLOCK FALSE
