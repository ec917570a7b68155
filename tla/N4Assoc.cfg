SPECIFICATION FairSpec
CONSTANTS
  Smf = {s1}
  Ref = {}
  NoRef = NoRef
  SeqNo = {q1, q2}
  NoSeq = NoSeq
  N1 = 1
  NetCap = 3
  MaxSmfRts = 2
  MaxUpfRts = 2
  EventCap = 1
INVARIANT
  TypeOK
  AssocAgreement
PROPERTY
  Reassociates
  RequestsComplete
CHECK_DEADLOCK FALSE
