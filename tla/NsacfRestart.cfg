\* As Nsacf.cfg, with a PDU session.
SPECIFICATION Spec
CONSTANTS
  Ues = {u1, u2}
  Pdus = {p1}
  Slices = {wide, sd}
  Wide = wide
  Limits <- TwoOrHome
  NoLimit = NoLimit
  Threshold = 80
  MaxQuotas = 2
  Configured = {wide}
  Ceilings <- Two
  Tasks = {t1, t2}
  Updates = {"INCREASE", "DECREASE", "UPDATE"}
  MaxId = 3
  MaxWrites = 2
  MaxRequests = 3
  MaxCrashes = 1
INVARIANT CountersSurvive
SYMMETRY UeSymmetry
CHECK_DEADLOCK FALSE
