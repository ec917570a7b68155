\* Two UEs, a slice with a configured quota and a differentiated one without;
\* two requests at a time, three in all, and one end of the process.
SPECIFICATION Spec
CONSTANTS
  Ues = {u1, u2}
  Pdus = {}
  Slices = {wide, sd}
  Wide = wide
  Limits <- TwoOrHome
  NoLimit = NoLimit
  Threshold = 80
  MaxQuotas = 2
  Configured = {wide}
  Ceilings <- Two
  Tasks = {t1, t2}
  Updates = {"INCREASE", "DECREASE", "UPDATE"}
  MaxId = 3
  MaxWrites = 2
  MaxRequests = 3
  MaxCrashes = 1
INVARIANTS
  TypeOK
  FreshIdentities
  QuotaReachable
  SavedWhenQuiet
  AdmissionBound
SYMMETRY UeSymmetry
CHECK_DEADLOCK FALSE
