\* One NF and one subscription, two requests at a time beside the event loop
SPECIFICATION Spec
CONSTANTS
  Nfs = {n1}
  Subs = {s1}
  Tasks = {t1, t2}
  Loop = loop
  Statuses = {"REGISTERED"}
  Left <- LeftFiles
  MaxRequests = 2
  MaxRestarts = 1
INVARIANT TypeOK
INVARIANT SavedWhenQuiet
INVARIANT Supervised
PROPERTY GraceGiven
SYMMETRY TaskSymmetry
CHECK_DEADLOCK FALSE
