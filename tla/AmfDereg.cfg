\* No retransmissions; only the UDM deregisters
SPECIFICATION Spec
CONSTANTS
  Slices = {s1}
  T3550 = 0
  T3560 = 0
  T3570 = 0
  T3522 = 0
  MaxAsks = 2
  MaxUp = 2
  MaxDown = 1
  Requests = {"est", "rel"}
INVARIANT DeregisteredHoldsNothing
CHECK_DEADLOCK FALSE
