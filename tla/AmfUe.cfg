\* Every timer but T3560 repeats once before it gives up, and the UE and the
\* UDM make two requests, so that they cross each other and a timer.
SPECIFICATION FairSpec
CONSTANTS
  Slices = {s1}
  T3550 = 1
  T3560 = 0
  T3570 = 1
  T3522 = 1
  MaxAsks = 2
  MaxUp = 2
  MaxDown = 1
  Requests = {"periodic", "mobility", "service", "dereg", "switchOff", "est", "rel"}
INVARIANTS
  TypeOK
  WaitGuarded
  PolicyBound
  RegisteredIsServed
PROPERTIES
  RegistrationSettles
CHECK_DEADLOCK FALSE
