\* Two contexts and two addresses.
SPECIFICATION Spec
CONSTANTS
  MaxRef = 2
  PoolSize = 2
  Key = {k1}
  MaxPdu = 1
INVARIANT AddressAllocated
CHECK_DEADLOCK FALSE
