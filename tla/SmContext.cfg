\* Two contexts of two UEs, or of one, on a slice with room for one session;
\* two addresses, and a third request that finds none.
SPECIFICATION Spec
CONSTANTS
  MaxRef = 2
  PoolSize = 2
  Key = {k1, k2}
  MaxPdu = 1
INVARIANTS
  TypeOK
  AddressExclusive
  AddressOwned
  AllOrNothing
PROPERTY LeasesAddresses
SYMMETRY KeySymmetry
CHECK_DEADLOCK FALSE
