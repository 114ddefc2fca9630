CONSTANTS
  k1 = k1
  k2 = k2
  N = 4
  Keys = {k1, k2}
  KeyOf <- OrderedKeyOf
  Kind <- OrderedKind
  MaxRetries = 1
  MaxDeliveries = 6
  MaxFaults = 1
SPECIFICATION FairSpec
INVARIANTS TypeOK AtLeastOnce PerKeyOrder BoundedDuplication
PROPERTIES ImplementsKeyedLog Drains
CHECK_DEADLOCK FALSE
