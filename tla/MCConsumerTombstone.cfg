CONSTANTS
  k1 = k1
  k2 = k2
  N = 2
  Keys = {k1, k2}
  KeyOf <- OvertakingKeyOf
  Kind <- OvertakingKind
  MaxRetries = 1
  MaxDeliveries = 2
  MaxFaults = 2
SPECIFICATION Spec
INVARIANTS NothingLost
CHECK_DEADLOCK FALSE
