CONSTANTS
  Integral <- SmallIntegers
  Samples = {5, 32, 40, 45, 47, 50, 56}
  MaxSafe <- Safe
  Double <- Nearest
  Shortest <- Printed
  Origins = {"factory", "upstream", "raw"}
SPECIFICATION Spec
INVARIANTS TypeOK AcceptedAsSigned RefusedForReason SafeIntegersReload
CHECK_DEADLOCK FALSE
