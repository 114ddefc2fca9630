CONSTANTS
  Integral <- SmallIntegers
  Samples = {5}
  MaxSafe <- Safe
  Double <- Nearest
  Shortest <- Printed
  Origins = {"factory"}
SPECIFICATION Spec
INVARIANT CreatedVerifies
CHECK_DEADLOCK FALSE
