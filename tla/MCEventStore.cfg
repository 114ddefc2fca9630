CONSTANTS
  Writers = {w1, w2, w3}
  Readers = {r1}
  Aggregates = {a1, a2}
  PoolMax = 2
  DefaultRetries = 1
  MaxCalls = 1
SPECIFICATION FairSpec
INVARIANTS TypeOK VersionsDense ClientsConserved CallAccountability
PROPERTIES ImplementsLog AppendReturns
CHECK_DEADLOCK FALSE
