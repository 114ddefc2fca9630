CONSTANTS
  t1 = t1
  t2 = t2
  t3 = t3
  Txs = {t1, t2, t3}
  Ts <- Timestamps
  Rounded <- Doubles
  Far <- Apart
  Blacklisted = {t2, t3}
  Workers = {w1, w2}
  NoTx = NoTx
  Weight <- DefaultWeight
  Score <- RuleScore
  Threshold = 5
  Critical <- DefaultCritical
  MaxFaults = 2
SPECIFICATION Spec
SYMMETRY WorkerSymmetry
INVARIANTS TypeOK NewestTelemetry TravelJustified ClearedWasJudged
PROPERTIES TravelDetected FailureNeverHelps
