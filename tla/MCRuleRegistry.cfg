CONSTANTS
  m1 = m1
  m2 = m2
  Merchants = {m1, m2}
  Configs <- ThreeConfigs
  First <- Started
  Counts = {1, 2, 3}
  Score <- RuleScore
  Callers = {c1}
SPECIFICATION Spec
INVARIANTS TypeOK InForce VerdictInForce
