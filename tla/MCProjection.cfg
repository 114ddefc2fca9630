CONSTANTS
  t1 = t1
  t2 = t2
  Txs = {t1, t2}
  AmountOf <- SmallAmounts
  MaxBalance = 2
  MaxPrinted = 1
  Window = 2
  Callers = {c1, c2}
  MaxClock = 4
SPECIFICATION Spec
SYMMETRY CallerSymmetry
INVARIANTS TypeOK OncePerWindow RecentAreKept ReturnedIsApplied
PROPERTIES NeverUndercounts
