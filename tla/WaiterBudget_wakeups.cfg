CONSTANTS
  Callers = {c1, c2, c3, c4}
  Big = {c4}
  Cost <- MCCost
  Batches = {b1, b2}
  Flushers = {f1}
  Framing = 1
  maxBytes = 4
  maxBatches = 2
SPECIFICATION Spec
INVARIANTS TypeOK NoLostWakeup
PROPERTY ImplementsBudget
