SPECIFICATION Spec
CONSTANTS
  r1 = r1
  r2 = r2
  r3 = r3
  u1 = u1
  u2 = u2
  k1 = k1
  w1 = w1
  w2 = w2
  NoKey = NoKey
  EmptyKey = EmptyKey
  Nobody = Nobody
  Keys = {k1}
  Users = {u1}
  Requests = {r1, r2}
  Workers = {w1}
  Concurrency = 2
  MaxAttempts = 2
  MaxStalled = 1
  InitialBalance = 1
  Funds <- MCFunds
  MetricsHasLabels = FALSE
  FaultKinds = {}
  MaxFaults = 0
SYMMETRY Symmetric
INVARIANTS
  SendLeavesNoPending
