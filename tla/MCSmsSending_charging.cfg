SPECIFICATION Spec
CONSTANTS
  r1 = r1
  r2 = r2
  r3 = r3
  u1 = u1
  u2 = u2
  k1 = k1
  w1 = w1
  w2 = w2
  NoKey = NoKey
  EmptyKey = EmptyKey
  Nobody = Nobody
  Keys = {k1}
  Users = {u1, u2}
  Requests = {r1, r2, r3}
  Workers = {w1}
  Concurrency = 1
  MaxAttempts = 1
  MaxStalled = 1
  InitialBalance = 2
  Funds <- MCFunds
  MetricsHasLabels = TRUE
  FaultKinds = {"db"}
  MaxFaults = 1
SYMMETRY Symmetric
INVARIANTS
  LedgerBalances
  OneChargePerKey
  RepliesAgree
  RefusedIsFree
PROPERTIES
  ImplementsWallet
