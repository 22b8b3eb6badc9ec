SPECIFICATION FairSpec
CONSTANTS
  r1 = r1
  r2 = r2
  r3 = r3
  u1 = u1
  u2 = u2
  k1 = k1
  w1 = w1
  w2 = w2
  NoKey = NoKey
  EmptyKey = EmptyKey
  Nobody = Nobody
  Keys = {k1}
  Users = {u1}
  Requests = {r1}
  Workers = {w1, w2}
  Concurrency = 1
  MaxAttempts = 2
  MaxStalled = 1
  InitialBalance = 2
  Funds <- MCFunds
  MetricsHasLabels = TRUE
  FaultKinds = {"db", "queue", "provider", "crash", "stall"}
  MaxFaults = 4
INVARIANTS
  SendsBounded
  ResendsHaveFaults
  DeadLettersAreExhausted
PROPERTIES
  AcceptedIsHandled
  ExhaustedIsDeadLettered
  ComesToRest
