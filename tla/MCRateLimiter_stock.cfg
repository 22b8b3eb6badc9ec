SPECIFICATION Spec
CONSTANTS
  r1 = r1
  r2 = r2
  r3 = r3
  ip = ip
  k1 = k1
  k2 = k2
  Keys = {ip, k1, k2}
  Requests = {r1, r2, r3}
  Route <- MCRoute
  Limit <- MCLimit
  Cap = 3
  ServerHangsUp = FALSE
  FaultKinds = {}
  MaxFaults = 0
INVARIANTS
  OpenOnlyInOutage
