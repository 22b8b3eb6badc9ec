SPECIFICATION Spec
SYMMETRY Symmetry
CONSTANTS
  c1 = c1
  c2 = c2
  e1 = e1
  e2 = e2
  r1 = r1
  r2 = r2
  r3 = r3
  h1 = h1
  h2 = h2
  Nobody = Nobody
  Clients = {c1, c2}
  Emails = {e1, e2}
  Own <- MCOwn
  Requests = {r1, r2, r3}
  Processes = {h1, h2}
  AccessTtl = 1
  RefreshTtl = 1
  MaxTime = 1
  MaxRotations = 2
  MaxFaults = 1
INVARIANTS
  TypeOK
  LateReuseIsRefused
  PasswordStands
PROPERTIES
  RotationKeepsTokens
  ImplementsRevocable
