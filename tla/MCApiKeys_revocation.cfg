SPECIFICATION Spec
SYMMETRY Symmetry
CONSTANTS
  u1 = u1
  u2 = u2
  r1 = r1
  r2 = r2
  r3 = r3
  r4 = r4
  r5 = r5
  h1 = h1
  h2 = h2
  Nobody = Nobody
  Users = {u1, u2}
  Requests = {r1, r2, r3, r4, r5}
  Processes = {h1, h2}
  MaxFaults = 2
INVARIANTS
  TypeOK
  RevokedIsRefused
  RevokeAllLeavesNone
PROPERTIES
  ImplementsRevocable
