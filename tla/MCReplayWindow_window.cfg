SPECIFICATION Spec
SYMMETRY Symmetry
CONSTANTS
  d1 = d1
  d2 = d2
  d3 = d3
  n1 = n1
  n2 = n2
  n3 = n3
  n4 = n4
  x = x
  click = click
  payme = payme
  None = None
  Empty = Empty
  Deliveries = {d1, d2, d3}
  Notices = {n1, n2, n3, n4}
  Provider <- MCProvider
  Stamp <- MCStamp
  Nonce <- MCNonce
  Env <- MCEnv
  Lag = 1
  MaxTime = 9
  MaxFaults = 2
INVARIANTS
  NoReplay
  CountersExpire
  ReplayIsReal
