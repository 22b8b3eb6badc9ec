SPECIFICATION FairSpec
CONSTANTS
  u1 = u1
  p1 = p1
  n1 = n1
  n2 = n2
  d1 = d1
  d2 = d2
  q1 = q1
  q2 = q2
  h1 = h1
  h2 = h2
  x1 = x1
  x2 = x2
  Nobody = Nobody
  Users = {u1}
  Owner <- MCOwner
  Provider <- ByClick
  Amount <- MCAmount
  Funds <- MCFunds
  Host <- MCHost
  Payments = {p1}
  Notices = {n1, n2}
  NoticeKinds <- SuccessAndCancel
  Times = {1, 2}
  Nonces = {x1}
  Deliveries = {d1, d2}
  Pollers = {q1, q2}
  Processes = {h1, h2}
  MaxAttempts = 2
  FaultKinds = {"db", "redis", "crash"}
  MaxFaults = 1
PROPERTIES
  UnderwayIsDecided
  PaidAsAskedIsCredited
