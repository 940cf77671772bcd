SPECIFICATION FairSpec
CONSTANTS
  d1 = d1
  p1 = p1
  p2 = p2
  e1 = e1
  e2 = e2
  e3 = e3
  o1 = o1
  a1 = a1
  a2 = a2
  w1 = w1
  w2 = w2
  None = None
  Deposits = {d1}
  Disputes = {p1}
  Events = {e1, e2}
  Orders = {}
  ApiLanes = {a1}
  WorkerLanes = {w1}
  Credit <- MCCredit
  Price <- MCPrice
  EnvelopesOf <- MCEnvelopesLeases
  Runtimes <- MCRuntimesRunning
  InboxMaxAttempts = 3
  MaxDeliveries = 2
  MaxCrashes = 1
  MaxExpiries = 3
INVARIANTS
  CaseEvidence
  OneLeaseHolder
PROPERTIES
  LeaseFenced
  EventsSettle
CHECK_DEADLOCK FALSE
