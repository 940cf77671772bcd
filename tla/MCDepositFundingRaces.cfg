SPECIFICATION Spec
CONSTANTS
  d1 = d1
  d2 = d2
  c1 = c1
  c2 = c2
  h1 = h1
  h2 = h2
  w1 = w1
  w2 = w2
  None = None
  Deposits = {d1}
  CheckoutLanes = {c1, c2}
  WebhookLanes = {}
  WorkerLanes = {w1, w2}
  Credit <- MCCredit
  Runtimes <- MCRuntimeNormal
  MaxRequests = 2
  MaxDeliveries = 1
  MaxFaults = 2
  MaxExpiries = 2
  MaxPolls = 2
SYMMETRY LaneSymmetry
INVARIANTS
  LinkAttached
PROPERTIES
  RecoveryFenced
CHECK_DEADLOCK FALSE
