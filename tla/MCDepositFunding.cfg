SPECIFICATION Spec
CONSTANTS
  d1 = d1
  d2 = d2
  c1 = c1
  c2 = c2
  h1 = h1
  h2 = h2
  w1 = w1
  w2 = w2
  None = None
  Deposits = {d1}
  CheckoutLanes = {c1}
  WebhookLanes = {h1}
  WorkerLanes = {w1}
  Credit <- MCCredit
  Runtimes <- MCRuntimeNormal
  MaxRequests = 1
  MaxDeliveries = 2
  MaxFaults = 1
  MaxExpiries = 1
  MaxPolls = 2
INVARIANTS
  TypeOK
  CreditedOnce
  AuthoritiesProve
PROPERTIES
  ImplementsContract
