SPECIFICATION Spec
CONSTANTS
  d1 = d1
  p1 = p1
  p2 = p2
  e1 = e1
  e2 = e2
  e3 = e3
  o1 = o1
  a1 = a1
  a2 = a2
  w1 = w1
  w2 = w2
  None = None
  Deposits = {d1}
  Disputes = {p1, p2}
  Events = {e1, e2, e3}
  Orders = {o1}
  ApiLanes = {a1}
  WorkerLanes = {w1}
  Credit <- MCCredit
  Price <- MCPrice
  EnvelopesOf <- MCEnvelopesCore
  Runtimes <- MCRuntimesAll
  InboxMaxAttempts = 2
  MaxDeliveries = 1
  MaxCrashes = 0
  MaxExpiries = 1
INVARIANTS
  TypeOK
  WalletReconciles
  HoldsBacked
  DepositProjected
PROPERTIES
  TerminalFinal
  ImplementsContract
CHECK_DEADLOCK FALSE
