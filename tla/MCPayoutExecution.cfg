SPECIFICATION Spec
CONSTANTS
  p1 = p1
  p2 = p2
  o1 = o1
  o2 = o2
  o3 = o3
  s1 = s1
  i1 = i1
  i2 = i2
  None = None
  Withdrawals = {p1, p2}
  OperatorLanes = {o1, o2}
  StatusLanes = {s1}
  InboxLanes = {}
  Balance = 2
  MaxExecutions = 2
  Methods <- MCMixed
  BatchSize = 1
  MaxRequests = 3
  MaxDeliveries = 0
  MaxFaults = 1
  MaxExpiries = 1
  MaxVersion = 8
  Amount <- MCAmount
SYMMETRY LaneSymmetry
INVARIANTS
  TypeOK
  PaidOnce
  BooksFollowMoney
PROPERTIES
  UpdatesAccepted
  ImplementsContract
CHECK_DEADLOCK FALSE
