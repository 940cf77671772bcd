SPECIFICATION FairSpec
CONSTANTS
  p1 = p1
  p2 = p2
  o1 = o1
  o2 = o2
  o3 = o3
  s1 = s1
  i1 = i1
  i2 = i2
  None = None
  Withdrawals = {p1}
  OperatorLanes = {o1}
  StatusLanes = {s1}
  InboxLanes = {i1, i2}
  Balance = 1
  MaxExecutions = 1
  Methods <- MCStripe
  BatchSize = 1
  MaxRequests = 3
  MaxDeliveries = 2
  MaxFaults = 1
  MaxExpiries = 2
  MaxVersion = 6
  Amount <- MCAmount
PROPERTIES
  PaidIsBooked
CHECK_DEADLOCK FALSE
