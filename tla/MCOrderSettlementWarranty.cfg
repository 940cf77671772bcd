SPECIFICATION Spec
CONSTANTS
  a = a
  b = b
  r1 = r1
  s1 = s1
  s2 = s2
  None = None
  Orders = {a}
  Gross <- MCGross
  Fee <- MCFee
  Channels = {"PUBLISHER"}
  Methods = {"AUTO"}
  Warranted = {a}
  RequestLanes = {}
  SweepLanes = {s1}
  Withdrawing = FALSE
  MaxSettlements = 1
  MaxReuse = 0
  MaxVersion = 0
  MaxChecks = 0
INVARIANTS
  WarrantyOpens
CHECK_DEADLOCK FALSE
