SPECIFICATION Spec
CONSTANTS
  a = a
  b = b
  r1 = r1
  s1 = s1
  s2 = s2
  None = None
  Orders = {a, b}
  Gross <- MCGross
  Fee <- MCFee
  Channels = {"PUBLISHER", "PLATFORM"}
  Methods = {"AUTO", "MANUAL_ADMIN"}
  Warranted = {}
  RequestLanes = {}
  SweepLanes = {s1}
  Withdrawing = TRUE
  MaxSettlements = 1
  MaxReuse = 1
  MaxVersion = 0
  MaxChecks = 0
INVARIANTS
  TypeOK
  BooksBalance
CHECK_DEADLOCK FALSE
