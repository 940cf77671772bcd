SPECIFICATION Spec
CONSTANTS
  a = a
  b = b
  r1 = r1
  s1 = s1
  s2 = s2
  None = None
  Orders = {a}
  Gross <- MCGross
  Fee <- MCFee
  Channels = {"PUBLISHER", "PLATFORM"}
  Methods = {"AUTO"}
  Warranted = {a}
  RequestLanes = {r1}
  SweepLanes = {s1}
  Withdrawing = FALSE
  MaxSettlements = 2
  MaxReuse = 1
  MaxVersion = 2
  MaxChecks = 1
CONSTRAINT
  OneConcern
INVARIANTS
  OutcomesAgree
PROPERTIES
  FraudEarnsNothing
  ReleasedUnblocked
  ImplementsContract
CHECK_DEADLOCK FALSE
