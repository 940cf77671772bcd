SPECIFICATION FairSpec
CONSTANTS
  a = a
  b = b
  r1 = r1
  s1 = s1
  s2 = s2
  None = None
  Orders = {a}
  Gross <- MCGross
  Fee <- MCFee
  Channels = {"PUBLISHER"}
  Methods = {"AUTO", "MANUAL_ADMIN"}
  Warranted = {}
  RequestLanes = {}
  SweepLanes = {s1, s2}
  Withdrawing = FALSE
  MaxSettlements = 1
  MaxReuse = 0
  MaxVersion = 0
  MaxChecks = 1
INVARIANTS
  VerifiedShowsLink
PROPERTIES
  AutoSettles
CHECK_DEADLOCK FALSE
