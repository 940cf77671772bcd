SPECIFICATION FairSpec
CONSTANTS
  w1 = w1
  w2 = w2
  s1 = s1
  u1 = u1
  u2 = u2
  r1 = r1
  r2 = r2
  Workers = {w1, w2}
  Staff = {s1}
  MaxAttempts = 3
  MaxFaults = 1
  MaxReviews = 1
  None = none
  Channels <- MCBoth
  Operators = {u1, u2}
  Requests = {r1, r2}
  MaxRevisions = 1
INVARIANTS
  TypeOK FulfilmentPaused RefundGrounded AssignmentsClosed DeliveryAgrees
PROPERTIES WorkByAssignee VerdictsFenced HeldNeverPasses DeliveriesDecided
CHECK_DEADLOCK FALSE
