SPECIFICATION Spec
CONSTANTS
  q1 = q1
  q2 = q2
  d1 = d1
  d2 = d2
  None = None
  Requests = {q1, q2}
  Documents = {d1}
  MaxLinks = 3
  MaxSessions = 2
  EventAttempts = 1
  MaxTries = 1
CHECK_DEADLOCK FALSE
INVARIANTS
  SessionsFollowPassword
  LinksInForce
  ActiveHasProof
PROPERTY
  LinksUsedOnce
