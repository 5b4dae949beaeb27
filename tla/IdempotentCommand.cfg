SPECIFICATION FairSpec
CONSTANTS
  q1 = q1
  q2 = q2
  q3 = q3
  login = login
  verify = verify
  b1 = b1
  b2 = b2
  None = None
  Requests = {q1, q2, q3}
  Keys = {login, verify}
  Bodies = {b1, b2}
  LockFirst = {login}
  LockLater = {verify}
  Stamped = {verify}
  TTL = 2
  MaxTime = 2
  Traffic <- Mixes
INVARIANTS
  OneOutcome
  
PROPERTY
  EveryRequestAnswered
CHECK_DEADLOCK FALSE
