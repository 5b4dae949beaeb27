SPECIFICATION FairSpec
CONSTANTS
  None = None
  Results = {r1}
  Senders = {s1, s2}
  Readers = {c1, c2}
  MAX_ATTEMPTS = 2
  EventAttempts = 1
  MaxTries = 2
  MaxFaults = 2
INVARIANTS TypeOK NotifiedTogether SingleSender
PROPERTIES ReadOnce OwnerReached
CHECK_DEADLOCK FALSE
