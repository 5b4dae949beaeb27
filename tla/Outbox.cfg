SPECIFICATION FairSpec
CONSTANTS
  d1 = d1
  d2 = d2
  p1 = p1
  p2 = p2
  h1 = h1
  h2 = h2
  None = None
  Deliveries = {d1}
  Processes = {p1, p2}
  Handlers = {h1, h2}
  HostOf <- OwnHost
  MAX_ATTEMPTS = 2
  BatchLimit = 1
  MaxFaults = 3
CHECK_DEADLOCK FALSE
INVARIANTS
  OutcomesJustified
  EffectsWithinAttempts
  SingleHolder
PROPERTY
  KeepsPromise
