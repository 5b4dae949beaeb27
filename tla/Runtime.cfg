SPECIFICATION FairRuntimeSpec
CONSTANTS
  q1 = q1
  q2 = q2
  c1 = c1
  c2 = c2
  Services = {"postgres", "redis"}
  Probed = {"postgres", "worker"}
  Readers = {q1}
  Callers = {c1, c2}
  INTERVAL = 1
  TIMEOUT = 1
  TTL = 4
  MAX_REQUESTS = 1
  MaxOutages = 1
INVARIANTS HealthyWorkerVisible
PROPERTIES ReadyOnlyOpen StoppedWorkerForgotten NobodyLockedOut
