SPECIFICATION Spec
CONSTANTS
  None = None
  Uploads = {u1}
  Workers = {w1}
  Requests = {c1}
  Contents = {clean}
  Clean = {clean}
  BatchLimit = 5
  MaxVersion = 4
  MaxFaults = 0
  MaxLostCommits = 1
INVARIANTS NoFalseReady
