SPECIFICATION FairSpec
CONSTANTS
  None = None
  Uploads = {u1}
  Workers = {w1, w2}
  Requests = {c1}
  Contents = {clean, spoiled}
  Clean = {clean}
  BatchLimit = 5
  MaxVersion = 6
  MaxFaults = 1
  MaxLostCommits = 1
INVARIANTS TypeOK DeletedInOrder ReadyHasObject
PROPERTIES TerminalIsFinal EverythingEnds
