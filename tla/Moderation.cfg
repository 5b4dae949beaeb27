SPECIFICATION FairSpec
CONSTANTS
  profile = profile
  resume = resume
  w1 = w1
  w2 = w2
  m1 = m1
  m2 = m2
  None = None
  Roots = {profile}
  Drafted = {profile}
  Media = {m1}
  MediaRoot <- ProfileImage
  Workers = {w1, w2}
  MaxVersions = 3
  MAX_ATTEMPTS = 1
  MaxTries = 2
  MaxFaults = 1
CHECK_DEADLOCK FALSE
INVARIANT
  TypeOK
  PublishedReviewed
  DecisionsApplied
  HolderDecides
PROPERTIES
  KeepsPromise
  EverySubmissionDecided
