SPECIFICATION FairSpec
CONSTANTS
  t1 = t1
  t2 = t2
  u1 = u1
  None = None
  Tabs = {t1, t2}
  Uploaders = {t1}
  Uploads = {u1}
  POLL_ATTEMPTS = 2
  MaxSaves = 2
  MaxFinishers = 2
  MaxFaults = 1
  MaxCloses = 1
INVARIANTS TypeOK BusyMeansWork FormImageUsable
PROPERTIES NoBlindOverwrite ControlSettles
CHECK_DEADLOCK FALSE
