SPECIFICATION FairSpec
CONSTANTS
  t1 = t1
  t2 = t2
  a = a
  b = b
  None = None
  Tabs = {t1, t2}
  Accounts = {a, b}
  Editors = {t1}
  Registered = b
  MaxCommands = 2
  MaxFaults = 1
INVARIANTS TypeOK EndedStaysHidden
PROPERTIES OnlyOwnSessionsEnd TabsAgree
