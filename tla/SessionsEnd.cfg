CONSTANTS
  SessionIds = {s1, s2}
  Requests = {r1, r2}
  None = None
  MaxChanges = 0
SPECIFICATION FairSpec
CHECK_DEADLOCK FALSE
PROPERTIES
  SuspensionTakesEffect
