CONSTANTS
  SessionIds = {s1, s2, s3}
  Requests = {r1, r2}
  None = None
  MaxChanges = 1
SPECIFICATION Spec
SYMMETRY Symmetry
CHECK_DEADLOCK FALSE
INVARIANTS
  ParentRevoked
  Justified
