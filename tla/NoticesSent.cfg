CONSTANTS
  Licenses = {l1, l2}
  Inspectors = {i1}
  Owner = owner
  Owned = {l1}
  Early = 4
  Late = 2
  Quiet = 1
  MaxDays = 5
  None = None
SPECIFICATION Spec
INVARIANTS
  OncePerDeadline
PROPERTIES
  ToldInTime
  DueUnlessStale
