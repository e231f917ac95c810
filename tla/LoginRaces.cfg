CONSTANTS
  Requests = {r1, r2, r3}
  Limit = 5
  MaxFailed = 6
  Tokens = {k1}
  Users = {u1, u2, u3}
  None = None
SPECIFICATION Spec
SYMMETRY Symmetry
INVARIANTS
  SingleUse
  OneAccount
  NoStrays
PROPERTIES
  LockedAtLimit
  LockHolds
