CONSTANTS
  Requests = {r1, r2}
  Docs = {d1, d2}
  None = None
SPECIFICATION Spec
SYMMETRY Symmetry
INVARIANTS
  StoresAgree
  AuditCounts
PROPERTIES
  FrozenUnlessStale
