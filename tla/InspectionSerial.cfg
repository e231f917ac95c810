CONSTANTS
  t1 = t1
  t2 = t2
  l1 = l1
  None = None
  Tasks = {t1, t2}
  ReportIds = {i1, i2}
  Licenses = {l1}
  Requests = {r1}
  LicenseOf <- MixedLicense
  MaxRounds = 3
SPECIFICATION Spec
SYMMETRY Symmetry
CHECK_DEADLOCK FALSE
INVARIANTS
  DraftUntilSubmitted
  NoticesBalance
PROPERTIES
  ImplementsLifecycle
