CONSTANTS
  t1 = t1
  t2 = t2
  l1 = l1
  None = None
  Tasks = {t1, t2}
  ReportIds = {i1, i2}
  Licenses = {l1}
  Requests = {r1, r2}
  LicenseOf <- SharedLicense
  MaxRounds = 2
SPECIFICATION Spec
SYMMETRY SymmetryOfTasks
CHECK_DEADLOCK FALSE
INVARIANTS
  OneReportPerTask
  SubmittedHasResult
  NeverStuck
PROPERTIES
  LegalUnlessStale
  EditsUnlessStale
  OutcomeUnlessStale
