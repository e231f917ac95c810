CONSTANTS
  Requests = {r1, r2}
  Zones = {z1, z2}
  TaskZone = z1
  MaxChanges = 3
  MaxTasks = 1
SPECIFICATION FairSpec
PROPERTIES
  FitUnlessStale
  ReplacedUnlessOverlapped
  JurisdictionUnlessStale
  ClaimsCatchUp
