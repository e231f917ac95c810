CONSTANTS
  Requests = {r1, r2, r3}
  Radix = 2
  Limit = 3
  MaxAttempts = 2
SPECIFICATION FairSpec
INVARIANTS
  Gapless
  RetriesSuffice
PROPERTIES
  Answered
