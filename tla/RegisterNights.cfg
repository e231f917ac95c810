CONSTANTS
  Licenses = {l1}
  Reviews = {r1, r2}
  OtherTypes = FALSE
  MaxDeaths = 2
  None = None
SPECIFICATION FairSpec
INVARIANTS
  Rng4HasNoDate
PROPERTIES
  MarksUnlessStale
  NonpaymentSuspends
  ExpiryNoticed
  AnnouncedUnlessCutOff
