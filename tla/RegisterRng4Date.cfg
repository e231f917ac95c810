CONSTANTS
  Licenses = {l1}
  Reviews = {r1}
  OtherTypes = TRUE
  MaxDeaths = 0
  None = None
SPECIFICATION Spec
SYMMETRY Symmetry
INVARIANTS
  Rng4HasNoDate
