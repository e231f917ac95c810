CONSTANTS
  a1 = a1
  a2 = a2
  d1 = d1
  n1 = n1
  Requests = {r1, r2}
  Licenses = {a1, a2, d1}
  Names = {n1}
  NameOf <- TheNames
  Records <- TheRecords
  MaxVersion = 2
SPECIFICATION FairSpec
INVARIANTS
  OneRunPerWindow
  OneBusinessPerName
PROPERTIES
  LogTellsTruth
  NeverOlder
  BlockedForAWhile
