CONSTANTS
  Requests = {r1}
  Kinds = {"advert"}
  Lifetime = 1
  DiskFails = TRUE
  Ends = {}
  Earlier = {}
  Nothing = Nothing
SPECIFICATION FairSpec
PROPERTY PendingEnds
