SPECIFICATION FairSpec
CONSTANTS
  q1 = q1
  q2 = q2
  Requests = {q1, q2}
  MaxVersion = 3
  MaxRequests = 4
  MaxFaults = 1
INVARIANTS TypeOK VersionToldOnce CurrentIsLatest LatestIsFresh
PROPERTY CachesConverge
CHECK_DEADLOCK FALSE
