SPECIFICATION Spec
CONSTANTS
  s1 = s1
  s2 = s2
  s3 = s3
  r1 = r1
  r2 = r2
  r3 = r3
  l1 = l1
  none = none
  NoLink = none
  Sessions = {s1, s2, s3}
  Links = {l1}
  Requests = {r1, r2, r3}
  MaxPerUser = 1
  MaxRequests = 4
  MaxFaults = 1
  MaxExpiries = 1
SYMMETRY MCSymmetry
INVARIANTS TypeOK ConfirmedStayListed RejectedStillBars OnlyOldTrimmed
PROPERTY KeepsLife
CHECK_DEADLOCK FALSE
