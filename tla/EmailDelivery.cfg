SPECIFICATION FairSpec
CONSTANTS
  j1 = j1
  n1 = n1
  n2 = n2
  Jobs = {j1}
  Notes = {n1, n2}
  Kinds = {"permanent", "transient", "delivery"}
  Attempts = 2
  MaxStalled = 1
  MaxTransient = 2
  MaxFaults = 1
INVARIANTS TypeOK OneEmailUnlessCut SuppressionHolds TransientIsEarned
PROPERTIES EveryJobEnds ComplaintsSuppress
CHECK_DEADLOCK FALSE
