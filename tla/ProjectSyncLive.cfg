SPECIFICATION FairSpec
CONSTANTS
  app = app
  lib = lib
  w1 = w1
  w2 = w2
  c1 = c1
  q1 = q1
  d1 = d1
  Repos = {app}
  Excluded = {app}
  Slots = {w1}
  Callers = {c1}
  Requests = {q1}
  Readers = {d1}
  Instances <- MCInstances
  Attempts = 2
  MaxStalled = 3
  Bounds <- MCReaderBounds
INVARIANT TypeOK
PROPERTIES SyncSettles CachesConverge
CHECK_DEADLOCK FALSE
