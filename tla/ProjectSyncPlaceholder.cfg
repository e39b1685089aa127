SPECIFICATION FairSpec
CONSTANTS
  app = app
  lib = lib
  w1 = w1
  w2 = w2
  c1 = c1
  q1 = q1
  d1 = d1
  Repos = {app, lib}
  Excluded = {lib}
  Slots = {w1, w2}
  Callers = {}
  Requests = {q1}
  Readers = {}
  Instances <- MCInstances
  Attempts = 2
  MaxStalled = 3
  Bounds <- MCListBounds
PROPERTY PlaceholdersFilled
CHECK_DEADLOCK FALSE
