SPECIFICATION Spec
CONSTANTS
  app = app
  lib = lib
  w1 = w1
  w2 = w2
  c1 = c1
  q1 = q1
  d1 = d1
  Repos = {app}
  Excluded = {}
  Slots = {w1, w2}
  Callers = {c1}
  Requests = {q1}
  Readers = {}
  Instances <- MCInstances
  Attempts = 2
  MaxStalled = 3
  Bounds <- MCBounds
SYMMETRY SlotSymmetry
INVARIANTS OneSlotPerRepo CompletedMeansExists NobodyIsLeftOut
PROPERTY OnlyOverlapsGoBack
CHECK_DEADLOCK FALSE
