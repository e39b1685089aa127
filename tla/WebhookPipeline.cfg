SPECIFICATION FairSpec
CONSTANTS
  push = push
  gitlab = gitlab
  star = star
  h1 = h1
  s1 = s1
  o1 = o1
  Events = {push, gitlab, star}
  Kind <- MCKind
  Handlers = {h1}
  Syncers = {s1}
  Operators = {o1}
  Instances <- MCInstances
  MaxRetries = 1
  Attempts = 2
  MaxDeliveries = 1
  MaxFaults = 1
  MaxManual = 1
INVARIANTS TypeOK SyncQueuedBeforeProcessed EveryJobHasACause
PROPERTIES KeepsLife QueueDrains
CHECK_DEADLOCK FALSE
