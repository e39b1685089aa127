SPECIFICATION FairSpec
CONSTANTS
  push = push
  gitlab = gitlab
  star = star
  h1 = h1
  s1 = s1
  o1 = o1
  Events = {push}
  Kind <- MCKind
  Handlers = {h1}
  Syncers = {s1}
  Operators = {}
  Instances <- MCInstances
  MaxRetries = 3
  Attempts = 3
  MaxDeliveries = 1
  MaxFaults = 0
  MaxManual = 0
PROPERTY ProcessedPushIsSynced
CHECK_DEADLOCK FALSE
