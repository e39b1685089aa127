SPECIFICATION FairSpec
CONSTANTS
  c1 = c1
  c2 = c2
  h1 = h1
  h2 = h2
  u1 = u1
  Checkouts = {c1}
  Offers <- MCStripe
  Handlers = {h1, h2}
  Users = {u1}
  RawBody = FALSE
  MaxEvents = 3
  MaxFaults = 1
  MaxAsks = 1
PROPERTY PaidIsInForce
CHECK_DEADLOCK FALSE
