SPECIFICATION Spec
CONSTANTS
  c1 = c1
  c2 = c2
  h1 = h1
  h2 = h2
  u1 = u1
  Checkouts = {c1, c2}
  Offers <- MCStripe
  Handlers = {h1, h2}
  Users = {u1}
  RawBody = TRUE
  MaxEvents = 5
  MaxFaults = 1
  MaxAsks = 1
INVARIANTS TypeOK EntitledByCheckout PaymentsAccounted InvoicesRecorded MirrorsProvider
SYMMETRY MCSymmetry
CHECK_DEADLOCK FALSE
