SPECIFICATION Spec
CONSTANTS
  k1 = k1
  k2 = k2
  k3 = k3
  r1 = r1
  r2 = r2
  Keys = {k1, k2, k3}
  Requests = {r1, r2}
  Tiers <- MCTiers
  TierLimit <- MCTierLimit
  MaxUsage = 1
  MaxRequests = 5
  MaxEvents = 1
INVARIANTS TypeOK RateKept
PROPERTIES KeepsLife LimitKept
CHECK_DEADLOCK FALSE
