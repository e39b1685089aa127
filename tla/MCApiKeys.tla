----------------------------- MODULE MCApiKeys -----------------------------
(* ApiKeys on small instances.                                             *)
EXTENDS ApiKeys, TLC

CONSTANTS k1, k2, k3, r1, r2

MCTiers == {"pro", "enterprise"}
MCTierLimit == [p \in MCTiers |-> IF p = "pro" THEN 2 ELSE -1]

MCSymmetry == Permutations(Keys) \cup Permutations(Requests)
=============================================================================
