-------------------------- MODULE MCSubscriptions --------------------------
(* Subscriptions on small instances.                                       *)
EXTENDS Subscriptions, TLC

CONSTANTS c1, c2, h1, h2, u1

MCStripe == {[provider |-> "stripe", tier |-> "pro"]}
MCOthers == {[provider |-> "paypal", tier |-> "enterprise"],
             [provider |-> "lemonsqueezy", tier |-> "enterprise"]}

\* The checkouts and the handlers are alike.
MCSymmetry == Permutations(Checkouts) \cup Permutations(Handlers)
=============================================================================
