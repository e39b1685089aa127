-------------------------- MODULE MCSessionTokens --------------------------
(* SessionTokens on small instances.                                       *)
EXTENDS SessionTokens, TLC

CONSTANTS s1, s2, s3, r1, r2, r3, l1, none

\* Sessions are drawn at random and requests are alike.  (IdleRun names one session, but
\* no step and no property reads the token of an idle run.)
MCSymmetry == Permutations(Sessions) \cup Permutations(Requests)
=============================================================================
