------------------------- MODULE MCWebhookPipeline -------------------------
(* WebhookPipeline on small instances.                                     *)
EXTENDS WebhookPipeline

CONSTANTS push, gitlab, star, h1, s1, o1

KindOf(e) == CASE e = push -> "push" [] e = gitlab -> "gitlabPush" [] e = star -> "star"
MCKind == [e \in Events |-> KindOf(e)]

\* The API runs as one process.
MCInstances == {Runners}
=============================================================================
