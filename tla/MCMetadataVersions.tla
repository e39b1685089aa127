------------------------ MODULE MCMetadataVersions -------------------------
(* MetadataVersions on small instances.                                    *)
EXTENDS MetadataVersions, TLC

CONSTANTS q1, q2

\* Objects of up to two fields.
MCObjects == UNION {[fields -> {1, 2}] : fields \in SUBSET {"a", "b"}}

\* What diffMetadata reports takes the old object to the new one, whatever fields they have,
\* unless objects inherit their names.
ASSUME \A old, new \in MCObjects : Patch(old, Diff(old, new, {})) = new
=============================================================================
