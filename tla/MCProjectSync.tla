--------------------------- MODULE MCProjectSync ---------------------------
(* ProjectSync on small instances: one user, one or two repositories, one  *)
(* process.                                                                *)
EXTENDS ProjectSync, TLC

CONSTANTS app, lib, w1, w2, c1, q1, d1

\* The API runs as one process: all its runs die together.
MCInstances == {Runners}

\* The slots of the worker are alike.
SlotSymmetry == Permutations(Slots)

\* Every hazard once.
MCBounds == [pushes |-> 1, faults |-> 1, stalls |-> 1, direct |-> 1, syncs |-> 1, alls |-> 1]

\* Writers beside a reader: no crash, and the job is left in place.
MCReaderBounds == [pushes |-> 1, faults |-> 1, stalls |-> 0, direct |-> 1, syncs |-> 0, alls |-> 1]

\* The repositories are listed, and nothing fails.
MCListBounds == [pushes |-> 1, faults |-> 0, stalls |-> 0, direct |-> 0, syncs |-> 0, alls |-> 1]
=============================================================================
