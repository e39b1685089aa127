----------------------------- MODULE EventLife -----------------------------
(***************************************************************************)
(* What a webhook event is promised, whatever its jobs do to each other:   *)
(* once stored it stays, it is called processed only after what it asks    *)
(* for was requested, a repository is synchronised only on request, and    *)
(* the event is called failed once at most for each call that failed.      *)
(***************************************************************************)
EXTENDS Naturals

CONSTANTS
  Events,     \* the events that may be stored
  Asking,     \* those that ask for a synchronisation
  Syncable,   \* those whose repository can be synchronised
  Agents      \* who may work on an event

VARIABLES
  state,      \* "absent", "pending", "processed" or "failed"
  requested,  \* the events whose synchronisation was requested
  synced,     \* the events whose repository was synchronised
  broken,     \* <<a, e>>: a's work on e met a failure, which e was not yet told
  faults      \* how many calls failed

lifeVars == <<state, requested, synced, broken, faults>>

Init ==
  /\ state = [e \in Events |-> "absent"]
  /\ requested = {} /\ synced = {} /\ broken = {}
  /\ faults = 0

Known(e) == state[e] # "absent"

\* A call may have failed on the way, to no effect.
MayFault == faults' \in {faults, faults + 1}

Store(e) ==
  /\ ~Known(e)
  /\ state' = [state EXCEPT ![e] = "pending"]
  /\ MayFault
  /\ UNCHANGED <<requested, synced, broken>>

Request(e) ==
  /\ Known(e) /\ e \in Asking
  /\ requested' = requested \cup {e}
  /\ UNCHANGED <<state, synced, broken, faults>>

Process(e) ==
  /\ Known(e) /\ (e \in Asking => e \in requested)
  /\ state' = [state EXCEPT ![e] = "processed"]
  /\ UNCHANGED <<requested, synced, broken, faults>>

Sync(e) ==
  /\ Known(e) /\ e \in requested \cap Syncable
  /\ synced' = synced \cup {e}
  /\ UNCHANGED <<state, requested, broken, faults>>

Break(a, e) ==
  /\ Known(e)
  /\ broken' = broken \cup {<<a, e>>}
  /\ faults' = faults + 1
  /\ UNCHANGED <<state, requested, synced>>

Fail(a, e) ==
  /\ <<a, e>> \in broken
  /\ broken' = broken \ {<<a, e>>}
  /\ state' = [state EXCEPT ![e] = "failed"]
  /\ UNCHANGED <<requested, synced, faults>>

\* Failures that no event will be told of: the agent died, or failed once more.
Forget ==
  /\ broken' \subseteq broken
  /\ MayFault
  /\ UNCHANGED <<state, requested, synced>>

Next ==
  \/ \E e \in Events : Store(e) \/ Request(e) \/ Process(e) \/ Sync(e)
  \/ \E a \in Agents, e \in Events : Break(a, e) \/ Fail(a, e)
  \/ Forget

Spec == Init /\ [][Next]_lifeVars
=============================================================================
