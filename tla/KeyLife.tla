------------------------------ MODULE KeyLife ------------------------------
(***************************************************************************)
(* What a user is promised of the secrets of API keys: each is usable or   *)
(* not as the user likes until it is replaced or revoked, and then it is   *)
(* dead for good.                                                          *)
(***************************************************************************)
CONSTANT Secrets

VARIABLES
  usable,  \* the secrets that a call may present
  dead     \* the secrets that were replaced or revoked

Init == usable = {} /\ dead = {}

Permit(s) == /\ s \notin dead
             /\ usable' = usable \cup {s}
             /\ UNCHANGED dead

Suspend(s) == /\ usable' = usable \ {s}
              /\ UNCHANGED dead

\* Some secrets, among them ones never handed out, are dead from now on.
Retire == /\ dead \subseteq dead'
          /\ usable' = usable \ dead'

\* The secret that takes their place is usable.
Replace(s) == /\ dead \subseteq dead' /\ s \notin dead'
              /\ usable' = (usable \ dead') \cup {s}

Next == \/ \E s \in Secrets : Permit(s) \/ Suspend(s) \/ Replace(s)
        \/ Retire

Spec == Init /\ [][Next]_<<usable, dead>>
=============================================================================
