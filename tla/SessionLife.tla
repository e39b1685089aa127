---------------------------- MODULE SessionLife ----------------------------
(***************************************************************************)
(* What the session tokens promise, whatever their requests do to each     *)
(* other: a session is opened once and closed for good, it earns access    *)
(* tokens only while open, a revocation is confirmed only of closed        *)
(* sessions, and a magic link signs in once.                               *)
(***************************************************************************)
EXTENDS Naturals

CONSTANTS
  Sessions,    \* the sessions that may ever be opened
  Links        \* the magic links that were mailed

VARIABLES
  state,       \* "none", "open" or "closed"
  granted,     \* how many access tokens a session has earned by refreshing
  confirmed,   \* sessions whose revocation was confirmed to somebody
  signIns      \* how many sign-ins a link was answered with

lifeVars == <<state, granted, confirmed, signIns>>

Init ==
  /\ state = [s \in Sessions |-> "none"]
  /\ granted = [s \in Sessions |-> 0]
  /\ confirmed = {}
  /\ signIns = [l \in Links |-> 0]

Open(s) ==
  /\ state[s] = "none"
  /\ state' = [state EXCEPT ![s] = "open"]
  /\ UNCHANGED <<granted, confirmed, signIns>>

\* Sessions end together: all of them, the oldest, the expired.
Close(S) ==
  /\ \A s \in S : state[s] = "open"
  /\ state' = [s \in Sessions |-> IF s \in S THEN "closed" ELSE state[s]]
  /\ UNCHANGED <<granted, confirmed, signIns>>

Grant(s) ==
  /\ state[s] = "open"
  /\ granted' = [granted EXCEPT ![s] = @ + 1]
  /\ UNCHANGED <<state, confirmed, signIns>>

Confirm(S) ==
  /\ \A s \in S : state[s] = "closed"
  /\ confirmed' = confirmed \cup S
  /\ UNCHANGED <<state, granted, signIns>>

SignIn(l) ==
  /\ signIns[l] = 0
  /\ signIns' = [signIns EXCEPT ![l] = 1]
  /\ UNCHANGED <<state, granted, confirmed>>

Next ==
  \/ \E s \in Sessions : Open(s) \/ Grant(s)
  \/ \E S \in SUBSET Sessions : Close(S) \/ Confirm(S)
  \/ \E l \in Links : SignIn(l)

Spec == Init /\ [][Next]_lifeVars
=============================================================================
