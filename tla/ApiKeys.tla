------------------------------ MODULE ApiKeys ------------------------------
(***************************************************************************)
(* The API keys of one user: the keys of the table ApiKeyToken, as many as *)
(* the tier of the subscription allows, and the one key in the user's own  *)
(* row, whose calls are counted against a limit per hour.  Every request   *)
(* checks first and writes later, without a transaction.                   *)
(***************************************************************************)
EXTENDS Integers, FiniteSets

CONSTANTS
  Keys,        \* the ids that rows of ApiKeyToken get
  Requests,    \* HTTP requests in flight
  Tiers,       \* the tiers a subscription can have
  TierLimit,   \* the apiKeyLimit of each, -1 for no limit
  MaxUsage,    \* calls with the account's key allowed in the window
  MaxRequests, \* bound: requests made
  MaxEvents    \* bound: changes of plan, keys that expire, windows that pass

ASSUME ApiKeysAssumption == /\ IsFiniteSet(Keys) /\ IsFiniteSet(Requests) /\ Requests # {}
                            /\ TierLimit \in [Tiers -> Int]
                            /\ MaxUsage \in Nat \ {0}
                            /\ MaxRequests \in Nat /\ MaxEvents \in Nat

VARIABLES
  key,      \* the rows of ApiKeyToken
  plan,     \* the tier of the user's subscription, as billing writes it
  account,  \* whether the user's row holds a key
  usage,    \* the ApiUsage rows of the user in the window
  req,      \* what each request is executing
  made, passed

vars == <<key, plan, account, usage, req, made, passed>>

-----------------------------------------------------------------------------
(* Data                                                                    *)

\* secret counts the secrets the key has had, 0 for a key that does not exist.
KeyRow == [secret : Nat, isActive : BOOLEAN, revoked : BOOLEAN, expired : BOOLEAN]
NoKey  == [secret |-> 0, isActive |-> FALSE, revoked |-> FALSE, expired |-> FALSE]

Changes == {"on", "off", "extend"}
PCs == {"idle", "count", "create", "update", "rotate", "revoke", "rate", "track"}

\* stale tells that a key was added or the plan changed since the request read either.
Request == [pc : PCs, key : Keys \cup {"none"}, limit : Int, to : Changes, stale : BOOLEAN]

Idle == [pc |-> "idle", key |-> "none", limit |-> 0, to |-> "on", stale |-> FALSE]

Exists(k) == key[k].secret > 0

\* The tier of the user's subscription, or none.
Plans == Tiers \cup {"none"}

\* getUserApiKeyLimit: a user without a subscription may have one key.
LimitOf == [p \in Plans |-> IF p = "none" THEN 1 ELSE TierLimit[p]]

\* The keys that createApiKey counts.
Counted == {k \in Keys : Exists(k) /\ key[k].isActive /\ ~key[k].revoked}

Within(n, limit) == limit = -1 \/ n <= limit

\* Mutant of Usable: isActive alone, which an update may set again on a revoked key.
UsableIfActive(k, n) == n > 0 /\ key[k].secret = n /\ key[k].isActive /\ ~key[k].expired

\* validateApiKey of the service: the row is found by the hash of the secret presented.
Usable(k, n) == n > 0 /\ key[k].secret = n /\ key[k].isActive /\ ~key[k].revoked /\ ~key[k].expired

-----------------------------------------------------------------------------
(* Helpers                                                                 *)

Init ==
  /\ key = [k \in Keys |-> NoKey]
  /\ plan \in Plans
  /\ account = FALSE
  /\ usage = 0
  /\ req = [r \in Requests |-> Idle]
  /\ made = 0
  /\ passed = 0

Start(r, x) == /\ req[r].pc = "idle"
               /\ made < MaxRequests
               /\ made' = made + 1
               /\ req' = [req EXCEPT ![r] = x]

At(r, pc) == req[r].pc = pc
End(r)    == req' = [req EXCEPT ![r] = Idle]

\* What the requests at pcs have read is no longer so.
Outdated(pcs) == [q \in Requests |-> IF req[q].pc \in pcs THEN [req[q] EXCEPT !.stale = TRUE]
                                                          ELSE req[q]]

Account == <<account, usage>>

-----------------------------------------------------------------------------
(* Keys of the table                                                       *)

\* createApiKey: the tier's limit is read, ...
AskCreate(r) ==
  /\ Start(r, [Idle EXCEPT !.pc = "count", !.limit = LimitOf[plan]])
  /\ UNCHANGED <<key, plan, Account, passed>>

\* Mutant of HasRoom: at the limit there is room for one more.
HasRoomInclusive(limit) == limit = -1 \/ Cardinality(Counted) <= limit

HasRoom(limit) == limit = -1 \/ Cardinality(Counted) < limit

\* ... the keys are counted, ...
Count(r) ==
  /\ At(r, "count")
  /\ IF HasRoom(req[r].limit) THEN req' = [req EXCEPT ![r].pc = "create"] ELSE End(r)
  /\ UNCHANGED <<key, plan, Account, made, passed>>

\* ... and the key is created, under a new id.
Create(r, k) ==
  /\ At(r, "create")
  /\ ~Exists(k)
  /\ key' = [key EXCEPT ![k] = [secret |-> 1, isActive |-> TRUE, revoked |-> FALSE,
                                expired |-> FALSE]]
  /\ req' = [Outdated({"create"}) EXCEPT ![r] = Idle]
  /\ UNCHANGED <<plan, Account, made, passed>>

\* Mutant of Find: the missing row is not noticed, and the key is written all the same.
FindNone(r, k, op, to) ==
  /\ ~key[k].revoked
  /\ Start(r, [Idle EXCEPT !.pc = op, !.key = k, !.to = to])
  /\ UNCHANGED <<key, plan, Account, passed>>

\* updateApiKey, rotateApiKey and revokeApiKey look for a key that is not revoked, ...
Find(r, k, op, to) ==
  /\ Exists(k) /\ ~key[k].revoked
  /\ Start(r, [Idle EXCEPT !.pc = op, !.key = k, !.to = to])
  /\ UNCHANGED <<key, plan, Account, passed>>

\* ... and write the row by its id.  An update may turn the key on or off or move its expiry,
\* without a look at the limit.
Update(r) ==
  LET k == req[r].key
  IN /\ At(r, "update")
     /\ \/ /\ req[r].to \in {"on", "off"}
           /\ key' = [key EXCEPT ![k].isActive = (req[r].to = "on")]
        \/ /\ req[r].to = "extend"
           /\ key' = [key EXCEPT ![k].expired = FALSE]
     /\ req' = [(IF req[r].to = "on" THEN Outdated({"create"}) ELSE req) EXCEPT ![r] = Idle]
     /\ UNCHANGED <<plan, Account, made, passed>>

Rotate(r) ==
  /\ At(r, "rotate")
  /\ key' = [key EXCEPT ![req[r].key].secret = @ + 1]
  /\ End(r)
  /\ UNCHANGED <<plan, Account, made, passed>>

Revoke(r) ==
  /\ At(r, "revoke")
  /\ key' = [key EXCEPT ![req[r].key].isActive = FALSE, ![req[r].key].revoked = TRUE]
  /\ End(r)
  /\ UNCHANGED <<plan, Account, made, passed>>

-----------------------------------------------------------------------------
(* The account's own key                                                   *)

\* generateApiKey: the new hash replaces the old one.  A failing audit entry is only logged.
Generate ==
  /\ made < MaxRequests
  /\ made' = made + 1
  /\ account' = TRUE
  /\ UNCHANGED <<key, plan, usage, req, passed>>

RevokeAccountKey ==
  /\ made < MaxRequests
  /\ made' = made + 1
  /\ account' = FALSE
  /\ UNCHANGED <<key, plan, usage, req, passed>>

\* A call with the account's key: its secret is compared with a row read a hundred milliseconds
\* before.  A call with another secret is refused here, and one with the key of a local set-up is
\* let through before anything is looked up or counted.
Call(r) ==
  /\ account
  /\ Start(r, [Idle EXCEPT !.pc = "rate"])
  /\ UNCHANGED <<key, plan, Account, passed>>

\* Mutant of CheckRateLimit: a call is counted against the limit of calls that it exceeds.
CheckRateLimitLate(r) ==
  /\ At(r, "rate")
  /\ IF usage > MaxUsage THEN End(r) ELSE req' = [req EXCEPT ![r].pc = "track"]
  /\ UNCHANGED <<key, plan, Account, made, passed>>

\* checkRateLimit counts the calls of the window.
CheckRateLimit(r) ==
  /\ At(r, "rate")
  /\ IF usage >= MaxUsage THEN End(r) ELSE req' = [req EXCEPT ![r].pc = "track"]
  /\ UNCHANGED <<key, plan, Account, made, passed>>

\* trackApiUsage: a failure to store the call is swallowed, and the call goes on uncounted.
TrackUsage(r) ==
  /\ At(r, "track")
  /\ usage' \in {usage, usage + 1}
  /\ End(r)
  /\ UNCHANGED <<key, plan, account, made, passed>>

-----------------------------------------------------------------------------
(* Time, the subscription, and failures                                    *)

Pass == /\ passed < MaxEvents
        /\ passed' = passed + 1

ChangePlan(p) ==
  /\ p # plan
  /\ Pass
  /\ plan' = p
  /\ req' = Outdated({"count", "create"})
  /\ UNCHANGED <<key, Account, made>>

Expire(k) ==
  /\ Exists(k) /\ ~key[k].expired
  /\ Pass
  /\ key' = [key EXCEPT ![k].expired = TRUE]
  /\ UNCHANGED <<plan, Account, req, made>>

\* The oldest call leaves the window.
SlideWindow ==
  /\ usage > 0
  /\ Pass
  /\ usage' = usage - 1
  /\ UNCHANGED <<key, plan, account, req, made>>

\* A database call throws, or the process dies.
Fail(r) ==
  /\ req[r].pc # "idle"
  /\ Pass
  /\ End(r)
  /\ UNCHANGED <<key, plan, Account, made>>

-----------------------------------------------------------------------------

TokenNext == \E r \in Requests :
  \/ AskCreate(r) \/ Count(r) \/ Update(r) \/ Rotate(r) \/ Revoke(r)
  \/ \E k \in Keys : \/ Create(r, k)
                     \/ \E to \in Changes : Find(r, k, "update", to)
                     \/ \E op \in {"rotate", "revoke"} : Find(r, k, op, "on")

AccountNext == \/ Generate \/ RevokeAccountKey
               \/ \E r \in Requests : Call(r) \/ CheckRateLimit(r) \/ TrackUsage(r)

WorldNext == \/ \E p \in Plans : ChangePlan(p)
             \/ \E k \in Keys : Expire(k)
             \/ SlideWindow
             \/ \E r \in Requests : Fail(r)

Next == TokenNext \/ AccountNext \/ WorldNext

Spec == Init /\ [][Next]_vars

-----------------------------------------------------------------------------
(* Properties                                                              *)

\* A request that is to write a key of the table has found one: rows are never removed.
HasKey == \A r \in Requests : req[r].pc \in {"update", "rotate", "revoke"} =>
            req[r].key \in Keys /\ Exists(req[r].key)

TypeOK ==
  /\ key \in [Keys -> KeyRow]
  /\ plan \in Plans
  /\ account \in BOOLEAN
  /\ usage \in Nat
  /\ req \in [Requests -> Request]
  /\ made \in 0..MaxRequests
  /\ passed \in 0..MaxEvents
  /\ HasKey

\* The secrets of a key that was revoked or rotated are refused for good, though an update
\* may turn a revoked key on again and requests find a key before another one revokes it.
Secrets == Keys \X (1..MaxRequests)

Life == INSTANCE KeyLife WITH
          usable <- {s \in Secrets : Usable(s[1], s[2])},
          dead   <- {s \in Secrets : key[s[1]].revoked \/ s[2] < key[s[1]].secret}

KeepsLife == Life!Spec

\* A key beyond the tier's limit is one that was turned on again, or that a request created
\* which had read the limit and the count before another key or another plan came.
LimitKept ==
  [][\A k \in Keys : k \notin Counted /\ k \in Counted' /\ ~Within(Cardinality(Counted'), LimitOf[plan'])
       => \/ Exists(k)
          \/ \E r \in Requests : At(r, "create") /\ req[r].stale /\ req'[r].pc = "idle"]_vars

\* The calls of a window that were counted go past the limit by no more than the other calls
\* in flight: each of them looked at the count before the others stored theirs.
RateKept == usage <= MaxUsage + Cardinality(Requests) - 1
=============================================================================
