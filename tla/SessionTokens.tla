--------------------------- MODULE SessionTokens ---------------------------
(***************************************************************************)
(* The sessions of one user: sign-in by password, OAuth or magic link,     *)
(* refreshing, logout, logout from all devices and the clean-up of expired *)
(* tokens, each a request of several database calls and no transaction.    *)
(*                                                                         *)
(* A session is a row of RefreshToken whose id is the jti of its refresh   *)
(* token.  A token is refused once its jti is in TokenBlacklist; a refresh *)
(* also needs the row, to read it and again to count its use.              *)
(***************************************************************************)
EXTENDS Naturals, FiniteSets

CONSTANTS
  Sessions,    \* the random jti values that sign-ins draw
  Links,       \* magic links mailed to the user
  Requests,    \* HTTP requests and cron runs in flight
  MaxPerUser,  \* MAX_REFRESH_TOKENS_PER_USER, 5
  NoLink,      \* not a link
  MaxRequests, \* bound: requests made
  MaxFaults,   \* bound: database calls that throw and processes that die
  MaxExpiries  \* bound: tokens that expire

ASSUME SessionsAssumption == /\ IsFiniteSet(Sessions) /\ Sessions # {} /\ NoLink \notin Links
                             /\ IsFiniteSet(Requests)
ASSUME LimitsAssumption   == /\ MaxPerUser \in Nat /\ MaxRequests \in Nat
                             /\ MaxFaults \in Nat /\ MaxExpiries \in Nat

VARIABLES
  rows,       \* the table RefreshToken: the refresh tokens with a row
  born,       \* createdAt: the order in which the rows were created, 0 for never
  granted,    \* usageCount: how often a session was refreshed
  blacklist,  \* the table TokenBlacklist: the tokens whose jti has a row
  link,       \* the table MagicLinkToken
  expired,    \* tokens past their exp
  issued,     \* tokens a response has carried to the user
  confirmed,  \* tokens a response has called revoked
  signIns,    \* how many sign-ins a link was answered with
  run,        \* what each request is executing
  left        \* what remains of each bound

vars == <<rows, born, granted, blacklist, link, expired, issued, confirmed, signIns, run, left>>

-----------------------------------------------------------------------------
(* Data                                                                    *)

\* n = 0 is the refresh token, 1 the access token signed with it, and so on.  Neither the
\* signature nor the hash is modelled: the tokens presented are those the user was given.
Token == [sess : Sessions, n : Nat]
RT(s)    == [sess |-> s, n |-> 0]
AT(s, n) == [sess |-> s, n |-> n]

RefreshTokens == {RT(s) : s \in Sessions}

LinkStates == {"sent", "expired", "gone"}

PCs == {"idle", "trimDelete", "store", "burn", "sweep", "find", "use", "drop",
        "collect", "bar", "dropAll", "cleanList", "answer"}
Ops == {"none", "login", "magic", "refresh", "logout", "revokeAll", "clean"}

Run == [op : Ops, pc : PCs, token : Token, link : Links \cup {NoLink},
        seen : SUBSET Token, todo : SUBSET Token, failed : BOOLEAN]

Budget == [requests : Nat, faults : Nat, expiries : Nat]

IdleRun == [op |-> "none", pc |-> "idle", token |-> RT(CHOOSE s \in Sessions : TRUE),
            link |-> NoLink, seen |-> {}, todo |-> {}, failed |-> FALSE]

-----------------------------------------------------------------------------
(* Helpers                                                                 *)

Spend(what) == /\ left[what] > 0
               /\ left' = [left EXCEPT ![what] = @ - 1]

\* A request is made, and performs what precedes its first wait.
Start(r, x) ==
  /\ run[r].pc = "idle"
  /\ Spend("requests")
  /\ run' = [run EXCEPT ![r] = x]

Goto(r, pc) == run' = [run EXCEPT ![r].pc = pc]
End(r)      == run' = [run EXCEPT ![r] = IdleRun]

Unborn(s) == born[s] = 0

\* randomBytes: a jti that nobody has drawn.
Fresh(s) == /\ Unborn(s)
            /\ \A r \in Requests : run[r].pc \in {"trimDelete", "store"} => run[r].token.sess # s

\* Mutant of Old: the oldest first.
OldFromTheTop == {t \in rows : Cardinality({u \in rows : born[u.sess] < born[t.sess]}) >= MaxPerUser}

\* findMany, newest first, skipping the number to keep.
Old == {t \in rows : Cardinality({u \in rows : born[u.sess] > born[t.sess]}) >= MaxPerUser}

Clock == Cardinality({s \in Sessions : ~Unborn(s)})

-----------------------------------------------------------------------------
(* Signing in                                                              *)

Init ==
  /\ rows = {}
  /\ born = [s \in Sessions |-> 0]
  /\ granted = [s \in Sessions |-> 0]
  /\ blacklist = {}
  /\ link = [l \in Links |-> "sent"]
  /\ expired = {}
  /\ issued = {}
  /\ confirmed = {}
  /\ signIns = [l \in Links |-> 0]
  /\ run = [r \in Requests |-> IdleRun]
  /\ left = [requests |-> MaxRequests, faults |-> MaxFaults, expiries |-> MaxExpiries]

\* generateTokenPair: cleanupOldRefreshTokens reads which rows are too many.
Login(r, s) ==
  /\ Fresh(s)
  /\ Start(r, [IdleRun EXCEPT !.op = "login", !.token = RT(s), !.todo = Old,
                              !.pc = IF Old = {} THEN "store" ELSE "trimDelete"])
  /\ UNCHANGED <<rows, born, granted, blacklist, link, expired, issued, confirmed, signIns>>

TrimDelete(r) ==
  /\ run[r].pc = "trimDelete"
  /\ rows' = rows \ run[r].todo
  /\ run' = [run EXCEPT ![r].pc = "store", ![r].todo = {}]
  /\ UNCHANGED <<born, granted, blacklist, link, expired, issued, confirmed, signIns, left>>

\* validateMagicLink finds the link among those that have not expired; no row is trimmed.
OpenLink(r, l, s) ==
  /\ link[l] = "sent"
  /\ Fresh(s)
  /\ Start(r, [IdleRun EXCEPT !.op = "magic", !.pc = "store", !.token = RT(s), !.link = l])
  /\ UNCHANGED <<rows, born, granted, blacklist, link, expired, issued, confirmed, signIns>>

\* storeRefreshToken of either service.
Store(r) ==
  /\ run[r].pc = "store"
  /\ rows' = rows \cup {run[r].token}
  /\ born' = [born EXCEPT ![run[r].token.sess] = Clock + 1]
  /\ Goto(r, IF run[r].op = "magic" THEN "burn" ELSE "answer")
  /\ UNCHANGED <<granted, blacklist, link, expired, issued, confirmed, signIns, left>>

\* Mutant of Burn: deleteMany, which does not mind finding nothing.
BurnAny(r) ==
  /\ run[r].pc = "burn"
  /\ link' = [link EXCEPT ![run[r].link] = "gone"]
  /\ Goto(r, "sweep")
  /\ UNCHANGED <<rows, born, granted, blacklist, expired, issued, confirmed, signIns, left>>

\* delete by id: it throws when the row is gone, and the sign-in fails.
Burn(r) ==
  /\ run[r].pc = "burn"
  /\ \/ /\ link[run[r].link] # "gone"
        /\ link' = [link EXCEPT ![run[r].link] = "gone"]
        /\ Goto(r, "sweep")
     \/ /\ link[run[r].link] = "gone"
        /\ End(r)
        /\ UNCHANGED link
  /\ UNCHANGED <<rows, born, granted, blacklist, expired, issued, confirmed, signIns, left>>

\* cleanupExpiredTokens: the links that expired at least a minute ago.
Swept(S) == link' = [l \in Links |-> IF l \in S THEN "gone" ELSE link[l]]
ExpiredLinks == {l \in Links : link[l] = "expired"}

Sweep(r) ==
  /\ run[r].pc = "sweep"
  /\ \E S \in SUBSET ExpiredLinks : Swept(S)
  /\ Goto(r, "answer")
  /\ UNCHANGED <<rows, born, granted, blacklist, expired, issued, confirmed, signIns, left>>

\* MagicLinkCleanupService, every five minutes.
SweepLinks ==
  /\ \E S \in SUBSET ExpiredLinks : S # {} /\ Swept(S)
  /\ UNCHANGED <<rows, born, granted, blacklist, expired, issued, confirmed, signIns, run, left>>

-----------------------------------------------------------------------------
(* Refreshing                                                              *)

\* refreshAccessToken: validateToken verifies the token and reads the blacklist.
Refresh(r, t) ==
  /\ t \in issued /\ t.n = 0
  /\ t \notin expired /\ t \notin blacklist
  /\ Start(r, [IdleRun EXCEPT !.op = "refresh", !.pc = "find", !.token = t])
  /\ UNCHANGED <<rows, born, granted, blacklist, link, expired, issued, confirmed, signIns>>

Find(r) ==
  /\ run[r].pc = "find"
  /\ IF run[r].token \in rows \ expired THEN Goto(r, "use") ELSE End(r)
  /\ UNCHANGED <<rows, born, granted, blacklist, link, expired, issued, confirmed, signIns, left>>

\* Mutants of Use: updateMany, which does not mind finding nothing; counting down.
UseAny(r) ==
  /\ run[r].pc = "use"
  /\ LET s == run[r].token.sess
     IN  /\ granted' = [granted EXCEPT ![s] = @ + 1]
         /\ run' = [run EXCEPT ![r].pc = "answer", ![r].token = AT(s, granted[s] + 2)]
  /\ UNCHANGED <<rows, born, blacklist, link, expired, issued, confirmed, signIns, left>>

UseCountingDown(r) ==
  /\ run[r].pc = "use"
  /\ run[r].token \in rows
  /\ LET s == run[r].token.sess
     IN  /\ granted' = [granted EXCEPT ![s] = @ - 1]
         /\ run' = [run EXCEPT ![r].pc = "answer", ![r].token = AT(s, granted[s] + 2)]
  /\ UNCHANGED <<rows, born, blacklist, link, expired, issued, confirmed, signIns, left>>

\* The access token is signed, then the row updated: update throws when the row is gone.
Use(r) ==
  /\ run[r].pc = "use"
  /\ \/ /\ run[r].token \in rows
        /\ LET s == run[r].token.sess
           IN  /\ granted' = [granted EXCEPT ![s] = @ + 1]
               /\ run' = [run EXCEPT ![r].pc = "answer", ![r].token = AT(s, granted[s] + 2)]
     \/ /\ run[r].token \notin rows
        /\ End(r)
        /\ UNCHANGED granted
  /\ UNCHANGED <<rows, born, blacklist, link, expired, issued, confirmed, signIns, left>>

-----------------------------------------------------------------------------
(* Revoking                                                                *)

\* blacklistToken decodes without verifying, and creates the entry; a second one throws.
Logout(r, t) ==
  /\ t \in issued
  /\ t \notin blacklist
  /\ blacklist' = blacklist \cup {t}
  /\ Start(r, [IdleRun EXCEPT !.op = "logout", !.token = t,
                              !.pc = IF t.n = 0 THEN "drop" ELSE "answer"])
  /\ UNCHANGED <<rows, born, granted, link, expired, issued, confirmed, signIns>>

Drop(r) ==
  /\ run[r].pc = "drop"
  /\ rows' = rows \ {run[r].token}
  /\ Goto(r, "answer")
  /\ UNCHANGED <<born, granted, blacklist, link, expired, issued, confirmed, signIns, left>>

\* POST token/revoke-all behind EnhancedJwtGuard: a valid access token that is not revoked.
RevokeAll(r, t) ==
  /\ t \in issued /\ t.n # 0
  /\ t \notin expired /\ t \notin blacklist
  /\ Start(r, [IdleRun EXCEPT !.op = "revokeAll", !.pc = "collect", !.token = t])
  /\ UNCHANGED <<rows, born, granted, blacklist, link, expired, issued, confirmed, signIns>>

Collect(r) ==
  /\ run[r].pc = "collect"
  /\ run' = [run EXCEPT ![r].pc = "bar", ![r].seen = rows \ expired, ![r].todo = rows \ expired]
  /\ UNCHANGED <<rows, born, granted, blacklist, link, expired, issued, confirmed, signIns, left>>

\* Mutant of Bar: one create after the other, the first failure being the last.
BarInTurn(r) ==
  /\ run[r].pc = "bar"
  /\ \E t \in run[r].todo :
       \/ /\ t \notin blacklist
          /\ blacklist' = blacklist \cup {t}
          /\ run' = [run EXCEPT ![r].todo = @ \ {t}]
       \/ /\ t \in blacklist
          /\ run' = [run EXCEPT ![r].todo = {}, ![r].failed = TRUE]
          /\ UNCHANGED blacklist
  /\ UNCHANGED <<rows, born, granted, link, expired, issued, confirmed, signIns, left>>

\* Promise.all over creates that were all begun: each goes on whatever becomes of the
\* others, and throws when the jti is listed already.
Bar(r) ==
  /\ run[r].pc = "bar"
  /\ \E t \in run[r].todo :
       \/ /\ t \notin blacklist
          /\ blacklist' = blacklist \cup {t}
          /\ run' = [run EXCEPT ![r].todo = @ \ {t}]
          /\ UNCHANGED left
       \/ /\ t \in blacklist
          /\ run' = [run EXCEPT ![r].todo = @ \ {t}, ![r].failed = TRUE]
          /\ UNCHANGED <<blacklist, left>>
       \/ /\ Spend("faults")
          /\ run' = [run EXCEPT ![r].todo = @ \ {t}, ![r].failed = TRUE]
          /\ UNCHANGED blacklist
  /\ UNCHANGED <<rows, born, granted, link, expired, issued, confirmed, signIns>>

\* All the creates are done.  (One failure rejects the promise at once, but an error answers
\* nothing, so that the request may as well end here.)
Barred(r) ==
  /\ run[r].pc = "bar" /\ run[r].todo = {}
  /\ IF run[r].failed THEN End(r) ELSE Goto(r, "dropAll")
  /\ UNCHANGED <<rows, born, granted, blacklist, link, expired, issued, confirmed, signIns, left>>

\* deleteMany by user: also the rows stored since they were collected.
DropAll(r) ==
  /\ run[r].pc = "dropAll"
  /\ rows' = {}
  /\ Goto(r, "answer")
  /\ UNCHANGED <<born, granted, blacklist, link, expired, issued, confirmed, signIns, left>>

-----------------------------------------------------------------------------
(* Clean-up, answers and failures                                          *)

\* cleanupExpiredTokens, hourly or asked for: both deletions go by the time it began.
Clean(r) ==
  /\ rows' = rows \ expired
  /\ Start(r, [IdleRun EXCEPT !.op = "clean", !.pc = "cleanList", !.seen = expired])
  /\ UNCHANGED <<born, granted, blacklist, link, expired, issued, confirmed, signIns>>

\* Mutant of CleanList: every entry but those just expired.
CleanListInverted(r) ==
  /\ run[r].pc = "cleanList"
  /\ blacklist' = blacklist \cap run[r].seen
  /\ End(r)
  /\ UNCHANGED <<rows, born, granted, link, expired, issued, confirmed, signIns, left>>

CleanList(r) ==
  /\ run[r].pc = "cleanList"
  /\ blacklist' = blacklist \ run[r].seen
  /\ End(r)
  /\ UNCHANGED <<rows, born, granted, link, expired, issued, confirmed, signIns, left>>

\* The response.  The access token of a magic link has no jti: nothing accepts or revokes it.
Answer(r) ==
  /\ run[r].pc = "answer"
  /\ LET t == run[r].token
     IN  /\ issued' = issued \cup (CASE run[r].op = "login" -> {t, AT(t.sess, 1)}
                                     [] run[r].op \in {"magic", "refresh"} -> {t}
                                     [] OTHER -> {})
         /\ confirmed' = confirmed \cup (CASE run[r].op = "logout" -> {t}
                                           [] run[r].op = "revokeAll" -> run[r].seen
                                           [] OTHER -> {})
         /\ signIns' = IF run[r].op = "magic"
                       THEN [signIns EXCEPT ![run[r].link] = @ + 1] ELSE signIns
  /\ End(r)
  /\ UNCHANGED <<rows, born, granted, blacklist, link, expired, left>>

\* A database call throws, or the process dies, between any two steps.
Abort(r) ==
  /\ run[r].pc # "idle"
  /\ Spend("faults")
  /\ End(r)
  /\ UNCHANGED <<rows, born, granted, blacklist, link, expired, issued, confirmed, signIns>>

Expire(t) ==
  /\ t \notin expired
  /\ Spend("expiries")
  /\ expired' = expired \cup {t}
  /\ UNCHANGED <<rows, born, granted, blacklist, link, issued, confirmed, signIns, run>>

ExpireLink(l) ==
  /\ link[l] = "sent"
  /\ Spend("expiries")
  /\ link' = [link EXCEPT ![l] = "expired"]
  /\ UNCHANGED <<rows, born, granted, blacklist, expired, issued, confirmed, signIns, run>>

-----------------------------------------------------------------------------
(* Specification                                                           *)

Next ==
  \/ \E r \in Requests, s \in Sessions : Login(r, s) \/ \E l \in Links : OpenLink(r, l, s)
  \/ \E r \in Requests, t \in issued : Refresh(r, t) \/ Logout(r, t) \/ RevokeAll(r, t)
  \/ \E r \in Requests :
       \/ TrimDelete(r) \/ Store(r) \/ Burn(r) \/ Sweep(r)
       \/ Find(r) \/ Use(r) \/ Drop(r)
       \/ Collect(r) \/ Bar(r) \/ Barred(r) \/ DropAll(r)
       \/ Clean(r) \/ CleanList(r) \/ Answer(r) \/ Abort(r)
  \/ \E t \in rows \cup issued : Expire(t)
  \/ \E l \in Links : ExpireLink(l)
  \/ SweepLinks

Spec == Init /\ [][Next]_vars

-----------------------------------------------------------------------------
(* Properties                                                              *)

\* Every variable has the shape of what it stands for.
TypeOK ==
  /\ rows \subseteq Token
  /\ born \in [Sessions -> Nat]
  /\ granted \in [Sessions -> Nat]
  /\ blacklist \subseteq Token
  /\ link \in [Links -> LinkStates]
  /\ expired \subseteq Token
  /\ issued \subseteq Token
  /\ confirmed \subseteq Token
  /\ signIns \in [Links -> Nat]
  /\ run \in [Requests -> Run]
  /\ left \in Budget

\* A token called revoked, by a logout or by one from all devices, stays in the blacklist
\* until its age alone refuses it: however revocations fail and however clean-ups overlap.
ConfirmedStayListed == confirmed \subseteq blacklist \cup expired

\* While no call fails by itself, a logout from all devices lists every session it
\* collected, also when it is itself rejected because another revocation listed one first.
RejectedStillBars ==
  left.faults = MaxFaults =>
    \A r \in Requests :
      run[r].pc = "bar" => run[r].seen \ run[r].todo \subseteq blacklist \cup expired

\* A session about to be trimmed is older than MaxPerUser others: the most recent sessions
\* survive a login, whatever was stored or deleted since it looked.
OnlyOldTrimmed ==
  \A r \in Requests : run[r].pc = "trimDelete" =>
    \A t \in run[r].todo :
      Cardinality({s \in Sessions : born[s] > born[t.sess]}) >= MaxPerUser

\* Sign-ins that trim before they store leave the user one row too many for each request that
\* may be in flight, and no more: however they overlap, and whatever fails between their look
\* and their deletion.  (A magic link's stores without a look, hence the condition.)
FewSessions == Links = {} => Cardinality(rows) <= MaxPerUser + Cardinality(Requests)

\* A session is open while its row exists.
LifeState == [s \in Sessions |-> IF Unborn(s) THEN "none"
                                 ELSE IF RT(s) \in rows THEN "open" ELSE "closed"]

Life == INSTANCE SessionLife
          WITH state <- LifeState, confirmed <- {s \in Sessions : RT(s) \in confirmed}

\* The requests together keep the promises of SessionLife: no step of any interleaving lets
\* a closed session earn a token, come back, or be called revoked early, nor lets a link
\* sign in twice.
KeepsLife == Life!Spec
=============================================================================
