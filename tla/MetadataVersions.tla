-------------------------- MODULE MetadataVersions --------------------------
(***************************************************************************)
(* The versions of one project's custom metadata: rows of CustomMetadata,  *)
(* the copy of the latest in the project's own row, which every sync from  *)
(* GitHub writes as well, and the caches of the reads.  Each request is a  *)
(* chain of database and cache calls without a transaction; the unique key *)
(* of project and version is all that keeps two stores apart.              *)
(***************************************************************************)
EXTENDS Naturals, FiniteSets

CONSTANTS
  Requests,    \* HTTP requests in flight
  MaxVersion,  \* bound: version numbers
  MaxRequests, \* bound: requests and syncs made
  MaxFaults    \* bound: calls that throw

ASSUME MetadataAssumption == /\ IsFiniteSet(Requests) /\ Requests # {}
                             /\ MaxVersion \in Nat \ {0}
                             /\ MaxRequests \in Nat /\ MaxFaults \in Nat

VARIABLES
  rows,     \* the content of each version, 0 for no row
  current,  \* project.customMetadata, 0 for none or an empty one
  latest,   \* the cache entry of the latest version
  byNumber, \* the cache entries of the versions, 0 for none
  history,  \* the cache entry of the history's first page: the set of that page, or none
  req,      \* what each request is executing
  contents, \* how many contents were offered: the n-th request to store offers content n
  told,     \* how many stores were answered with each version
  removed,  \* how often each version was deleted
  dirty,    \* a request failed between its write and the clearing of the cache since the last one
  tidy,     \* the last to write was a request that ran alone, to its end, and wrote the newest version
  made, faults

vars == <<rows, current, latest, byNumber, history, req, contents, told, removed, dirty, tidy,
          made, faults>>

tables  == <<rows, current>>
caches  == <<latest, byNumber, history>>
answers == <<told, removed>>

-----------------------------------------------------------------------------
(* Data                                                                    *)

Versions == 1..MaxVersion
Contents == 0..MaxRequests
Rows     == [Versions -> Contents]

\* The custom part of the repository's Portfolio.md, which no request offers.
Portfolio == MaxRequests + 1

\* outdated tells that the rows changed between the query and the set that filled the entry.
NoEntry == [version |-> 0, content |-> 0, outdated |-> FALSE]
Entry   == [version : 0..MaxVersion, content : Contents, outdated : BOOLEAN]

Ops == {"none", "store", "delete", "get", "page"}
PCs == {"idle", "next", "create", "remove", "newest", "project", "clear", "query", "fill"}

\* alone tells that no other request wrote since this one began.
Request == [op : Ops, pc : PCs, version : 0..MaxVersion, content : Contents,
            found : Rows, outdated : BOOLEAN, alone : BOOLEAN]

Empty == [v \in Versions |-> 0]
Idle == [op |-> "none", pc |-> "idle", version |-> 0, content |-> 0, found |-> Empty,
         outdated |-> FALSE, alone |-> TRUE]

Newest(t) == IF \A v \in Versions : t[v] = 0 THEN 0
             ELSE CHOOSE v \in Versions : t[v] # 0 /\ \A w \in Versions : w > v => t[w] = 0

ContentOf(t, v) == IF v = 0 THEN 0 ELSE t[v]

\* A writer that has changed the rows and not yet cleared the cache.
HalfDone == {"newest", "project", "clear"}

-----------------------------------------------------------------------------
(* Comparing two versions                                                  *)

\* diffMetadata, on objects as functions from their fields; 'in' also finds the names that
\* every object inherits.
In(f, o, Inherited) == f \in DOMAIN o \cup Inherited

Diff(old, new, Inherited) ==
  [added    |-> [f \in {g \in DOMAIN new : ~In(g, old, Inherited)} |-> new[f]],
   modified |-> [f \in {g \in DOMAIN new : In(g, old, Inherited)
                                           /\ (g \in DOMAIN old => old[g] # new[g])} |-> new[f]],
   removed  |-> {f \in DOMAIN old : ~In(f, new, Inherited)}]

\* The old object with the reported changes made.
Patch(old, d) ==
  [f \in (DOMAIN old \ d.removed) \cup DOMAIN d.added \cup DOMAIN d.modified |->
     IF f \in DOMAIN d.added THEN d.added[f]
     ELSE IF f \in DOMAIN d.modified THEN d.modified[f] ELSE old[f]]

-----------------------------------------------------------------------------
(* Helpers                                                                 *)

Init ==
  /\ rows = Empty
  /\ current = 0
  /\ latest = NoEntry
  /\ byNumber = Empty
  /\ history = {}
  /\ req = [r \in Requests |-> Idle]
  /\ contents = 0
  /\ told = [v \in Versions |-> 0]
  /\ removed = [v \in Versions |-> 0]
  /\ dirty = FALSE
  /\ tidy = TRUE
  /\ made = 0
  /\ faults = 0

Start(r, x) ==
  /\ req[r].pc = "idle"
  /\ made < MaxRequests
  /\ made' = made + 1
  /\ req' = [req EXCEPT ![r] = x]

At(r, op, pc) == req[r].op = op /\ req[r].pc = pc
End(r) == req' = [req EXCEPT ![r] = Idle]

\* A step of r writes: the others are no longer alone, and if it is the rows that change,
\* what they have read of them is outdated.
Wrote(r, x, rowsChange) ==
  req' = [q \in Requests |-> IF q = r THEN x
                             ELSE IF req[q].pc = "idle" THEN Idle
                             ELSE [req[q] EXCEPT !.outdated = (@ \/ rowsChange), !.alone = FALSE]]

-----------------------------------------------------------------------------
(* Storing and deleting                                                    *)

\* storeCustomMetadata, with a version of the caller's or, for 0, the next one.
Store(r, v) ==
  /\ Start(r, [Idle EXCEPT !.op = "store", !.pc = IF v = 0 THEN "next" ELSE "create",
                           !.version = v, !.content = contents + 1])
  /\ contents' = contents + 1
  /\ UNCHANGED <<tables, caches, answers, dirty, tidy, faults>>

\* Mutant of ReadNext: the first number without a row, below the latest.
ReadNextDown(r) ==
  /\ At(r, "store", "next")
  /\ req' = [req EXCEPT ![r].version = Newest(rows) - 1, ![r].pc = "create"]
  /\ UNCHANGED <<tables, caches, contents, answers, dirty, tidy, made, faults>>

ReadNext(r) ==
  /\ At(r, "store", "next")
  /\ Newest(rows) < MaxVersion
  /\ req' = [req EXCEPT ![r].version = Newest(rows) + 1, ![r].pc = "create"]
  /\ UNCHANGED <<tables, caches, contents, answers, dirty, tidy, made, faults>>

\* Mutant of Create: an upsert.
CreateUpserting(r) ==
  /\ At(r, "store", "create")
  /\ rows' = [rows EXCEPT ![req[r].version] = req[r].content]
  /\ Wrote(r, [req[r] EXCEPT !.pc = "project"], TRUE)
  /\ tidy' = FALSE
  /\ UNCHANGED <<current, caches, contents, answers, dirty, made, faults>>

\* The unique key refuses a version that exists, and the request fails.
Create(r) ==
  LET v == req[r].version
  IN /\ At(r, "store", "create")
     /\ IF rows[v] # 0
          THEN End(r) /\ UNCHANGED <<rows, tidy>>
          ELSE /\ rows' = [rows EXCEPT ![v] = req[r].content]
               /\ Wrote(r, [req[r] EXCEPT !.pc = "project"], TRUE)
               /\ tidy' = FALSE
     /\ UNCHANGED <<current, caches, contents, answers, dirty, made, faults>>

\* Mutant of UpdateProject: the cache is cleared only by a store.
UpdateProjectEnding(r) ==
  /\ req[r].op \in {"store", "delete"} /\ req[r].pc = "project"
  /\ current' = req[r].content
  /\ Wrote(r, IF req[r].op = "store" THEN [req[r] EXCEPT !.pc = "clear"] ELSE Idle, FALSE)
  /\ tidy' = FALSE
  /\ UNCHANGED <<rows, caches, contents, answers, dirty, made, faults>>

\* The project's copy is the content just stored, whatever its version.
UpdateProject(r) ==
  /\ req[r].op \in {"store", "delete"} /\ req[r].pc = "project"
  /\ current' = req[r].content
  /\ Wrote(r, [req[r] EXCEPT !.pc = "clear"], FALSE)
  /\ tidy' = FALSE
  /\ UNCHANGED <<rows, caches, contents, answers, dirty, made, faults>>

\* clearMetadataCache deletes the entry of the latest version, and a key with an asterisk that
\* is no entry's; the request is answered.
ClearCache(r) ==
  /\ req[r].op \in {"store", "delete"} /\ req[r].pc = "clear"
  /\ latest' = NoEntry
  /\ dirty' = FALSE
  /\ tidy' = (req[r].alone /\ (req[r].op = "store" => req[r].version = Newest(rows)))
  /\ told' = IF req[r].op = "store" THEN [told EXCEPT ![req[r].version] = @ + 1] ELSE told
  /\ End(r)
  /\ UNCHANGED <<tables, byNumber, history, contents, removed, made, faults>>

\* deleteMetadataVersion, by the project's owner.
Delete(r, v) ==
  /\ Start(r, [Idle EXCEPT !.op = "delete", !.pc = "remove", !.version = v])
  /\ UNCHANGED <<tables, caches, contents, answers, dirty, tidy, faults>>

Remove(r) ==
  LET v == req[r].version
  IN /\ At(r, "delete", "remove")
     /\ IF rows[v] = 0
          THEN End(r) /\ UNCHANGED <<rows, removed, tidy>>
          ELSE /\ rows' = [rows EXCEPT ![v] = 0]
               /\ removed' = [removed EXCEPT ![v] = @ + 1]
               /\ Wrote(r, [req[r] EXCEPT !.pc = "newest"], TRUE)
               /\ tidy' = FALSE
     /\ UNCHANGED <<current, caches, contents, told, dirty, made, faults>>

\* Mutant of ReadNewest: the version below the deleted one is taken for the latest.
ReadNewestBelow(r) ==
  /\ At(r, "delete", "newest")
  /\ req' = [req EXCEPT ![r].content = ContentOf(rows, req[r].version - 1), ![r].pc = "project"]
  /\ UNCHANGED <<tables, caches, contents, answers, dirty, tidy, made, faults>>

ReadNewest(r) ==
  /\ At(r, "delete", "newest")
  /\ req' = [req EXCEPT ![r].content = ContentOf(rows, Newest(rows)), ![r].pc = "project"]
  /\ UNCHANGED <<tables, caches, contents, answers, dirty, tidy, made, faults>>

-----------------------------------------------------------------------------
(* Reading                                                                 *)

\* getCustomMetadata, of a version or, for 0, the latest: the cache does not have it.
Get(r, v) ==
  /\ IF v = 0 THEN latest = NoEntry ELSE byNumber[v] = 0
  /\ Start(r, [Idle EXCEPT !.op = "get", !.pc = "query", !.version = v])
  /\ UNCHANGED <<tables, caches, contents, answers, dirty, tidy, faults>>

\* getMetadataHistory, likewise.
GetPage(r) ==
  /\ history = {}
  /\ Start(r, [Idle EXCEPT !.op = "page", !.pc = "query"])
  /\ UNCHANGED <<tables, caches, contents, answers, dirty, tidy, faults>>

\* What is found is cached; nothing is, without a row.
Query(r) ==
  /\ req[r].pc = "query"
  /\ LET v == IF req[r].version = 0 THEN Newest(rows) ELSE req[r].version
     IN IF req[r].op = "get" /\ ContentOf(rows, v) = 0
          THEN End(r)
          ELSE req' = [req EXCEPT ![r].pc = "fill", ![r].outdated = FALSE, ![r].found = rows]
  /\ UNCHANGED <<tables, caches, contents, answers, dirty, tidy, made, faults>>

Fill(r) ==
  LET x == req[r]
  IN /\ x.pc = "fill"
     /\ \/ /\ x.op = "get" /\ x.version = 0
           /\ latest' = [version |-> Newest(x.found), content |-> ContentOf(x.found, Newest(x.found)),
                         outdated |-> x.outdated]
           /\ UNCHANGED <<byNumber, history>>
        \/ /\ x.op = "get" /\ x.version # 0
           /\ byNumber' = [byNumber EXCEPT ![x.version] = x.found[x.version]]
           /\ UNCHANGED <<latest, history>>
        \/ /\ x.op = "page"
           /\ history' = {x.found}
           /\ UNCHANGED <<latest, byNumber>>
     /\ End(r)
     /\ UNCHANGED <<tables, contents, answers, dirty, tidy, made, faults>>

-----------------------------------------------------------------------------
(* The sync from GitHub                                                    *)

\* syncProjectFromGitHub writes the project's row, the copy included: the custom part of the
\* Portfolio.md, or an empty object.  A request that has yet to write the copy writes over it.
Sync(c) ==
  /\ made < MaxRequests
  /\ made' = made + 1
  /\ current' = c
  /\ tidy' = FALSE
  /\ req' = [q \in Requests |-> IF req[q].pc = "clear" THEN [req[q] EXCEPT !.alone = FALSE] ELSE req[q]]
  /\ UNCHANGED <<rows, caches, contents, answers, dirty, faults>>

-----------------------------------------------------------------------------
(* Expiry and failures                                                     *)

ExpireLatest  == /\ latest # NoEntry
                 /\ latest' = NoEntry
                 /\ UNCHANGED <<tables, byNumber, history, req, contents, answers, dirty, tidy, made, faults>>
ExpireNumber(v) == /\ byNumber[v] # 0
                   /\ byNumber' = [byNumber EXCEPT ![v] = 0]
                   /\ UNCHANGED <<tables, latest, history, req, contents, answers, dirty, tidy, made, faults>>
\* Mutant of ExpireHistory: the page is kept until it is cleared.
ExpireHistoryNever == FALSE /\ UNCHANGED vars

ExpireHistory == /\ history # {}
                 /\ history' = {}
                 /\ UNCHANGED <<tables, latest, byNumber, req, contents, answers, dirty, tidy, made, faults>>

\* A call throws, or the process dies.
Fail(r) ==
  /\ req[r].pc # "idle"
  /\ faults < MaxFaults
  /\ faults' = faults + 1
  /\ dirty' = (dirty \/ req[r].pc \in HalfDone)
  /\ End(r)
  /\ UNCHANGED <<tables, caches, contents, answers, tidy, made>>

-----------------------------------------------------------------------------

Work(r) == \/ ReadNext(r) \/ Create(r) \/ UpdateProject(r) \/ ClearCache(r)
           \/ Remove(r) \/ ReadNewest(r) \/ Query(r) \/ Fill(r)

Expire == ExpireLatest \/ ExpireHistory \/ \E v \in Versions : ExpireNumber(v)

Next == \/ \E r \in Requests : \/ \E v \in 0..MaxVersion : Store(r, v) \/ Get(r, v)
                               \/ \E v \in Versions : Delete(r, v)
                               \/ GetPage(r)
                               \/ Work(r) \/ Fail(r)
        \/ Expire
        \/ \E c \in {0, Portfolio} : Sync(c)

Spec == Init /\ [][Next]_vars

\* A request that has begun goes on, and a cache entry, set with a TTL, expires.
Fairness == /\ \A r \in Requests : WF_vars(Work(r))
            /\ WF_vars(ExpireLatest) /\ WF_vars(ExpireHistory)
            /\ \A v \in Versions : WF_vars(ExpireNumber(v))

FairSpec == Spec /\ Fairness

-----------------------------------------------------------------------------
(* Properties                                                              *)

TypeOK ==
  /\ rows \in Rows
  /\ current \in Contents \cup {Portfolio}
  /\ latest \in Entry
  /\ byNumber \in Rows
  /\ history \in SUBSET Rows /\ Cardinality(history) <= 1
  /\ req \in [Requests -> Request]
  /\ contents \in 0..made
  /\ told \in [Versions -> Nat]
  /\ removed \in [Versions -> Nat]
  /\ dirty \in BOOLEAN /\ tidy \in BOOLEAN
  /\ made \in 0..MaxRequests
  /\ faults \in 0..MaxFaults

\* However many stores compute the same number, one is told that it has it, until a deletion
\* frees the number for the next.
VersionToldOnce == \A v \in Versions : told[v] <= removed[v] + 1

\* A change that runs alone and writes the newest version leaves the project's copy with the
\* latest version's content, whatever overlapping, half-done or lower-numbered changes and syncs
\* had left there; it stays so until the next sync replaces it by what Portfolio.md says.
CurrentIsLatest == tidy => current = ContentOf(rows, Newest(rows))

LatestIsTrue == latest.version = Newest(rows) /\ latest.content = ContentOf(rows, Newest(rows))

\* The cached latest version is the latest, unless the rows changed while the entry was being
\* filled, a change is under way, or one failed before it cleared the cache.
LatestIsFresh ==
  /\ latest # NoEntry /\ ~latest.outdated /\ ~dirty
  /\ \A r \in Requests : req[r].pc \notin HalfDone
  => LatestIsTrue

\* In the end the caches serve what is stored, entries that no change clears included.
CachesConverge == <>[](/\ latest # NoEntry => LatestIsTrue
                       /\ \A v \in Versions : byNumber[v] # 0 => byNumber[v] = rows[v]
                       /\ history \subseteq {rows})
=============================================================================
