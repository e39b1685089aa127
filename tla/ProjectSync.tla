---------------------------- MODULE ProjectSync ----------------------------
(***************************************************************************)
(* Synchronising one user's projects with their GitHub repositories.       *)
(*                                                                         *)
(* ProjectsService.syncProjectFromGitHub is run by the worker of the queue *)
(* 'sync' and, past the queue, by the legacy GitHub webhook and by the     *)
(* webhook pipeline.  syncAllReposForUser (endpoint, cron, OAuth) writes   *)
(* placeholders and queues one job per repository, under a job id made of  *)
(* user and repository: BullMQ ignores an add while a job of that id       *)
(* exists, in whatever state.  Readers fill two caches from the table.     *)
(*                                                                         *)
(* The content of a project is the number of the push it was read at:      *)
(* everything Portfolio.md decides (title, markdown, published, ...).  The *)
(* user is the one WEBHOOK_USER_ID names: for any other, no call goes past *)
(* the queue.                                                              *)
(***************************************************************************)
EXTENDS Integers, FiniteSets

CONSTANTS
  Repos,      \* the repositories of the user
  Excluded,   \* those whose Portfolio.md says blacklisted: true
  Slots,      \* the jobs the sync worker runs at once (SYNC_QUEUE_CONCURRENCY, 2)
  Callers,    \* direct calls: POST /webhook/github and WebhookSyncService
  Requests,   \* runs of syncAllReposForUser
  Readers,    \* GET requests for a project or for the list
  Instances,  \* the processes: each a set of the above that dies together
  Attempts,   \* attempts of a job: options.attempts || 3
  MaxStalled, \* maxStalledCount of the worker: 3
  Bounds      \* bounds on what the environment does: see Budget

Syncing == Slots \cup Callers
Runners == Syncing \cup Requests \cup Readers
NoOwner == "none"

\* What cannot be a push number: an empty Portfolio.md, no project, no cache entry, and a
\* private repository, which is listed with the user's token and fetched without any.
Blank     == -1
Absent    == -2
NotCached == -3
Hidden    == -4

Budget == [pushes : Nat, faults : Nat, stalls : Nat, direct : Nat, syncs : Nat, alls : Nat]

ASSUME RunnersAssumption == /\ NoOwner \notin Runners /\ Instances \subseteq SUBSET Runners
                            /\ Syncing \cap (Requests \cup Readers) = {}
                            /\ Requests \cap Readers = {} /\ Slots \cap Callers = {}
ASSUME BoundsAssumption  == /\ Attempts \in Nat \ {0} /\ MaxStalled \in Nat
                            /\ Bounds \in Budget /\ Repos # {} /\ Excluded \subseteq Repos

VARIABLES
  remote,     \* GitHub: the pushes each repository has seen, or Hidden
  row,        \* the table Project
  jobs,       \* the queue 'sync': the job of each repository's job id
  rowCache,   \* cache entry user:U:repo:R
  listCache,  \* cache entry user:U:projects
  toEnrich,   \* the repositories with a job on the queue 'ai-enrichment'
  run,        \* what each worker slot and request is executing
  skipped,    \* history: the repositories a sync left blank, their placeholder being fresh
  left        \* what remains of each bound

vars == <<remote, row, jobs, rowCache, listCache, toEnrich, run, skipped, left>>

-----------------------------------------------------------------------------
(* Data                                                                    *)

Contents == Nat \cup {Blank}
Views    == Contents \cup {Absent}

\* recent: syncedAt is less than 30 seconds ago.
Row == [exists : BOOLEAN, content : Contents, recent : BOOLEAN]

JobStates == {"none", "waiting", "delayed", "active", "completed", "failed"}
Live      == {"waiting", "delayed", "active"}
Job == [state : JobStates, made : Nat, stalled : Nat, owner : Runners \cup {NoOwner}]

PCs == {"idle", "fetch", "check", "upsert", "evict", "store", "settleOk", "settleErr",
        "place", "queue", "fillList", "fillRow"}

\* seen: the content a sync has fetched, then the one it returns.  overtaken: the row was
\* written since the fetch, or since the check.  todo: placeholders still to be written.
\* read: the rows a reader has read.
Run == [pc : PCs, repo : Repos, seen : Contents, overtaken : BOOLEAN,
        todo : SUBSET Repos, read : [Repos -> Views]]

IdleRun == [pc |-> "idle", repo |-> CHOOSE r \in Repos : TRUE, seen |-> Blank,
            overtaken |-> FALSE, todo |-> {}, read |-> [r \in Repos |-> Absent]]

NoJob  == [state |-> "none", made |-> 0, stalled |-> 0, owner |-> NoOwner]
NewJob == [NoJob EXCEPT !.state = "waiting"]

-----------------------------------------------------------------------------
(* Helpers                                                                 *)

Goto(w, pc) == run' = [run EXCEPT ![w].pc = pc]
Stop(w)     == run' = [run EXCEPT ![w] = IdleRun]

Spend(what) == /\ left[what] > 0
               /\ left' = [left EXCEPT ![what] = @ - 1]

\* A call to GitHub, the database or Redis that fails.
Fault == Spend("faults")

\* What a query returns of a repository.
ViewOf(r) == IF row[r].exists THEN row[r].content ELSE Absent

\* A run past its fetch, and before its write.
Pending(w, r) == run[w].pc \in {"check", "upsert"} /\ run[w].repo = r

\* The runs once the row of r is written: the pending ones are overtaken.
Overtaken(r) == [w \in Runners |-> IF Pending(w, r) THEN [run[w] EXCEPT !.overtaken = TRUE]
                                   ELSE run[w]]

\* Mutant of AddJob: without the job id, a second add puts a second job on the queue.
AddJobAnew(r) == jobs' = [jobs EXCEPT ![r] = NewJob]

\* SyncQueueService.addJob: the id is taken as long as its job exists.
AddJob(r) == jobs' = IF jobs[r].state = "none" THEN [jobs EXCEPT ![r] = NewJob] ELSE jobs

Init ==
  /\ remote \in [Repos -> {0, Hidden}]
  /\ row = [r \in Repos |-> [exists |-> FALSE, content |-> Blank, recent |-> FALSE]]
  /\ jobs = [r \in Repos |-> NoJob]
  /\ rowCache = [r \in Repos |-> NotCached]
  /\ listCache = [r \in Repos |-> NotCached]
  /\ toEnrich = {}
  /\ run = [w \in Runners |-> IdleRun]
  /\ skipped = {}
  /\ left = Bounds

-----------------------------------------------------------------------------
(* Requests                                                                *)

\* POST /projects/sync, and the GraphQL mutation.
RequestSync(r) ==
  /\ Spend("syncs")
  /\ AddJob(r)
  /\ UNCHANGED <<remote, row, rowCache, listCache, toEnrich, run, skipped>>

\* POST /webhook/github, and WebhookSyncService.syncFromGitHub.
StartDirect(w, r) ==
  /\ run[w].pc = "idle"
  /\ Spend("direct")
  /\ run' = [run EXCEPT ![w] = [IdleRun EXCEPT !.pc = "fetch", !.repo = r]]
  /\ UNCHANGED <<remote, row, jobs, rowCache, listCache, toEnrich, skipped>>

\* syncAllReposForUser has fetched the repositories.
StartAll(w) ==
  /\ run[w].pc = "idle"
  /\ Spend("alls")
  /\ run' = [run EXCEPT ![w] = [IdleRun EXCEPT !.pc = "place", !.todo = Repos]]
  /\ UNCHANGED <<remote, row, jobs, rowCache, listCache, toEnrich, skipped>>

\* The placeholder upsert; an error ends the whole loop.
Place(w) ==
  /\ run[w].pc = "place"
  /\ \/ \E r \in run[w].todo :
          /\ row' = [row EXCEPT ![r].exists = TRUE, ![r].recent = TRUE]
          /\ run' = [Overtaken(r) EXCEPT ![w] =
                       [@ EXCEPT !.pc = "queue", !.repo = r, !.todo = run[w].todo \ {r}]]
          /\ UNCHANGED left
     \/ Fault /\ Stop(w) /\ UNCHANGED row
  /\ UNCHANGED <<remote, jobs, rowCache, listCache, toEnrich, skipped>>

\* queueSyncProject, its error swallowed; the loop's end deletes a cache key nobody sets.
Queue(w) ==
  /\ run[w].pc = "queue"
  /\ \/ AddJob(run[w].repo) /\ UNCHANGED left
     \/ Fault /\ UNCHANGED jobs
  /\ IF run[w].todo = {} THEN Stop(w) ELSE Goto(w, "place")
  /\ UNCHANGED <<remote, row, rowCache, listCache, toEnrich, skipped>>

-----------------------------------------------------------------------------
(* The queue (BullMQ)                                                      *)

Holds(w, r) == jobs[r].state = "active" /\ jobs[r].owner = w

\* An idle slot is handed a job; a delayed one may fall due at any moment.
Take(w) ==
  /\ run[w].pc = "idle"
  /\ \E r \in Repos :
       /\ jobs[r].state \in {"waiting", "delayed"}
       /\ jobs' = [jobs EXCEPT ![r] = [@ EXCEPT !.state = "active", !.owner = w]]
       /\ run' = [run EXCEPT ![w] = [IdleRun EXCEPT !.pc = "fetch", !.repo = r]]
  /\ UNCHANGED <<remote, row, rowCache, listCache, toEnrich, skipped, left>>

Redelivered(job) ==
  [job EXCEPT !.state = IF job.stalled < MaxStalled THEN "waiting" ELSE "failed",
              !.stalled = @ + 1, !.owner = NoOwner]

Orphaned(r) == /\ jobs[r].state = "active"
               /\ ~(run[jobs[r].owner].pc # "idle" /\ run[jobs[r].owner].repo = r)

\* The lock of a job nobody executes any more runs out.
Recover(r) ==
  /\ Orphaned(r)
  /\ jobs' = [jobs EXCEPT ![r] = Redelivered(@)]
  /\ UNCHANGED <<remote, row, rowCache, listCache, toEnrich, run, skipped, left>>

\* The lock of a job still being executed runs out.
LoseLock(r) ==
  /\ jobs[r].state = "active" /\ ~Orphaned(r)
  /\ Spend("stalls")
  /\ jobs' = [jobs EXCEPT ![r] = Redelivered(@)]
  /\ UNCHANGED <<remote, row, rowCache, listCache, toEnrich, run, skipped>>

\* A process dies: its runs are forgotten, their jobs stay locked for a while.
Crash(I) ==
  /\ \E w \in I : run[w].pc # "idle"
  /\ Spend("stalls")
  /\ run' = [w \in Runners |-> IF w \in I THEN IdleRun ELSE run[w]]
  /\ UNCHANGED <<remote, row, jobs, rowCache, listCache, toEnrich, skipped>>

\* removeOnComplete and removeOnFail of the worker, and the nightly QueueCleanupService:
\* a finished job is removed once enough others have finished.
Forget(r) ==
  /\ jobs[r].state \in {"completed", "failed"}
  /\ jobs' = [jobs EXCEPT ![r] = NoJob]
  /\ UNCHANGED <<remote, row, rowCache, listCache, toEnrich, run, skipped, left>>

-----------------------------------------------------------------------------
(* ProjectsService.syncProjectFromGitHub, one action per await             *)

\* Repository, then Portfolio.md, both without credentials.  A failed repository request
\* fails the sync; any failure to get Portfolio.md, or to parse it, is noted and the sync
\* goes on without.
Fetch(w) ==
  /\ run[w].pc = "fetch"
  /\ \/ /\ remote[run[w].repo] # Hidden
        /\ run' = [run EXCEPT ![w] = [@ EXCEPT !.pc = "check", !.seen = remote[run[w].repo]]]
        /\ UNCHANGED left
     \/ /\ remote[run[w].repo] # Hidden
        /\ run' = [run EXCEPT ![w] = [@ EXCEPT !.pc = "check", !.seen = Blank]]
        /\ Fault
     \/ remote[run[w].repo] = Hidden /\ Goto(w, "settleErr") /\ UNCHANGED left
     \/ Fault /\ Goto(w, "settleErr")
  /\ UNCHANGED <<remote, row, jobs, rowCache, listCache, toEnrich, skipped>>

\* Mutant of Check: the 30-second test is dropped.
CheckAlways(w) ==
  /\ run[w].pc = "check"
  /\ run' = [run EXCEPT ![w] = [@ EXCEPT !.pc = "upsert", !.overtaken = FALSE]]
  /\ UNCHANGED <<remote, row, jobs, rowCache, listCache, toEnrich, skipped, left>>

\* Mutant of Check: whatever row there is is returned, fresh or not.
CheckAnyRow(w) ==
  /\ run[w].pc = "check"
  /\ LET there == row[run[w].repo]
     IN  /\ run' = [run EXCEPT ![w] = IF there.exists
                       THEN [@ EXCEPT !.pc = "evict", !.seen = there.content]
                       ELSE [@ EXCEPT !.pc = "upsert", !.overtaken = FALSE]]
         /\ skipped' = skipped \cup {r \in {run[w].repo} : there.recent /\ there.content = Blank}
  /\ UNCHANGED <<remote, row, jobs, rowCache, listCache, toEnrich, left>>

\* The transaction's first query: a row synced less than 30 seconds ago, or a placeholder
\* stamped so, is returned as it is.  (READ COMMITTED: other transactions may commit before
\* the upsert.)
Check(w) ==
  /\ run[w].pc = "check"
  /\ LET there == row[run[w].repo]
     IN  \/ /\ there.recent
            /\ run' = [run EXCEPT ![w] = [@ EXCEPT !.pc = "evict", !.seen = there.content]]
            /\ skipped' = IF there.content = Blank THEN skipped \cup {run[w].repo} ELSE skipped
            /\ UNCHANGED left
         \/ /\ ~there.recent
            /\ run' = [run EXCEPT ![w] = [@ EXCEPT !.pc = "upsert", !.overtaken = FALSE]]
            /\ UNCHANGED <<skipped, left>>
         \/ Fault /\ Goto(w, "settleErr") /\ UNCHANGED skipped
  /\ UNCHANGED <<remote, row, jobs, rowCache, listCache, toEnrich>>

\* The transaction's upsert and commit.
Upsert(w) ==
  /\ run[w].pc = "upsert"
  /\ LET r == run[w].repo
     IN  \/ /\ row' = [row EXCEPT ![r] = [exists |-> TRUE, content |-> run[w].seen,
                                          recent |-> TRUE]]
            /\ run' = [Overtaken(r) EXCEPT ![w].pc = "evict"]
            /\ UNCHANGED left
         \/ Fault /\ Goto(w, "settleErr") /\ UNCHANGED row
  /\ UNCHANGED <<remote, jobs, rowCache, listCache, toEnrich, skipped>>

\* cache.del of the project and of the list; errors are swallowed.
Evict(w) ==
  /\ run[w].pc = "evict"
  /\ \/ /\ rowCache' = [rowCache EXCEPT ![run[w].repo] = NotCached]
        /\ listCache' = [r \in Repos |-> NotCached]
        /\ Goto(w, "store")
        /\ UNCHANGED left
     \/ Fault /\ Goto(w, "settleOk") /\ UNCHANGED <<rowCache, listCache>>
  /\ UNCHANGED <<remote, row, jobs, toEnrich, skipped>>

\* cache.set of the project the transaction returned.
Store(w) ==
  /\ run[w].pc = "store"
  /\ Goto(w, "settleOk")
  /\ \/ rowCache' = [rowCache EXCEPT ![run[w].repo] = run[w].seen] /\ UNCHANGED left
     \/ Fault /\ UNCHANGED rowCache
  /\ UNCHANGED <<remote, row, jobs, listCache, toEnrich, skipped>>

\* A worker's attempt ends; BullMQ repeats a failed one while any attempt is left.
Finished(job, ok) ==
  [job EXCEPT !.made = @ + 1, !.owner = NoOwner,
              !.state = IF ok THEN "completed"
                        ELSE IF job.made + 1 < Attempts THEN "delayed"
                        ELSE "failed"]

\* Mutant of Settle: the error of a sync is caught and logged.
SettleSwallowing(w) ==
  /\ run[w].pc \in {"settleOk", "settleErr"}
  /\ Stop(w)
  /\ jobs' = IF Holds(w, run[w].repo)
             THEN [jobs EXCEPT ![run[w].repo] = Finished(@, TRUE)] ELSE jobs
  /\ UNCHANGED <<remote, row, rowCache, listCache, skipped, left, toEnrich>>

\* Mutant of Settle: a failed sync is queued anew, whatever attempts were made.
SettleAnew(w) ==
  /\ run[w].pc \in {"settleOk", "settleErr"}
  /\ Stop(w)
  /\ jobs' = IF Holds(w, run[w].repo)
             THEN [jobs EXCEPT ![run[w].repo] = IF run[w].pc = "settleOk" THEN Finished(@, TRUE)
                                                ELSE NewJob] ELSE jobs
  /\ UNCHANGED <<remote, row, rowCache, listCache, skipped, left, toEnrich>>

\* The project a sync returns is blacklisted once the Portfolio.md that says so was read.
Blacklisted(w) == run[w].repo \in Excluded /\ run[w].seen # Blank

\* On success the AI enrichment is queued (an error is swallowed) unless the project is
\* blacklisted, then the run returns; on failure it throws.
Settle(w) ==
  /\ run[w].pc \in {"settleOk", "settleErr"}
  /\ Stop(w)
  /\ jobs' = IF Holds(w, run[w].repo)
             THEN [jobs EXCEPT ![run[w].repo] = Finished(@, run[w].pc = "settleOk")]
             ELSE jobs
  /\ \/ /\ toEnrich' = toEnrich \cup {run[w].repo}
        /\ run[w].pc = "settleOk" /\ ~Blacklisted(w) /\ UNCHANGED left
     \/ run[w].pc = "settleOk" /\ ~Blacklisted(w) /\ Fault /\ UNCHANGED toEnrich
     \/ (run[w].pc = "settleErr" \/ Blacklisted(w)) /\ UNCHANGED <<toEnrich, left>>
  /\ UNCHANGED <<remote, row, rowCache, listCache, skipped>>

-----------------------------------------------------------------------------
(* Readers, caches and time                                                *)

\* getAllProjectsForUser: a miss, or a failing cache, reads the table.
ReadList(w) ==
  /\ run[w].pc = "idle"
  /\ \/ \E r \in Repos : listCache[r] = NotCached /\ UNCHANGED left
     \/ Fault
  /\ run' = [run EXCEPT ![w] = [IdleRun EXCEPT !.pc = "fillList",
                                               !.read = [r \in Repos |-> ViewOf(r)]]]
  /\ UNCHANGED <<remote, row, jobs, rowCache, listCache, toEnrich, skipped>>

FillList(w) ==
  /\ run[w].pc = "fillList"
  /\ listCache' = run[w].read
  /\ Stop(w)
  /\ UNCHANGED <<remote, row, jobs, rowCache, toEnrich, skipped, left>>

\* Mutant of ReadRow: null is cached for a project that does not exist.
ReadRowAlways(w, r) ==
  /\ run[w].pc = "idle"
  /\ rowCache[r] = NotCached
  /\ run' = [run EXCEPT ![w] = [IdleRun EXCEPT !.pc = "fillRow", !.repo = r, !.seen = ViewOf(r)]]
  /\ UNCHANGED <<remote, row, jobs, rowCache, listCache, toEnrich, skipped, left>>

\* getProjectByRepoUrl: only a project that exists is cached.
ReadRow(w, r) ==
  /\ run[w].pc = "idle"
  /\ rowCache[r] = NotCached /\ row[r].exists
  /\ run' = [run EXCEPT ![w] = [IdleRun EXCEPT !.pc = "fillRow", !.repo = r,
                                               !.seen = row[r].content]]
  /\ UNCHANGED <<remote, row, jobs, rowCache, listCache, toEnrich, skipped, left>>

FillRow(w) ==
  /\ run[w].pc = "fillRow"
  /\ rowCache' = [rowCache EXCEPT ![run[w].repo] = run[w].seen]
  /\ Stop(w)
  /\ UNCHANGED <<remote, row, jobs, listCache, toEnrich, skipped, left>>

\* Mutant of ExpireList: the list is cached without a time to live.
NoExpiry == FALSE /\ UNCHANGED vars

\* 5 minutes after the list was cached.
ExpireList ==
  /\ \E r \in Repos : listCache[r] # NotCached
  /\ listCache' = [r \in Repos |-> NotCached]
  /\ UNCHANGED <<remote, row, jobs, rowCache, toEnrich, run, skipped, left>>

\* The CacheModule's default time to live.
ExpireRow(r) ==
  /\ rowCache[r] # NotCached
  /\ rowCache' = [rowCache EXCEPT ![r] = NotCached]
  /\ UNCHANGED <<remote, row, jobs, listCache, toEnrich, run, skipped, left>>

\* 30 seconds since the row was synced.  ASSUMED: a sync reaches its check less than 30
\* seconds after it asked for Portfolio.md (a 15 s timeout, 5 s to begin a transaction),
\* so whoever was overtaken before its check still finds the row recent.
Age(r) ==
  /\ row[r].recent
  /\ \A w \in Syncing : run[w].pc = "check" /\ run[w].repo = r => ~run[w].overtaken
  /\ row' = [row EXCEPT ![r].recent = FALSE]
  /\ UNCHANGED <<remote, jobs, rowCache, listCache, toEnrich, run, skipped, left>>

\* A push changes Portfolio.md on GitHub.
Push(r) ==
  /\ remote[r] # Hidden
  /\ Spend("pushes")
  /\ remote' = [remote EXCEPT ![r] = @ + 1]
  /\ UNCHANGED <<row, jobs, rowCache, listCache, toEnrich, run, skipped>>

-----------------------------------------------------------------------------

SyncStep(w) == \/ Fetch(w) \/ Check(w) \/ Upsert(w) \/ Evict(w) \/ Store(w) \/ Settle(w)

Next ==
  \/ \E r \in Repos : RequestSync(r)
  \/ \E w \in Callers, r \in Repos : StartDirect(w, r)
  \/ \E w \in Requests : StartAll(w)
  \/ \E w \in Requests : Place(w)
  \/ \E w \in Requests : Queue(w)
  \/ \E w \in Slots : Take(w)
  \/ \E w \in Syncing : Fetch(w)
  \/ \E w \in Syncing : Check(w)
  \/ \E w \in Syncing : Upsert(w)
  \/ \E w \in Syncing : Evict(w)
  \/ \E w \in Syncing : Store(w)
  \/ \E w \in Syncing : Settle(w)
  \/ \E w \in Readers : ReadList(w)
  \/ \E w \in Readers : FillList(w)
  \/ \E w \in Readers, r \in Repos : ReadRow(w, r)
  \/ \E w \in Readers : FillRow(w)
  \/ \E I \in Instances : Crash(I)
  \/ \E r \in Repos : Recover(r)
  \/ \E r \in Repos : LoseLock(r)
  \/ \E r \in Repos : Forget(r)
  \/ ExpireList
  \/ \E r \in Repos : ExpireRow(r)
  \/ \E r \in Repos : Age(r)
  \/ \E r \in Repos : Push(r)

Spec == Init /\ [][Next]_vars

\* The event loop carries every started run on, a free slot takes a job, the stalled check
\* runs, entries expire and rows age.  No request, push, fault or removal is owed.
Fairness ==
  /\ \A w \in Syncing  : WF_vars(SyncStep(w))
  /\ \A w \in Requests : WF_vars(Place(w) \/ Queue(w))
  /\ \A w \in Readers  : WF_vars(FillList(w) \/ FillRow(w))
  /\ WF_vars(\E w \in Slots : Take(w))
  /\ \A r \in Repos    : WF_vars(Recover(r)) /\ WF_vars(ExpireRow(r)) /\ WF_vars(Age(r))
  /\ WF_vars(ExpireList)

FairSpec == Spec /\ Fairness

-----------------------------------------------------------------------------
(* Properties                                                              *)

\* Every variable keeps its shape.
TypeOK ==
  /\ remote \in [Repos -> Nat \cup {Hidden}]
  /\ row \in [Repos -> Row]
  /\ jobs \in [Repos -> Job]
  /\ rowCache \in [Repos -> Contents \cup {NotCached}]
  /\ listCache \in [Repos -> Views \cup {NotCached}]
  /\ toEnrich \subseteq Repos
  /\ run \in [Runners -> Run]
  /\ skipped \subseteq Repos
  /\ left \in Budget

Busy(w, r) == run[w].pc # "idle" /\ run[w].repo = r

\* While no process has died and no lock was lost, the worker runs a repository in one slot
\* at a time, however often its sync is asked for: the job id serialises the queue.
OneSlotPerRepo ==
  left.stalls = Bounds.stalls =>
    \A v, w \in Slots, r \in Repos : Busy(v, r) /\ Busy(w, r) => v = w

\* A sync job that completed has left a project, and so has one whose enrichment is queued,
\* whatever failed, crashed or was redelivered on the way.
CompletedMeansExists ==
  \A r \in Repos : jobs[r].state = "completed" \/ r \in toEnrich => row[r].exists

BackOnlyByOverlap ==
  \A r \in Repos :
    row'[r].content # Blank /\ row'[r].content < row[r].content =>
      \E w \in Syncing : /\ run[w].pc = "upsert" /\ run[w].repo = r /\ run[w].overtaken
                         /\ run'[w].pc = "evict"

\* "Prevent concurrent syncs within 30 seconds" (projects.service.ts:279): a sync puts an
\* older content over a newer one only when another write of the row committed between the
\* check and the upsert of its own transaction.  However late a fetch comes back, an overlap
\* outside the transactions is always caught by the check.
OnlyOverlapsGoBack == [][BackOnlyByOverlap]_vars

\* While faults and requests stay finite, the queue comes to rest.
SyncSettles == <>[](\A r \in Repos : jobs[r].state \notin Live)

\* A project has been filled in, or never will be: GitHub hides it, or a sync came upon its
\* placeholder in the 30 seconds after it was written, and left it blank.
Filled(r) == remote[r] = Hidden \/ row[r].content # Blank \/ r \in skipped

\* Somebody is about to see to a repository: its job, a direct call, or a sync-all that has
\* written its placeholder.
Attended(r) == \/ jobs[r].state \in Live
               \/ \E w \in Callers : Busy(w, r)
               \/ \E w \in Requests : run[w].pc = "queue" /\ run[w].repo = r

Unharmed == left.faults = Bounds.faults /\ left.stalls = Bounds.stalls

\* A sync-all has a project for every repository it is done with; and as long as no call
\* failed, no process died and no lock was lost, a project is blank with nobody about to fill
\* it in for one reason only, the 30-second rule applied to its placeholder: no add ignored
\* under a taken id, no job taken early and no call past the queue leaves it out.
NobodyIsLeftOut ==
  /\ \A w \in Requests, r \in Repos :
       run[w].pc \in {"place", "queue"} /\ r \notin run[w].todo => row[r].exists
  /\ Unharmed => \A r \in Repos : row[r].exists => Filled(r) \/ Attended(r)

\* "The background worker will later populate details or mark as blacklisted"
\* (projects.service.ts:735): a placeholder of a repository that can be fetched is filled in.
PlaceholdersFilled ==
  \A r \in Repos : row[r].exists /\ remote[r] # Hidden ~> row[r].content # Blank

\* A stale entry, left by a reader that raced a sync or by the placeholders, which no cache
\* key announces, does not outlive the writers: in the end the caches tell what the table does.
CachesConverge ==
  <>[](\A r \in Repos : /\ rowCache[r] \in {NotCached, row[r].content}
                        /\ listCache[r] \in {NotCached, ViewOf(r)})

=============================================================================
