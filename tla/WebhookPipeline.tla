-------------------------- MODULE WebhookPipeline --------------------------
(***************************************************************************)
(* From a stored webhook event to a synchronised project.                  *)
(*                                                                         *)
(* WebhooksModule registers TWO WorkerHosts on the one BullMQ queue        *)
(* 'webhook': WebhookWorkerService, which reads a job as an event to       *)
(* process, and WebhookSyncWorkerService, which reads the job's payload as *)
(* a sync request.  Neither looks at the job's name, so each may be handed *)
(* every job.  A sync request is itself a job of that queue, and a failed  *)
(* event both schedules a retry job and makes BullMQ repeat the attempt.   *)
(*                                                                         *)
(* BullMQ (external) is modelled by what the workers rely on: jobs ordered *)
(* by priority NUMBER, attempts counted at the failure, a lock held while  *)
(* the job is active, a job whose lock ran out redelivered once.           *)
(***************************************************************************)
EXTENDS Integers, Sequences, FiniteSets

CONSTANTS
  Events,        \* rows of WebhookEvent that may be stored
  Kind,          \* Events -> {"push", "gitlabPush", "star"}: platform and type
  Handlers,      \* instances of WebhookWorkerService (concurrency 1 each)
  Syncers,       \* instances of WebhookSyncWorkerService (concurrency 1 each)
  Operators,     \* requests in POST /webhooks/events/:eventId/retry
  Instances,     \* the processes: each a set of the above that dies together
  MaxRetries,    \* WEBHOOK_MAX_RETRIES, 3 unless configured
  Attempts,      \* BullMQ attempts of an addJob job: options.maxRetries || 3
  MaxDeliveries, \* bound: deliveries the platforms make
  MaxFaults,     \* bound: database or Redis calls that fail, workers that crash and locks lost
  MaxManual      \* bound: operator retries

NoOwner == "none"
Runners == Handlers \cup Syncers \cup Operators
Kinds == {"push", "gitlabPush", "star"}

ASSUME KindAssumption    == Kind \in [Events -> Kinds] /\ Events # {}
ASSUME RunnersAssumption == /\ NoOwner \notin Runners
                            /\ Handlers \cap Syncers = {}
                            /\ Operators \cap (Handlers \cup Syncers) = {}
                            /\ Instances \subseteq SUBSET Runners
                            /\ IsFiniteSet(Runners)
ASSUME BoundsAssumption  == /\ MaxRetries \in Nat /\ Attempts \in Nat \ {0}
                            /\ MaxDeliveries \in Nat /\ MaxFaults \in Nat
                            /\ MaxManual \in Nat

VARIABLES
  jobs,     \* the queue 'webhook': every job ever added, by insertion order
  events,   \* the table WebhookEvent
  synced,   \* the events whose repository ProjectsService has synchronised
  run,      \* what each worker or request is executing
  left      \* what remains of each bound

vars == <<jobs, events, synced, run, left>>

-----------------------------------------------------------------------------
(* Data                                                                    *)

\* A job's data.  payload = "raw": the platform's body; "sync": SyncJobData.
JobData == [event : Events, retryCount : Nat, payload : {"raw", "sync"}]

JobStates == {"delayed", "waiting", "active", "completed", "failed"}
Live      == {"delayed", "waiting", "active"}

Job == [data : JobData, priority : Nat, attempts : Nat,
        state : JobStates, made : Nat, stalled : Nat, owner : Runners \cup {NoOwner}]

EventRow == [stored : BOOLEAN, processed : BOOLEAN, error : BOOLEAN, retryCount : Nat]

PCs == {"idle", "increment", "load", "process", "markOk", "markErr", "catch",
        "schedule", "sync", "settleOk", "settleErr"}

\* job = 0: an operator's run, which settles no job.
Run == [pc : PCs, job : Nat, data : JobData]

Budget == [deliveries : Nat, faults : Nat, manual : Nat]

NoData  == [event |-> CHOOSE e \in Events : TRUE, retryCount |-> 0, payload |-> "raw"]
IdleRun == [pc |-> "idle", job |-> 0, data |-> NoData]

\* shouldTriggerSync and the processors' branch tests: a push to main of either platform.
NeedsSync(e) == Kind[e] # "star"

\* buildJobOptions over getPriorityValue: low 1, normal 5, high 10.
PriorityValue(level) == CASE level = "low" -> 1 [] level = "normal" -> 5 [] level = "high" -> 10

\* getEventPriority: 'push' is high, 'Push Hook' (GitLab's name for it) is not listed.
EventPriority(e) == CASE Kind[e] = "push" -> "high"
                      [] Kind[e] = "gitlabPush" -> "normal"
                      [] Kind[e] = "star" -> "low"

NewJob(data, priority, attempts, state) ==
  [data |-> data, priority |-> priority, attempts |-> attempts, state |-> state,
   made |-> 0, stalled |-> 0, owner |-> NoOwner]

ProcessJob(e) ==
  NewJob([event |-> e, retryCount |-> 0, payload |-> "raw"],
         PriorityValue(EventPriority(e)), Attempts, "waiting")

\* queueSyncOperation: the same queue, the same event id, determinePriority = 'high' on main.
SyncJob(e) ==
  NewJob([event |-> e, retryCount |-> 0, payload |-> "sync"],
         PriorityValue("high"), Attempts, "waiting")

\* Mutants of RetryJob: the count is not advanced, or taken down.
RetryJobNotCounted(data) == NewJob(data, 0, 1, "delayed")
RetryJobCountedDown(data) == NewJob([data EXCEPT !.retryCount = @ - 1], 0, 1, "delayed")

\* addRetryJob: the data of the failed job, one more retry, attempts 1, no priority.
RetryJob(data) ==
  NewJob([data EXCEPT !.retryCount = @ + 1], 0, 1, "delayed")

-----------------------------------------------------------------------------
(* Helpers                                                                 *)

Ids == 1 .. Len(jobs)

Goto(w, pc) == run' = [run EXCEPT ![w].pc = pc]

Spend(what) == /\ left[what] > 0
               /\ left' = [left EXCEPT ![what] = @ - 1]

\* A call to the database or to Redis that throws.
Fault == Spend("faults")

\* The worker still owns the job's lock.
Holds(w) == /\ run[w].job \in Ids
            /\ jobs[run[w].job].state = "active"
            /\ jobs[run[w].job].owner = w

MarkProcessed(e, ok) ==
  events' = [events EXCEPT ![e].processed = ok, ![e].error = ~ok]

\* BullMQ hands out the job with the lowest priority NUMBER (0 = none first).  A delayed
\* job may fall due at any moment, and before that it holds back nobody.
Waiting == {j \in Ids : jobs[j].state = "waiting"}
Delayed == {j \in Ids : jobs[j].state = "delayed"}
NextUp  == {j \in Waiting \cup Delayed :
              \A k \in Waiting : jobs[j].priority <= jobs[k].priority}

-----------------------------------------------------------------------------
(* Init and the HTTP side                                                  *)

Init ==
  /\ jobs = << >>
  /\ events = [e \in Events |-> [stored |-> FALSE, processed |-> FALSE,
                                 error |-> FALSE, retryCount |-> 0]]
  /\ synced = {}
  /\ run = [w \in Runners |-> IdleRun]
  /\ left = [deliveries |-> MaxDeliveries, faults |-> MaxFaults,
             manual |-> MaxManual]

\* queueWebhook: storeEvent, then addJob; when addJob throws, the row stays and the platform
\* is answered 500.  A redelivery finds its row (e is stored) or makes one of its own (another
\* e): the lookup may come before the other's create, may fail, looks at one arbitrary row of
\* the last five minutes, and compares texts of which jsonb has reordered one.
Deliver(e) ==
  /\ left.deliveries > 0
  /\ events' = [events EXCEPT ![e].stored = TRUE]
  /\ \/ /\ jobs' = Append(jobs, ProcessJob(e))
        /\ left' = [left EXCEPT !.deliveries = @ - 1]
     \/ /\ left.faults > 0
        /\ left' = [left EXCEPT !.deliveries = @ - 1, !.faults = @ - 1]
        /\ UNCHANGED jobs
  /\ UNCHANGED <<synced, run>>

\* retryWebhook: getEvent; the retry count of the row as read, plus one.
ManualRetry(w, e) ==
  /\ run[w].pc = "idle"
  /\ events[e].stored
  /\ Spend("manual")
  /\ run' = [run EXCEPT ![w] =
       [pc |-> "increment", job |-> 0,
        data |-> [event |-> e, retryCount |-> events[e].retryCount + 1, payload |-> "raw"]]]
  /\ UNCHANGED <<jobs, events, synced>>

\* incrementRetryCount; a database error ends the request.
Increment(w) ==
  /\ run[w].pc = "increment"
  /\ \/ /\ events' = [events EXCEPT ![run[w].data.event].retryCount = @ + 1]
        /\ Goto(w, "load")
        /\ UNCHANGED left
     \/ Fault /\ Goto(w, "settleErr") /\ UNCHANGED events
  /\ UNCHANGED <<jobs, synced>>

-----------------------------------------------------------------------------
(* The queue (BullMQ)                                                      *)

Take(w, pc) ==
  /\ run[w].pc = "idle"
  /\ \E j \in NextUp :
       /\ jobs' = [jobs EXCEPT ![j] = [@ EXCEPT !.state = "active", !.owner = w]]
       /\ run' = [run EXCEPT ![w] = [pc |-> pc, job |-> j, data |-> jobs[j].data]]
  /\ UNCHANGED <<events, synced, left>>

\* The stalled check: redelivered once (maxStalledCount 1), then failed.
Redelivered(job) ==
  IF job.stalled < 1
  THEN [job EXCEPT !.state = "waiting", !.stalled = @ + 1, !.owner = NoOwner]
  ELSE [job EXCEPT !.state = "failed", !.stalled = @ + 1, !.owner = NoOwner]

Orphaned(j) == jobs[j].state = "active" /\ run[jobs[j].owner].job # j

\* The lock of a job nobody executes any more runs out.
Recover(j) ==
  /\ Orphaned(j)
  /\ jobs' = [jobs EXCEPT ![j] = Redelivered(@)]
  /\ UNCHANGED <<events, synced, run, left>>

\* The lock of a job still being executed runs out (renewal missed).
LoseLock(j) ==
  /\ jobs[j].state = "active" /\ ~Orphaned(j)
  /\ Fault
  /\ jobs' = [jobs EXCEPT ![j] = Redelivered(@)]
  /\ UNCHANGED <<events, synced, run>>

\* A process dies: its runs are forgotten, their jobs stay locked for a while.
Crash(I) ==
  /\ \E w \in I : run[w].pc # "idle"
  /\ Fault
  /\ run' = [w \in Runners |-> IF w \in I THEN IdleRun ELSE run[w]]
  /\ UNCHANGED <<jobs, events, synced>>

-----------------------------------------------------------------------------
(* WebhookHandlerService.processWebhook, one action per await              *)

\* Mutant of Load: an event already processed is refused by an error.
LoadRefusing(w) ==
  /\ run[w].pc = "load"
  /\ \/ Goto(w, IF events[run[w].data.event].processed THEN "catch" ELSE "process")
        /\ UNCHANGED left
     \/ Fault /\ Goto(w, "catch")
  /\ UNCHANGED <<jobs, events, synced>>

\* getEvent and the 'already processed' return.
Load(w) ==
  /\ run[w].pc = "load"
  /\ \/ events[run[w].data.event].processed /\ Goto(w, "settleOk") /\ UNCHANGED left
     \/ ~events[run[w].data.event].processed /\ Goto(w, "process") /\ UNCHANGED left
     \/ Fault /\ Goto(w, "catch")
  /\ UNCHANGED <<jobs, events, synced>>

\* Mutant of Process: an error of addJob is reported as success.
ProcessSwallowingErrors(w) ==
  /\ run[w].pc = "process"
  /\ \/ /\ ~NeedsSync(run[w].data.event)
        /\ Goto(w, "markOk")
        /\ UNCHANGED <<jobs, left>>
     \/ /\ NeedsSync(run[w].data.event)
        /\ jobs' = Append(jobs, SyncJob(run[w].data.event))
        /\ Goto(w, "markOk")
        /\ UNCHANGED left
     \/ /\ NeedsSync(run[w].data.event)
        /\ Fault /\ Goto(w, "markOk")
        /\ UNCHANGED jobs
  /\ UNCHANGED <<events, synced>>

\* WebhookProcessorService.process: a push to main queues a sync job, the rest is
\* acknowledged; an error of addJob comes back as success = false.
Process(w) ==
  /\ run[w].pc = "process"
  /\ \/ /\ ~NeedsSync(run[w].data.event)
        /\ Goto(w, "markOk")
        /\ UNCHANGED <<jobs, left>>
     \/ /\ NeedsSync(run[w].data.event)
        /\ jobs' = Append(jobs, SyncJob(run[w].data.event))
        /\ Goto(w, "markOk")
        /\ UNCHANGED left
     \/ /\ NeedsSync(run[w].data.event)
        /\ Fault /\ Goto(w, "markErr")
        /\ UNCHANGED jobs
  /\ UNCHANGED <<events, synced>>

\* markAsProcessed(id, result.success, result.error); on failure with retries left,
\* scheduleRetry comes next.
Mark(w) ==
  /\ run[w].pc \in {"markOk", "markErr"}
  /\ \/ /\ MarkProcessed(run[w].data.event, run[w].pc = "markOk")
        /\ Goto(w, IF run[w].pc = "markOk" THEN "settleOk"
                   ELSE IF run[w].data.retryCount < MaxRetries THEN "schedule"
                   ELSE "settleErr")
        /\ UNCHANGED left
     \/ Fault /\ Goto(w, "catch") /\ UNCHANGED events
  /\ UNCHANGED <<jobs, synced>>

\* The catch block: markAsProcessed(id, false, message); no retry is scheduled.
Catch(w) ==
  /\ run[w].pc = "catch"
  /\ Goto(w, "settleErr")
  /\ \/ MarkProcessed(run[w].data.event, FALSE) /\ UNCHANGED left
     \/ Fault /\ UNCHANGED events
  /\ UNCHANGED <<jobs, synced>>

\* scheduleRetry: an error of addRetryJob is logged and swallowed.
Schedule(w) ==
  /\ run[w].pc = "schedule"
  /\ Goto(w, "settleErr")
  /\ \/ jobs' = Append(jobs, RetryJob(run[w].data)) /\ UNCHANGED left
     \/ Fault /\ UNCHANGED jobs
  /\ UNCHANGED <<events, synced>>

-----------------------------------------------------------------------------
(* WebhookSyncService.executeSyncOperation                                 *)

\* Mutant of CanSync: the payload is read as a sync request whatever it is.
CanSyncAny(data) == Kind[data.event] = "push"

\* The body of a platform's webhook has no 'platform' field ("Unsupported platform:
\* undefined"); GitLab and Bitbucket throw "not yet implemented".
CanSync(data) == data.payload = "sync" /\ Kind[data.event] = "push"

\* Mutant of ExecuteSync: a job that is not a sync request is put back, no attempt spent.
ExecuteSyncPuttingBack(w) ==
  /\ run[w].pc = "sync"
  /\ \/ /\ run[w].data.payload = "raw" /\ Holds(w)
        /\ jobs' = [jobs EXCEPT ![run[w].job].state = "waiting", ![run[w].job].owner = NoOwner]
        /\ run' = [run EXCEPT ![w] = IdleRun]
        /\ UNCHANGED synced
     \/ /\ run[w].data.payload = "sync"
        /\ synced' = synced \cup {run[w].data.event}
        /\ Goto(w, "settleOk")
        /\ UNCHANGED jobs
  /\ UNCHANGED <<events, left>>

ExecuteSync(w) ==
  /\ run[w].pc = "sync"
  /\ \/ /\ CanSync(run[w].data)
        /\ synced' = synced \cup {run[w].data.event}
        /\ Goto(w, "settleOk")
        /\ UNCHANGED left
     \/ /\ ~CanSync(run[w].data)
        /\ Goto(w, "settleErr")
        /\ UNCHANGED <<synced, left>>
     \/ /\ CanSync(run[w].data)
        /\ Fault /\ Goto(w, "settleErr")
        /\ UNCHANGED synced
  /\ UNCHANGED <<jobs, events>>

-----------------------------------------------------------------------------
(* The end of a run                                                        *)

\* process() returns, or throws so that BullMQ repeats the attempt while any is left.
Finished(job, ok) ==
  [job EXCEPT !.made = @ + 1, !.owner = NoOwner,
              !.state = IF ok THEN "completed"
                        ELSE IF job.made + 1 < job.attempts THEN "delayed"
                        ELSE "failed"]

Settle(w) ==
  /\ run[w].pc \in {"settleOk", "settleErr"}
  /\ run' = [run EXCEPT ![w] = IdleRun]
  /\ jobs' = IF Holds(w)
             THEN [jobs EXCEPT ![run[w].job] = Finished(@, run[w].pc = "settleOk")]
             ELSE jobs
  /\ UNCHANGED <<events, synced, left>>

-----------------------------------------------------------------------------

RunStep(w) == \/ Increment(w) \/ Load(w) \/ Process(w) \/ Mark(w) \/ Catch(w)
              \/ Schedule(w) \/ ExecuteSync(w) \/ Settle(w)

Next ==
  \/ \E e \in Events : Deliver(e)
  \/ \E w \in Operators, e \in Events : ManualRetry(w, e)
  \/ \E w \in Handlers : Take(w, "load")
  \/ \E w \in Syncers : Take(w, "sync")
  \/ \E w \in Runners : Increment(w)
  \/ \E w \in Runners : Load(w)
  \/ \E w \in Runners : Process(w)
  \/ \E w \in Runners : Mark(w)
  \/ \E w \in Runners : Catch(w)
  \/ \E w \in Runners : Schedule(w)
  \/ \E w \in Runners : ExecuteSync(w)
  \/ \E w \in Runners : Settle(w)
  \/ \E I \in Instances : Crash(I)
  \/ \E j \in Ids : Recover(j)
  \/ \E j \in Ids : LoseLock(j)

Spec == Init /\ [][Next]_vars

\* The event loop runs every started handler on; idle workers poll; BullMQ's
\* stalled check runs.  Nothing obliges platforms, operators or faults to act.
Fairness ==
  /\ \A w \in Runners  : WF_vars(RunStep(w))
  /\ \A w \in Handlers : WF_vars(Take(w, "load"))
  /\ \A w \in Syncers  : WF_vars(Take(w, "sync"))
  /\ WF_vars(\E j \in Ids : Recover(j))

FairSpec == Spec /\ Fairness

-----------------------------------------------------------------------------
(* Properties                                                              *)

\* Every variable keeps its shape.
TypeOK ==
  /\ jobs \in Seq(Job)
  /\ events \in [Events -> EventRow]
  /\ synced \subseteq Events
  /\ run \in [Runners -> Run]
  /\ left \in Budget

\* A sync request of e was put on the queue.
SyncQueued(e) == \E j \in Ids : jobs[j].data.event = e /\ jobs[j].data.payload = "sync"

\* An event whose payload asks for a synchronisation is never marked processed before
\* its sync request is on the queue: processWebhook marks only what the processor has
\* handed over, whatever is retried, redelivered, crashes or runs twice.
SyncQueuedBeforeProcessed ==
  \A e \in Events : events[e].processed /\ NeedsSync(e) => SyncQueued(e)

\* The project is synchronised only for an event that was stored and asks for it, and
\* only through a sync request of that event.
SyncedOnlyOnRequest ==
  \A e \in synced : Kind[e] = "push" /\ events[e].stored /\ SyncQueued(e)

\* How often a job was handed to a worker, and every time any job of J was.
Runs(job) == job.made + job.stalled + (IF job.state = "active" THEN 1 ELSE 0)
Starts(J) == UNION {{j} \X (1 .. Runs(jobs[j])) : j \in J}

JobsAbout(e)     == {j \in Ids : jobs[j].data.event = e}
JobsOf(e, retry) == {j \in JobsAbout(e) : jobs[j].data.retryCount = retry}
SyncRequests(e)  == {j \in JobsOf(e, 0) : jobs[j].data.payload = "sync"}
Delivered == {j \in Ids : jobs[j].data.payload = "raw" /\ jobs[j].data.retryCount = 0}

\* Every job has a cause of its own: the jobs on no retry that carry a platform's body are
\* no more than the deliveries, the sync requests of an event no more than the runs of its
\* jobs plus the operator's retries, the jobs on their k-th retry no more than the runs of
\* those on the one before plus the operator's retries, and none goes past MaxRetries.
\* (BullMQ's attempts and the handler's own retries multiply, but nothing else does.)
EveryJobHasACause ==
  /\ Cardinality(Delivered) <= MaxDeliveries - left.deliveries
  /\ \A e \in Events :
       Cardinality(SyncRequests(e))
         <= Cardinality(Starts(JobsAbout(e))) + events[e].retryCount
  /\ \A e \in Events, k \in 1 .. MaxRetries :
       Cardinality(JobsOf(e, k))
         <= Cardinality(Starts(JobsOf(e, k - 1))) + events[e].retryCount
  /\ \A j \in Ids : jobs[j].data.retryCount <= MaxRetries

\* What an event's row says of it.
LifeState == [e \in Events |-> IF ~events[e].stored THEN "absent"
                               ELSE IF events[e].processed THEN "processed"
                               ELSE IF events[e].error THEN "failed" ELSE "pending"]

\* The runs that will call their event failed, unless they die or fail once more.
Broken == {w \in Runners : run[w].pc \in {"markErr", "catch"}}

Life == INSTANCE EventLife WITH
          Asking    <- {e \in Events : NeedsSync(e)},
          Syncable  <- {e \in Events : Kind[e] = "push"},
          Agents    <- Runners,
          state     <- LifeState,
          requested <- {e \in Events : SyncQueued(e)},
          broken    <- {<<w, run[w].data.event>> : w \in Broken},
          faults    <- MaxFaults - left.faults

\* The jobs, retries and redeliveries of an event together keep the promises of EventLife:
\* no step of any interleaving calls an event processed before its sync request is queued,
\* synchronises what nobody asked for, or calls an event failed, also one that another run
\* has processed, without a call that failed for it.
KeepsLife == Life!Spec

\* While faults stay finite the queue comes to rest: retries, BullMQ attempts, sync
\* requests read as events and redeliveries do not feed one another for ever.
QueueDrains == <>[](\A j \in Ids : jobs[j].state \notin Live)

\* "Use the webhook queue for sync operations" (webhook-sync.service.ts:283): once the
\* push event is marked processed, its repository is synchronised.
ProcessedPushIsSynced ==
  \A e \in Events : (Kind[e] = "push" /\ events[e].processed) ~> e \in synced
=============================================================================
