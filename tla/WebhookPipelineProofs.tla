----------------------- MODULE WebhookPipelineProofs -----------------------
(* Theorems about WebhookPipeline, for every value of its constants.       *)
EXTENDS WebhookPipeline, SequenceTheorems, FiniteSetTheorems, FunctionTheorems, TLAPS

-----------------------------------------------------------------------------
(* How the queue may change                                                *)

\* Jobs are never removed and never change their data.
DataKept ==
  /\ Len(jobs) <= Len(jobs')
  /\ \A j \in 1 .. Len(jobs) : jobs'[j].data = jobs[j].data

\* Adding a job keeps the queue well formed and the data of the others.
LEMMA AddedJob ==
  ASSUME jobs \in Seq(Job), NEW x \in Job, jobs' = Append(jobs, x)
  PROVE  /\ jobs' \in Seq(Job)
         /\ DataKept
         /\ Len(jobs') = Len(jobs) + 1
         /\ jobs'[Len(jobs) + 1] = x
  BY AppendProperties DEF DataKept

\* So does replacing a job by one of the same data.
LEMMA ReplacedJob ==
  ASSUME jobs \in Seq(Job), NEW j \in 1 .. Len(jobs), NEW x \in Job,
         x.data = jobs[j].data, jobs' = [jobs EXCEPT ![j] = x]
  PROVE  /\ jobs' \in Seq(Job)
         /\ DataKept
         /\ Len(jobs') = Len(jobs)
  BY ExceptSeq DEF DataKept

\* A queue left alone is a queue, and keeps every job's data.
LEMMA UnchangedJobs ==
  ASSUME jobs \in Seq(Job), jobs' = jobs
  PROVE  jobs' \in Seq(Job) /\ DataKept
  BY LenProperties DEF DataKept

\* A new job of well-formed data is a job.
LEMMA NewJobType ==
  ASSUME NEW data \in JobData, NEW p \in Nat, NEW a \in Nat, NEW st \in JobStates
  PROVE  NewJob(data, p, a, st) \in Job /\ NewJob(data, p, a, st).data = data
  BY DEF NewJob, Job

\* Every priority level has a number (webhook-queue.service.ts: getPriorityValue).
LEMMA PriorityType ==
  /\ PriorityValue("high") \in Nat
  /\ \A e \in Events : PriorityValue(EventPriority(e)) \in Nat
  BY KindAssumption DEF PriorityValue, EventPriority, Kinds

\* The three kinds of job the code adds are jobs, about the event they are made for.
LEMMA NewJobs ==
  /\ \A e \in Events : ProcessJob(e) \in Job /\ ProcessJob(e).data.event = e
  /\ \A e \in Events : SyncJob(e) \in Job /\ SyncJob(e).data.event = e
                                          /\ SyncJob(e).data.payload = "sync"
  /\ \A d \in JobData : RetryJob(d) \in Job /\ RetryJob(d).data.event = d.event
                                            /\ RetryJob(d).data.payload = d.payload
  <1>1. ASSUME NEW e \in Events PROVE ProcessJob(e) \in Job /\ ProcessJob(e).data.event = e
    BY NewJobType, PriorityType, BoundsAssumption DEF ProcessJob, JobData, JobStates
  <1>2. ASSUME NEW e \in Events
        PROVE  SyncJob(e) \in Job /\ SyncJob(e).data.event = e /\ SyncJob(e).data.payload = "sync"
    BY NewJobType, PriorityType, BoundsAssumption DEF SyncJob, JobData, JobStates
  <1>3. ASSUME NEW d \in JobData
        PROVE  RetryJob(d) \in Job /\ RetryJob(d).data.event = d.event
                                   /\ RetryJob(d).data.payload = d.payload
    <2> DEFINE next == [d EXCEPT !.retryCount = @ + 1]
    <2>1. next \in JobData /\ next.event = d.event /\ next.payload = d.payload
      BY DEF JobData
    <2>2. RetryJob(d) = NewJob(next, 0, 1, "delayed")
      BY DEF RetryJob
    <2>3. "delayed" \in JobStates /\ 0 \in Nat /\ 1 \in Nat
      BY DEF JobStates
    <2> HIDE DEF next
    <2> QED
      BY <2>1, <2>2, <2>3, NewJobType
  <1> QED
    BY <1>1, <1>2, <1>3

\* A fault leaves the bounds well-formed.
LEMMA FaultType ==
  ASSUME left \in Budget, Fault
  PROVE  left' \in Budget
  BY DEF Fault, Spend, Budget

\* So does an operator's retry.
LEMMA SpendType ==
  ASSUME left \in Budget, Spend("manual")
  PROVE  left' \in Budget
  BY DEF Spend, Budget

\* A worker that executes nothing has a well-formed run.
LEMMA IdleRunType == IdleRun \in Run
  BY KindAssumption DEF IdleRun, NoData, Run, PCs, JobData

\* A run that goes on to its next await stays well-formed.
LEMMA GotoType ==
  ASSUME run \in [Runners -> Run], NEW w \in Runners, NEW pc \in PCs, Goto(w, pc)
  PROVE  run' \in [Runners -> Run]
  BY DEF Goto, Run

\* markAsProcessed leaves a row of WebhookEvent well-formed.
LEMMA MarkType ==
  ASSUME events \in [Events -> EventRow], NEW e \in Events, NEW ok \in BOOLEAN,
         MarkProcessed(e, ok)
  PROVE  events' \in [Events -> EventRow]
  BY DEF MarkProcessed, EventRow

\* Counting a retry keeps the type of the event rows.
LEMMA CountedType ==
  ASSUME events \in [Events -> EventRow], NEW e \in Events,
         events' = [events EXCEPT ![e].retryCount = @ + 1]
  PROVE  events' \in [Events -> EventRow]
  <1>1. events[e].retryCount + 1 \in Nat
    BY DEF EventRow
  <1>2. ASSUME NEW n \in Nat
        PROVE  [events EXCEPT ![e].retryCount = n] \in [Events -> EventRow]
    BY DEF EventRow
  <1> QED BY <1>1, <1>2

-----------------------------------------------------------------------------
(* Type correctness                                                        *)

\* A stalled job that is redelivered, or failed, keeps its data.
LEMMA RedeliveredType ==
  ASSUME NEW x \in Job
  PROVE  Redelivered(x) \in Job /\ Redelivered(x).data = x.data
  <1>1. x.stalled \in Nat /\ x.stalled + 1 \in Nat
    BY DEF Job
  <1>2. ASSUME NEW st \in JobStates, NEW n \in Nat
        PROVE  LET y == [x EXCEPT !.state = st, !.stalled = n, !.owner = NoOwner]
               IN  y \in Job /\ y.data = x.data
    BY DEF Job
  <1>3. "waiting" \in JobStates /\ "failed" \in JobStates
    BY DEF JobStates
  <1> QED
    BY <1>1, <1>2, <1>3 DEF Redelivered

\* A job whose attempt has ended keeps its data.
LEMMA FinishedType ==
  ASSUME NEW x \in Job, NEW ok \in BOOLEAN
  PROVE  Finished(x, ok) \in Job /\ Finished(x, ok).data = x.data
  <1>1. x.made + 1 \in Nat
    BY DEF Job
  <1>2. ASSUME NEW st \in JobStates, NEW n \in Nat
        PROVE  LET y == [x EXCEPT !.made = n, !.owner = NoOwner, !.state = st]
               IN  y \in Job /\ y.data = x.data
    BY DEF Job
  <1>3. (IF ok THEN "completed"
         ELSE IF x.made + 1 < x.attempts THEN "delayed" ELSE "failed") \in JobStates
    BY DEF JobStates
  <1> QED
    BY <1>1, <1>2, <1>3 DEF Finished

\* A job handed to a worker keeps its data.
LEMMA TakenType ==
  ASSUME NEW x \in Job, NEW w \in Runners
  PROVE  /\ [x EXCEPT !.state = "active", !.owner = w] \in Job
         /\ [x EXCEPT !.state = "active", !.owner = w].data = x.data
  BY DEF Job, JobStates

\* What an operation of a worker or a request may assume of its run.
LEMMA RunType ==
  ASSUME run \in [Runners -> Run], NEW w \in Runners
  PROVE  /\ run[w].data \in JobData /\ run[w].data.event \in Events
         /\ run[w].data.retryCount \in Nat
         /\ run[w].pc \in PCs /\ run[w].job \in Nat
  BY DEF Run, JobData

\* Every step keeps the types, and keeps every job's data.
LEMMA StepType ==
  ASSUME TypeOK, Next
  PROVE  TypeOK' /\ DataKept
  <1> USE DEF TypeOK
  <1>1. ASSUME NEW e \in Events, Deliver(e) PROVE TypeOK' /\ DataKept
    <2>1. events' \in [Events -> EventRow]
      BY <1>1 DEF Deliver, EventRow
    <2>2. left' \in Budget
      <3>1. left \in Budget /\ left.deliveries > 0
        BY <1>1 DEF Deliver
      <3>2. CASE left' = [left EXCEPT !.deliveries = @ - 1]
        BY <3>1, <3>2 DEF Budget
      <3>3. CASE /\ left.faults > 0
                 /\ left' = [left EXCEPT !.deliveries = @ - 1, !.faults = @ - 1]
        <4>1. ASSUME NEW m \in Nat, NEW n \in Nat
              PROVE  [left EXCEPT !.deliveries = m, !.faults = n] \in Budget
          BY <3>1 DEF Budget
        <4>2. left.deliveries - 1 \in Nat /\ left.faults - 1 \in Nat
          BY <3>1, <3>3 DEF Budget
        <4> QED BY <3>3, <4>1, <4>2
      <3> QED BY <1>1, <3>2, <3>3 DEF Deliver
    <2>3. jobs' \in Seq(Job) /\ DataKept
      BY <1>1, AddedJob, UnchangedJobs, NewJobs DEF Deliver
    <2> QED BY <1>1, <2>1, <2>2, <2>3 DEF Deliver
  <1>2. ASSUME NEW w \in Operators, NEW e \in Events, ManualRetry(w, e)
        PROVE  TypeOK' /\ DataKept
    <2>1. run' \in [Runners -> Run]
      BY <1>2 DEF ManualRetry, Run, JobData, PCs, EventRow, Runners
    <2> QED BY <1>2, <2>1, SpendType, UnchangedJobs DEF ManualRetry
  <1>3. ASSUME NEW w \in Runners, NEW pc \in PCs, Take(w, pc) PROVE TypeOK' /\ DataKept
    <2>1. PICK j \in Ids :
            /\ jobs' = [jobs EXCEPT ![j] = [@ EXCEPT !.state = "active", !.owner = w]]
            /\ run' = [run EXCEPT ![w] = [pc |-> pc, job |-> j, data |-> jobs[j].data]]
      BY <1>3 DEF Take, NextUp, Waiting, Delayed
    <2>2. jobs[j] \in Job
      BY ElementOfSeq, <2>1 DEF Ids
    <2>3. jobs' \in Seq(Job) /\ DataKept
      BY <2>1, <2>2, ReplacedJob, TakenType DEF Ids
    <2>4. run' \in [Runners -> Run]
      BY <2>1, <2>2 DEF Run, Job, Ids
    <2> QED BY <1>3, <2>3, <2>4 DEF Take
  <1>4. ASSUME NEW w \in Runners, Increment(w) PROVE TypeOK' /\ DataKept
    <2>1. "load" \in PCs /\ "settleErr" \in PCs
      BY DEF PCs
    <2>2. events' \in [Events -> EventRow]
      <3>1. run[w].data.event \in Events
        BY RunType
      <3>2. CASE events' = events
        BY <3>2
      <3>3. CASE events' = [events EXCEPT ![run[w].data.event].retryCount = @ + 1]
        BY <3>1, <3>3, CountedType
      <3> QED BY <1>4, <3>2, <3>3 DEF Increment
    <2> QED BY <1>4, <2>1, <2>2, GotoType, FaultType, UnchangedJobs DEF Increment
  <1>5. ASSUME NEW w \in Runners, Load(w) PROVE TypeOK' /\ DataKept
    <2>1. "settleOk" \in PCs /\ "process" \in PCs /\ "catch" \in PCs
      BY DEF PCs
    <2> QED BY <1>5, <2>1, GotoType, FaultType, UnchangedJobs DEF Load
  <1>6. ASSUME NEW w \in Runners, Process(w) PROVE TypeOK' /\ DataKept
    <2>1. "markOk" \in PCs /\ "markErr" \in PCs
      BY DEF PCs
    <2>2. run' \in [Runners -> Run] /\ left' \in Budget
      BY <1>6, <2>1, GotoType, FaultType DEF Process
    <2>3. jobs' \in Seq(Job) /\ DataKept
      BY <1>6, RunType, NewJobs, AddedJob, UnchangedJobs DEF Process
    <2> QED BY <1>6, <2>2, <2>3 DEF Process
  <1>7. ASSUME NEW w \in Runners, Mark(w) PROVE TypeOK' /\ DataKept
    <2>1. /\ "settleOk" \in PCs /\ "settleErr" \in PCs
          /\ "schedule" \in PCs /\ "catch" \in PCs
      BY DEF PCs
    <2>2. run' \in [Runners -> Run] /\ left' \in Budget
      BY <1>7, <2>1, GotoType, FaultType DEF Mark
    <2>3. events' \in [Events -> EventRow]
      BY <1>7, RunType, MarkType DEF Mark
    <2> QED BY <1>7, <2>2, <2>3, UnchangedJobs DEF Mark
  <1>8. ASSUME NEW w \in Runners, Catch(w) PROVE TypeOK' /\ DataKept
    <2>1. "settleErr" \in PCs
      BY DEF PCs
    <2>2. events' \in [Events -> EventRow]
      BY <1>8, RunType, MarkType DEF Catch
    <2> QED BY <1>8, <2>1, <2>2, GotoType, FaultType, UnchangedJobs DEF Catch
  <1>9. ASSUME NEW w \in Runners, Schedule(w) PROVE TypeOK' /\ DataKept
    <2>1. "settleErr" \in PCs
      BY DEF PCs
    <2>2. jobs' \in Seq(Job) /\ DataKept
      BY <1>9, RunType, NewJobs, AddedJob, UnchangedJobs DEF Schedule
    <2> QED BY <1>9, <2>1, <2>2, GotoType, FaultType DEF Schedule
  <1>10. ASSUME NEW w \in Runners, ExecuteSync(w) PROVE TypeOK' /\ DataKept
    <2>1. "settleOk" \in PCs /\ "settleErr" \in PCs
      BY DEF PCs
    <2>2. synced' \subseteq Events
      BY <1>10, RunType DEF ExecuteSync
    <2> QED BY <1>10, <2>1, <2>2, GotoType, FaultType, UnchangedJobs DEF ExecuteSync
  <1>11. ASSUME NEW w \in Runners, Settle(w) PROVE TypeOK' /\ DataKept
    <2>1. run' \in [Runners -> Run]
      BY <1>11, IdleRunType DEF Settle
    <2>2. jobs' \in Seq(Job) /\ DataKept
      <3>1. CASE ~Holds(w)
        BY <1>11, <3>1, UnchangedJobs DEF Settle
      <3>2. CASE Holds(w)
        <4>1. run[w].job \in 1 .. Len(jobs) /\ jobs[run[w].job] \in Job
          BY <3>2, ElementOfSeq DEF Holds, Ids
        <4>2. jobs' = [jobs EXCEPT ![run[w].job] =
                         Finished(jobs[run[w].job], run[w].pc = "settleOk")]
          BY <1>11, <3>2 DEF Settle
        <4> QED BY <4>1, <4>2, ReplacedJob, FinishedType
      <3> QED BY <3>1, <3>2
    <2> QED BY <1>11, <2>1, <2>2 DEF Settle
  <1>12. ASSUME NEW I \in Instances, Crash(I) PROVE TypeOK' /\ DataKept
    <2>1. run' \in [Runners -> Run]
      BY <1>12, IdleRunType DEF Crash
    <2> QED BY <1>12, <2>1, FaultType, UnchangedJobs DEF Crash
  <1>13. ASSUME NEW j \in Ids, jobs' = [jobs EXCEPT ![j] = Redelivered(@)],
                left' \in Budget, UNCHANGED <<events, synced, run>>
         PROVE  TypeOK' /\ DataKept
    <2>1. jobs[j] \in Job /\ j \in 1 .. Len(jobs)
      BY ElementOfSeq DEF Ids
    <2>2. jobs' \in Seq(Job) /\ DataKept
      BY <1>13, <2>1, ReplacedJob, RedeliveredType
    <2> QED BY <1>13, <2>2
  <1>14. ASSUME NEW j \in Ids, Recover(j) PROVE TypeOK' /\ DataKept
    BY <1>13, <1>14 DEF Recover
  <1>15. ASSUME NEW j \in Ids, LoseLock(j) PROVE TypeOK' /\ DataKept
    BY <1>13, <1>15, FaultType DEF LoseLock
  <1>16. "load" \in PCs /\ "sync" \in PCs /\ Handlers \subseteq Runners /\ Syncers \subseteq Runners
    BY DEF PCs, Runners
  <1> QED
    BY <1>1, <1>2, <1>3, <1>4, <1>5, <1>6, <1>7, <1>8, <1>9, <1>10, <1>11, <1>12,
       <1>14, <1>15, <1>16 DEF Next

\* TypeOK is an invariant of the pipeline.
THEOREM TypeCorrect == Spec => []TypeOK
  <1>1. Init => TypeOK
    BY IdleRunType, BoundsAssumption, EmptySeq DEF Init, TypeOK, EventRow, Budget
  <1>2. TypeOK /\ [Next]_vars => TypeOK'
    BY StepType DEF vars, TypeOK
  <1> QED
    BY <1>1, <1>2, PTL DEF Spec

-----------------------------------------------------------------------------
(* A sync request precedes the mark                                        *)

\* A run is about a stored event, and one that carries a sync request got it from the queue.
RunsFounded ==
  \A w \in Runners, e \in Events :
    run[w].pc # "idle" /\ run[w].data.event = e =>
      /\ events[e].stored
      /\ run[w].data.payload = "sync" => SyncQueued(e)

\* A job is about a stored event.
JobsFounded == \A j \in 1 .. Len(jobs) : events[jobs[j].data.event].stored

\* A run about to mark its event processed has queued the sync request.
MarksFounded ==
  \A w \in Runners, e \in Events :
    run[w].pc = "markOk" /\ run[w].data.event = e /\ NeedsSync(e) => SyncQueued(e)

\* The inductive invariant.
Founded == /\ TypeOK /\ RunsFounded /\ JobsFounded /\ MarksFounded
           /\ SyncQueuedBeforeProcessed /\ SyncedOnlyOnRequest

StoredKept == \A e \in Events : events[e].stored => events'[e].stored

\* A sync request once put on the queue is there for good: jobs are only added.
LEMMA SyncQueuedStable ==
  ASSUME DataKept, NEW e, SyncQueued(e)
  PROVE  SyncQueued(e)'
  BY LenProperties DEF DataKept, SyncQueued, Ids

\* A run that goes on keeps its foundation.
LEMMA GotoFounded ==
  ASSUME TypeOK, RunsFounded, DataKept, StoredKept,
         NEW w \in Runners, run[w].pc # "idle", NEW pc, Goto(w, pc)
  PROVE  RunsFounded'
  <1> SUFFICES ASSUME NEW v \in Runners, NEW e \in Events,
                      run'[v].pc # "idle", run'[v].data.event = e
               PROVE  /\ events'[e].stored
                      /\ run'[v].data.payload = "sync" => SyncQueued(e)'
    BY DEF RunsFounded
  <1>1. run'[v].data = run[v].data /\ (v # w => run'[v] = run[v])
    BY DEF Goto, TypeOK, Run
  <1>2. run[v].pc # "idle"
    BY <1>1
  <1> QED
    BY <1>1, <1>2, SyncQueuedStable DEF RunsFounded, StoredKept

\* So do the marks, when the run goes elsewhere or has queued its request.
LEMMA GotoMarks ==
  ASSUME TypeOK, MarksFounded, DataKept,
         NEW w \in Runners, NEW pc, Goto(w, pc),
         pc = "markOk" =>
           \A e \in Events : run[w].data.event = e /\ NeedsSync(e) => SyncQueued(e)'
  PROVE  MarksFounded'
  <1> SUFFICES ASSUME NEW v \in Runners, NEW e \in Events,
                      run'[v].pc = "markOk", run'[v].data.event = e, NeedsSync(e)
               PROVE  SyncQueued(e)'
    BY DEF MarksFounded, NeedsSync
  <1>1. run'[v].data = run[v].data /\ (v # w => run'[v] = run[v]) /\ run'[w].pc = pc
    BY DEF Goto, TypeOK, Run
  <1>2. CASE v = w
    BY <1>1, <1>2
  <1>3. CASE v # w
    BY <1>1, <1>3, SyncQueuedStable DEF MarksFounded
  <1> QED BY <1>2, <1>3

\* An idle run founds nothing.
LEMMA IdleFounded ==
  ASSUME RunsFounded, MarksFounded, DataKept, StoredKept,
         \A v \in Runners : run'[v] = run[v] \/ run'[v].pc = "idle"
  PROVE  RunsFounded' /\ MarksFounded'
  <1>1. ASSUME NEW v \in Runners, NEW e \in Events,
               run'[v].pc # "idle", run'[v].data.event = e
        PROVE  /\ events'[e].stored
               /\ run'[v].data.payload = "sync" => SyncQueued(e)'
               /\ run'[v].pc = "markOk" /\ NeedsSync(e) => SyncQueued(e)'
    <2>1. run'[v] = run[v]
      BY <1>1
    <2> QED
      BY <1>1, <2>1, SyncQueuedStable DEF RunsFounded, MarksFounded, StoredKept
  <1> QED
    BY <1>1 DEF RunsFounded, MarksFounded, NeedsSync

\* A job of the queue is about an event.
LEMMA JobType ==
  ASSUME jobs \in Seq(Job), NEW j \in 1 .. Len(jobs)
  PROVE  jobs[j] \in Job /\ jobs[j].data \in JobData /\ jobs[j].data.event \in Events
  <1>1. jobs[j] \in Job
    BY ElementOfSeq
  <1> QED
    BY <1>1 DEF Job, JobData

\* The queue keeps its foundation while no job is added, and by a job about a stored event.
LEMMA SameJobsFounded ==
  ASSUME TypeOK, JobsFounded, DataKept, StoredKept, Len(jobs') = Len(jobs)
  PROVE  JobsFounded'
  <1> SUFFICES ASSUME NEW j \in 1 .. Len(jobs)
               PROVE  events'[jobs'[j].data.event].stored
    BY DEF JobsFounded
  <1>1. jobs[j].data.event \in Events
    BY JobType DEF TypeOK
  <1> QED
    BY <1>1 DEF DataKept, StoredKept, JobsFounded

\* Adding a job about a stored event leaves every job about a stored event.
LEMMA AddedJobFounded ==
  ASSUME TypeOK, JobsFounded, DataKept, StoredKept, NEW x \in Job,
         Len(jobs') = Len(jobs) + 1, jobs'[Len(jobs) + 1] = x, events'[x.data.event].stored
  PROVE  JobsFounded'
  <1> SUFFICES ASSUME NEW j \in 1 .. Len(jobs')
               PROVE  events'[jobs'[j].data.event].stored
    BY DEF JobsFounded
  <1>1. Len(jobs) \in Nat
    BY LenProperties DEF TypeOK
  <1>2. CASE j = Len(jobs) + 1
    BY <1>2
  <1>3. CASE j # Len(jobs) + 1
    <2>1. j \in 1 .. Len(jobs)
      BY <1>1, <1>3
    <2>2. jobs[j].data.event \in Events
      BY <2>1, JobType DEF TypeOK
    <2> QED
      BY <2>1, <2>2 DEF DataKept, StoredKept, JobsFounded
  <1> QED BY <1>2, <1>3

\* What a mark changes.
LEMMA MarkEffect ==
  ASSUME events \in [Events -> EventRow], NEW e \in Events, NEW ok \in BOOLEAN,
         MarkProcessed(e, ok)
  PROVE  /\ StoredKept
         /\ \A f \in Events : events'[f].processed = IF f = e THEN ok ELSE events[f].processed
  <1>1. /\ events'[e] = [events[e] EXCEPT !.processed = ok, !.error = ~ok]
        /\ \A f \in Events \ {e} : events'[f] = events[f]
    BY DEF MarkProcessed
  <1>2. events'[e].stored = events[e].stored /\ events'[e].processed = ok
    BY <1>1 DEF EventRow
  <1> QED
    BY <1>1, <1>2 DEF StoredKept

\* What was synchronised stays founded.
LEMMA SyncedFounded ==
  ASSUME TypeOK, SyncedOnlyOnRequest, DataKept, StoredKept, synced' = synced
  PROVE  SyncedOnlyOnRequest'
  BY SyncQueuedStable DEF TypeOK, SyncedOnlyOnRequest, StoredKept

\* Every step preserves the inductive invariant.
LEMMA StepFounded ==
  ASSUME Founded, Next
  PROVE  Founded'
  <1> USE DEF Founded
  <1>0. TypeOK' /\ DataKept
    BY StepType
  <1>a. ASSUME NEW w \in Runners
        PROVE  run[w].data.event \in Events /\ run[w].data \in JobData
    BY RunType DEF TypeOK
  <1>1. ASSUME NEW e \in Events, Deliver(e) PROVE Founded'
    <2>1. StoredKept /\ events'[e].stored /\ \A f \in Events : events'[f].processed = events[f].processed
      BY <1>1 DEF Deliver, StoredKept, TypeOK, EventRow
    <2>2. RunsFounded' /\ MarksFounded'
      BY <1>0, <1>1, <2>1, IdleFounded DEF Deliver
    <2>3. SyncQueuedBeforeProcessed' /\ SyncedOnlyOnRequest'
      BY <1>0, <1>1, <2>1, SyncQueuedStable, SyncedFounded
         DEF Deliver, SyncQueuedBeforeProcessed, NeedsSync
    <2>4. JobsFounded'
      <3>1. CASE jobs' = jobs
        BY <1>0, <2>1, <3>1, SameJobsFounded
      <3>2. CASE jobs' = Append(jobs, ProcessJob(e))
        BY <1>0, <2>1, <3>2, AddedJob, AddedJobFounded, NewJobs DEF TypeOK
      <3> QED BY <1>1, <3>1, <3>2 DEF Deliver
    <2> QED BY <1>0, <2>2, <2>3, <2>4
  \* A step that adds no job and marks and synchronises nothing.
  <1>2. ASSUME StoredKept, Len(jobs') = Len(jobs), synced' = synced,
               \A f \in Events : events'[f].processed => events[f].processed
        PROVE  JobsFounded' /\ SyncQueuedBeforeProcessed' /\ SyncedOnlyOnRequest'
    BY <1>0, <1>2, SameJobsFounded, SyncedFounded, SyncQueuedStable
       DEF SyncQueuedBeforeProcessed, NeedsSync
  <1>3. ASSUME UNCHANGED <<events, synced>>, Len(jobs') = Len(jobs)
        PROVE  /\ StoredKept
               /\ JobsFounded' /\ SyncQueuedBeforeProcessed' /\ SyncedOnlyOnRequest'
    BY <1>2, <1>3 DEF StoredKept
  <1>4. ASSUME NEW w \in Operators, NEW e \in Events, ManualRetry(w, e) PROVE Founded'
    <2>1. w \in Runners
      BY DEF Runners
    <2>2. ASSUME NEW v \in Runners
          PROVE  IF v = w THEN run'[v].pc = "increment" /\ run'[v].data.event = e
                               /\ run'[v].data.payload = "raw"
                          ELSE run'[v] = run[v]
      BY <1>4, <2>1 DEF ManualRetry, TypeOK
    <2>3. RunsFounded'
      BY <1>0, <1>4, <2>1, <2>2, SyncQueuedStable DEF RunsFounded, ManualRetry
    <2>4. MarksFounded'
      BY <1>0, <1>4, <2>2, SyncQueuedStable DEF MarksFounded, ManualRetry, NeedsSync
    <2> QED BY <1>0, <1>3, <1>4, <2>3, <2>4 DEF ManualRetry
  <1>5. ASSUME NEW w \in Runners, NEW pc \in {"load", "sync"}, Take(w, pc) PROVE Founded'
    <2>1. PICK j \in 1 .. Len(jobs) :
            /\ jobs' = [jobs EXCEPT ![j] = [@ EXCEPT !.state = "active", !.owner = w]]
            /\ run' = [run EXCEPT ![w] = [pc |-> pc, job |-> j, data |-> jobs[j].data]]
      BY <1>5 DEF Take, NextUp, Waiting, Delayed, Ids
    <2>2. Len(jobs') = Len(jobs)
      BY <2>1, JobType, TakenType, ReplacedJob DEF TypeOK
    <2>3. StoredKept /\ JobsFounded' /\ SyncQueuedBeforeProcessed' /\ SyncedOnlyOnRequest'
      BY <1>3, <1>5, <2>2 DEF Take
    <2>4. ASSUME NEW v \in Runners
          PROVE  IF v = w THEN run'[v].pc = pc /\ run'[v].data = jobs[j].data
                          ELSE run'[v] = run[v]
      BY <2>1 DEF TypeOK
    <2>5. ASSUME NEW e \in Events, jobs[j].data.event = e
          PROVE  events[e].stored /\ (jobs[j].data.payload = "sync" => SyncQueued(e))
      BY <2>5 DEF JobsFounded, SyncQueued, Ids
    <2>6. RunsFounded'
      BY <1>0, <1>5, <2>4, <2>5, SyncQueuedStable DEF RunsFounded, Take
    <2>7. MarksFounded'
      BY <1>0, <2>4, SyncQueuedStable DEF MarksFounded, NeedsSync
    <2> QED BY <1>0, <2>3, <2>6, <2>7
  <1>6. ASSUME NEW w \in Runners, Increment(w) PROVE Founded'
    <2>1. StoredKept /\ \A f \in Events : events'[f].processed = events[f].processed
      <3>1. CASE events' = events
        BY <3>1 DEF StoredKept
      <3>2. CASE events' = [events EXCEPT ![run[w].data.event].retryCount = @ + 1]
        BY <1>a, <3>2 DEF StoredKept, TypeOK, EventRow
      <3> QED BY <1>6, <3>1, <3>2 DEF Increment
    <2>2. RunsFounded' /\ MarksFounded'
      BY <1>0, <1>6, <2>1, GotoFounded, GotoMarks DEF Increment
    <2> QED BY <1>0, <1>2, <1>6, <2>1, <2>2 DEF Increment
  <1>7. ASSUME NEW w \in Runners, Load(w) PROVE Founded'
    <2>1. StoredKept /\ JobsFounded' /\ SyncQueuedBeforeProcessed' /\ SyncedOnlyOnRequest'
      BY <1>3, <1>7 DEF Load
    <2>2. RunsFounded' /\ MarksFounded'
      BY <1>0, <1>7, <2>1, GotoFounded, GotoMarks DEF Load
    <2> QED BY <1>0, <2>1, <2>2
  <1>8. ASSUME NEW w \in Runners, Process(w) PROVE Founded'
    <2> DEFINE f == run[w].data.event
    <2>1. StoredKept /\ SyncQueuedBeforeProcessed' /\ SyncedOnlyOnRequest'
      BY <1>0, <1>8, SyncedFounded, SyncQueuedStable
         DEF Process, StoredKept, SyncQueuedBeforeProcessed, NeedsSync
    <2>2. events[f].stored
      BY <1>8, <1>a DEF Process, RunsFounded
    <2>3. CASE jobs' = Append(jobs, SyncJob(f)) /\ Goto(w, "markOk")
      <3>1. /\ Len(jobs') = Len(jobs) + 1
            /\ jobs'[Len(jobs) + 1] = SyncJob(f)
            /\ SyncJob(f) \in Job /\ SyncJob(f).data.event = f
            /\ SyncJob(f).data.payload = "sync"
        BY <1>a, <2>3, AddedJob, NewJobs DEF TypeOK
      <3>2. JobsFounded'
        BY <1>0, <1>8, <2>1, <2>2, <3>1, AddedJobFounded DEF Process
      <3>3. Len(jobs) \in Nat
        BY LenProperties DEF TypeOK
      <3>4. ASSUME NEW e \in Events, run[w].data.event = e PROVE SyncQueued(e)'
        BY <3>1, <3>3, <3>4 DEF SyncQueued, Ids
      <3>5. RunsFounded' /\ MarksFounded'
        BY <1>0, <1>8, <2>1, <2>3, <3>4, GotoFounded, GotoMarks DEF Process
      <3> QED BY <1>0, <2>1, <3>2, <3>5
    <2>4. CASE jobs' = jobs
      <3>1. JobsFounded' /\ RunsFounded'
        BY <1>0, <1>8, <2>1, <2>4, SameJobsFounded, GotoFounded DEF Process
      <3>2. MarksFounded'
        <4>1. CASE Goto(w, "markErr")
          BY <1>0, <4>1, GotoMarks
        <4>2. CASE Goto(w, "markOk") /\ ~NeedsSync(f)
          BY <1>0, <4>2, GotoMarks
        <4>3. CASE jobs' = Append(jobs, SyncJob(f))
          BY <1>a, <2>4, <4>3, AddedJob, NewJobs, LenProperties DEF TypeOK
        <4> QED BY <1>8, <4>1, <4>2, <4>3 DEF Process
      <3> QED BY <1>0, <2>1, <3>1, <3>2
    <2> QED BY <1>8, <2>3, <2>4 DEF Process
  <1>9. ASSUME NEW w \in Runners, Mark(w) PROVE Founded'
    <2>1. /\ StoredKept
          /\ \A e \in Events : events'[e].processed =>
               events[e].processed \/ (run[w].data.event = e /\ run[w].pc = "markOk")
      <3>1. CASE events' = events
        BY <3>1 DEF StoredKept
      <3>2. CASE MarkProcessed(run[w].data.event, run[w].pc = "markOk")
        BY <1>a, <3>2, MarkEffect DEF TypeOK
      <3> QED BY <1>9, <3>1, <3>2 DEF Mark
    <2>2. RunsFounded'
      BY <1>0, <1>9, <2>1, GotoFounded DEF Mark
    <2>3. MarksFounded'
      BY <1>0, <1>9, GotoMarks DEF Mark
    <2>4. JobsFounded' /\ SyncedOnlyOnRequest'
      BY <1>0, <1>9, <2>1, SameJobsFounded, SyncedFounded DEF Mark
    <2>5. SyncQueuedBeforeProcessed'
      BY <1>0, <2>1, SyncQueuedStable DEF MarksFounded, SyncQueuedBeforeProcessed, NeedsSync
    <2> QED BY <1>0, <2>2, <2>3, <2>4, <2>5
  <1>10. ASSUME NEW w \in Runners, Catch(w) PROVE Founded'
    <2>1. StoredKept /\ \A e \in Events : events'[e].processed => events[e].processed
      <3>1. CASE events' = events
        BY <3>1 DEF StoredKept
      <3>2. CASE MarkProcessed(run[w].data.event, FALSE)
        BY <1>a, <3>2, MarkEffect DEF TypeOK
      <3> QED BY <1>10, <3>1, <3>2 DEF Catch
    <2>2. RunsFounded' /\ MarksFounded'
      BY <1>0, <1>10, <2>1, GotoFounded, GotoMarks DEF Catch
    <2> QED BY <1>0, <1>2, <1>10, <2>1, <2>2 DEF Catch
  <1>11. ASSUME NEW w \in Runners, Schedule(w) PROVE Founded'
    <2>1. StoredKept /\ SyncQueuedBeforeProcessed' /\ SyncedOnlyOnRequest'
      BY <1>0, <1>11, SyncedFounded, SyncQueuedStable
         DEF Schedule, StoredKept, SyncQueuedBeforeProcessed, NeedsSync
    <2>2. RunsFounded' /\ MarksFounded'
      BY <1>0, <1>11, <2>1, GotoFounded, GotoMarks DEF Schedule
    <2>3. events[run[w].data.event].stored
      BY <1>11, <1>a DEF Schedule, RunsFounded
    <2>4. JobsFounded'
      <3>1. CASE jobs' = jobs
        BY <1>0, <2>1, <3>1, SameJobsFounded
      <3>2. CASE jobs' = Append(jobs, RetryJob(run[w].data))
        <4>1. /\ Len(jobs') = Len(jobs) + 1
              /\ jobs'[Len(jobs) + 1] = RetryJob(run[w].data)
              /\ RetryJob(run[w].data) \in Job
              /\ RetryJob(run[w].data).data.event = run[w].data.event
          BY <1>a, <3>2, AddedJob, NewJobs DEF TypeOK
        <4> QED
          BY <1>0, <1>11, <2>1, <2>3, <4>1, AddedJobFounded DEF Schedule
      <3> QED BY <1>11, <3>1, <3>2 DEF Schedule
    <2> QED BY <1>0, <2>1, <2>2, <2>4
  <1>12. ASSUME NEW w \in Runners, ExecuteSync(w) PROVE Founded'
    <2>1. StoredKept
      BY <1>12 DEF ExecuteSync, StoredKept
    <2>2. RunsFounded' /\ MarksFounded'
      BY <1>0, <1>12, <2>1, GotoFounded, GotoMarks DEF ExecuteSync
    <2>3. JobsFounded' /\ SyncQueuedBeforeProcessed'
      BY <1>0, <1>12, <2>1, SameJobsFounded, SyncQueuedStable
         DEF ExecuteSync, SyncQueuedBeforeProcessed, NeedsSync
    <2>4. SyncedOnlyOnRequest'
      <3>1. ASSUME NEW e \in Events, e \in synced'
            PROVE  Kind[e] = "push" /\ events[e].stored /\ SyncQueued(e)
        BY <1>12, <1>a, <3>1
           DEF ExecuteSync, CanSync, RunsFounded, SyncedOnlyOnRequest
      <3> QED
        BY <1>0, <2>1, <3>1, SyncQueuedStable DEF SyncedOnlyOnRequest, StoredKept, TypeOK
    <2> QED BY <1>0, <2>2, <2>3, <2>4
  <1>13. ASSUME NEW w \in Runners, Settle(w) PROVE Founded'
    <2>1. Len(jobs') = Len(jobs)
      <3>1. CASE ~Holds(w)
        BY <1>13, <3>1 DEF Settle
      <3>2. CASE Holds(w)
        <4>1. run[w].job \in 1 .. Len(jobs) /\ jobs[run[w].job] \in Job
          BY <3>2, JobType DEF Holds, Ids, TypeOK
        <4>2. jobs' = [jobs EXCEPT ![run[w].job] =
                         Finished(jobs[run[w].job], run[w].pc = "settleOk")]
          BY <1>13, <3>2 DEF Settle
        <4> QED BY <4>1, <4>2, ReplacedJob, FinishedType DEF TypeOK
      <3> QED BY <3>1, <3>2
    <2>2. StoredKept /\ JobsFounded' /\ SyncQueuedBeforeProcessed' /\ SyncedOnlyOnRequest'
      BY <1>3, <1>13, <2>1 DEF Settle
    <2>3. \A v \in Runners : run'[v] = run[v] \/ run'[v].pc = "idle"
      BY <1>13 DEF Settle, IdleRun, TypeOK
    <2> QED BY <1>0, <2>2, <2>3, IdleFounded
  <1>14. ASSUME NEW I \in Instances, Crash(I) PROVE Founded'
    <2>1. StoredKept /\ JobsFounded' /\ SyncQueuedBeforeProcessed' /\ SyncedOnlyOnRequest'
      BY <1>3, <1>14 DEF Crash
    <2>2. \A v \in Runners : run'[v] = run[v] \/ run'[v].pc = "idle"
      BY <1>14 DEF Crash, IdleRun
    <2> QED BY <1>0, <2>1, <2>2, IdleFounded
  <1>15. ASSUME NEW j \in 1 .. Len(jobs), jobs' = [jobs EXCEPT ![j] = Redelivered(@)],
                UNCHANGED <<events, synced, run>>
         PROVE  Founded'
    <2>1. Len(jobs') = Len(jobs)
      BY <1>15, JobType, RedeliveredType, ReplacedJob DEF TypeOK
    <2>2. StoredKept /\ JobsFounded' /\ SyncQueuedBeforeProcessed' /\ SyncedOnlyOnRequest'
      BY <1>3, <1>15, <2>1
    <2> QED BY <1>0, <1>15, <2>2, IdleFounded
  <1>16. ASSUME NEW j \in Ids, Recover(j) \/ LoseLock(j) PROVE Founded'
    BY <1>15, <1>16 DEF Recover, LoseLock, Ids
  <1>17. Handlers \subseteq Runners /\ Syncers \subseteq Runners
    BY DEF Runners
  <1> QED
    BY <1>1, <1>4, <1>5, <1>6, <1>7, <1>8, <1>9, <1>10, <1>11, <1>12, <1>13, <1>14,
       <1>16, <1>17 DEF Next

\* The invariant, for every configuration.
LEMMA FoundedInvariant == Spec => []Founded
  <1>1. Init => Founded
    <2> SUFFICES ASSUME Init PROVE Founded
      OBVIOUS
    <2>1. TypeOK
      BY IdleRunType, BoundsAssumption, EmptySeq DEF Init, TypeOK, EventRow, Budget
    <2>2. \A w \in Runners : run[w].pc = "idle"
      BY DEF Init, IdleRun
    <2> QED
      BY <2>1, <2>2, EmptySeq DEF Init, Founded, RunsFounded, JobsFounded, MarksFounded,
         SyncQueuedBeforeProcessed, SyncedOnlyOnRequest
  <1>2. Founded /\ [Next]_vars => Founded'
    <2> SUFFICES ASSUME Founded, UNCHANGED vars PROVE Founded'
      BY StepFounded
    <2> QED
      BY DEF vars, Founded, TypeOK, RunsFounded, JobsFounded, MarksFounded,
             SyncQueuedBeforeProcessed, SyncedOnlyOnRequest, SyncQueued, Ids
  <1> QED
    BY <1>1, <1>2, PTL DEF Spec

\* However its job is repeated, redelivered or run twice, and whatever fails or crashes, an
\* event that asks for a synchronisation is marked processed only after its sync request is
\* on the queue.
THEOREM SyncRequestPrecedesMark == Spec => []SyncQueuedBeforeProcessed
  BY FoundedInvariant, PTL DEF Founded

\* A project is synchronised only for a stored push event with a sync request.
THEOREM SyncsAreRequested == Spec => []SyncedOnlyOnRequest
  BY FoundedInvariant, PTL DEF Founded

-----------------------------------------------------------------------------
(* Every job has a cause: counting                                         *)

\* The jobs of a queue q whose data are in D, and every time one of them was handed out.
JobsWith(q, D)   == {j \in 1 .. Len(q) : q[j].data \in D}
StartsWith(q, D) == UNION {{j} \X (1 .. Runs(q[j])) : j \in JobsWith(q, D)}

\* The runs at one of the awaits in PC, for a job or a request whose data are in D.
RunsWith(r, D, PC) == {w \in Runners : r[w].pc \in PC /\ r[w].data \in D}

\* A job was handed out a number of times.
LEMMA RunsType ==
  ASSUME NEW x \in Job
  PROVE  Runs(x) \in Nat
  BY DEF Runs, Job

\* The jobs of a queue are finitely many.
LEMMA JobsFinite ==
  ASSUME NEW q \in Seq(Job), NEW D
  PROVE  IsFiniteSet(JobsWith(q, D))
  <1>1. IsFiniteSet(1 .. Len(q))
    BY FS_Interval, LenProperties
  <1> QED
    BY <1>1, FS_Subset DEF JobsWith

\* And so are the times they were handed out.
LEMMA StartsFinite ==
  ASSUME NEW q \in Seq(Job), NEW D
  PROVE  IsFiniteSet(StartsWith(q, D))
  <1> DEFINE J == JobsWith(q, D)
             f == [j \in J |-> {j} \X (1 .. Runs(q[j]))]
             T == {{j} \X (1 .. Runs(q[j])) : j \in J}
  <1>1. IsFiniteSet(J)
    BY JobsFinite
  <1>2. f \in Surjection(J, T)
    <2>1. f \in [J -> T]
      OBVIOUS
    <2>2. ASSUME NEW X \in T PROVE \E j \in J : f[j] = X
      <3>1. PICK j \in J : X = {j} \X (1 .. Runs(q[j]))
        OBVIOUS
      <3>2. f[j] = X
        BY <3>1
      <3> QED BY <3>2
    <2>3. \A X \in T : \E j \in J : f[j] = X
      BY <2>2
    <2> HIDE DEF f, J, T
    <2> QED BY <2>1, <2>3, Fun_IsSurj
  <1>3. IsFiniteSet(T)
    <2> HIDE DEF f, J, T
    <2> QED BY <1>1, <1>2, FS_Surjection
  <1>4. ASSUME NEW j \in J PROVE IsFiniteSet({j} \X (1 .. Runs(q[j])))
    <2>1. Runs(q[j]) \in Int
      BY RunsType, ElementOfSeq DEF JobsWith
    <2>2. ASSUME NEW n \in Int PROVE IsFiniteSet({j} \X (1 .. n))
      <3>1. IsFiniteSet(1 .. n)
        BY FS_Interval
      <3>2. IsFiniteSet({j})
        BY FS_Singleton
      <3> QED BY <3>1, <3>2, FS_Product
    <2> QED BY <2>1, <2>2
  <1>5. IsFiniteSet(UNION T)
    <2>1. \A X \in T : IsFiniteSet(X)
      BY <1>4
    <2> HIDE DEF T
    <2> QED BY <1>3, <2>1, FS_UNION
  <1> QED
    BY <1>5 DEF StartsWith

\* The workers and requests are finitely many.
LEMMA RunsFinite ==
  ASSUME NEW r, NEW D, NEW PC
  PROVE  IsFiniteSet(RunsWith(r, D, PC))
  BY RunnersAssumption, FS_Subset DEF RunsWith

\* A finite set that has gained an element has one more.
LEMMA OneMore ==
  ASSUME NEW S, NEW T, IsFiniteSet(T), S \subseteq T, NEW x \in T, x \notin S
  PROVE  IsFiniteSet(S) /\ Cardinality(S) + 1 <= Cardinality(T)
  <1>1. IsFiniteSet(S) /\ Cardinality(S) \in Nat
    BY FS_Subset, FS_CardinalityType
  <1>2. Cardinality(S \cup {x}) = Cardinality(S) + 1
    BY <1>1, FS_AddElement
  <1>3. Cardinality(S \cup {x}) <= Cardinality(T)
    BY FS_Subset
  <1> QED
    BY <1>1, <1>2, <1>3

\* A set with at most one element more than another has at most one more.
LEMMA AtMostOneMore ==
  ASSUME NEW S, NEW T, NEW x, IsFiniteSet(S), T \subseteq S \cup {x}
  PROVE  IsFiniteSet(T) /\ Cardinality(T) <= Cardinality(S) + 1
  <1>1. IsFiniteSet(S \cup {x}) /\ IsFiniteSet(T) /\ Cardinality(T) <= Cardinality(S \cup {x})
    BY FS_AddElement, FS_Subset
  <1>2. Cardinality(S \cup {x}) = Cardinality(S) \/ Cardinality(S \cup {x}) = Cardinality(S) + 1
    BY FS_AddElement
  <1>3. /\ Cardinality(S) \in Nat /\ Cardinality(T) \in Nat
        /\ Cardinality(S \cup {x}) \in Nat
    BY <1>1, FS_CardinalityType
  <1> QED
    BY <1>1, <1>2, <1>3

\* The four ways a balance between the jobs made (J), the runs that may yet make one (P),
\* the times a job was handed out (S) and the operator's retries (r) is kept: nothing is made,
LEMMA NothingMade ==
  ASSUME NEW J, NEW P, NEW S, NEW P1, NEW S1, NEW r \in Nat, NEW r1 \in Nat,
         IsFiniteSet(J), IsFiniteSet(P), IsFiniteSet(S), IsFiniteSet(S1),
         P1 \subseteq P, S \subseteq S1, r <= r1,
         Cardinality(J) + Cardinality(P) <= Cardinality(S) + r
  PROVE  Cardinality(J) + Cardinality(P1) <= Cardinality(S1) + r1
  <1>1. Cardinality(P1) <= Cardinality(P) /\ IsFiniteSet(P1)
    BY FS_Subset
  <1>2. Cardinality(S) <= Cardinality(S1)
    BY FS_Subset
  <1>3. /\ Cardinality(J) \in Nat /\ Cardinality(P) \in Nat /\ Cardinality(P1) \in Nat
        /\ Cardinality(S) \in Nat /\ Cardinality(S1) \in Nat
    BY <1>1, FS_CardinalityType
  <1> QED
    BY <1>1, <1>2, <1>3

\* a job is handed to a worker,
LEMMA OneStarted ==
  ASSUME NEW J, NEW P, NEW S, NEW P1, NEW S1, NEW r \in Nat, NEW w, NEW s \in S1,
         IsFiniteSet(J), IsFiniteSet(P), IsFiniteSet(S), IsFiniteSet(S1),
         P1 \subseteq P \cup {w}, S \subseteq S1, s \notin S,
         Cardinality(J) + Cardinality(P) <= Cardinality(S) + r
  PROVE  Cardinality(J) + Cardinality(P1) <= Cardinality(S1) + r
  <1>2. Cardinality(P1) <= Cardinality(P) + 1 /\ IsFiniteSet(P1)
    BY AtMostOneMore
  <1>3. Cardinality(S) + 1 <= Cardinality(S1)
    BY OneMore
  <1>4. /\ Cardinality(J) \in Nat /\ Cardinality(P) \in Nat /\ Cardinality(P1) \in Nat
        /\ Cardinality(S) \in Nat /\ Cardinality(S1) \in Nat
    BY <1>2, FS_CardinalityType
  <1> QED
    BY <1>2, <1>3, <1>4

\* an operator's retry is counted,
LEMMA OneCounted ==
  ASSUME NEW J, NEW P, NEW S, NEW P1, NEW r \in Nat, NEW w,
         IsFiniteSet(J), IsFiniteSet(P), IsFiniteSet(S), P1 \subseteq P \cup {w},
         Cardinality(J) + Cardinality(P) <= Cardinality(S) + r
  PROVE  Cardinality(J) + Cardinality(P1) <= Cardinality(S) + (r + 1)
  <1>2. Cardinality(P1) <= Cardinality(P) + 1 /\ IsFiniteSet(P1)
    BY AtMostOneMore
  <1>3. /\ Cardinality(J) \in Nat /\ Cardinality(P) \in Nat /\ Cardinality(P1) \in Nat
        /\ Cardinality(S) \in Nat
    BY <1>2, FS_CardinalityType
  <1> QED
    BY <1>2, <1>3

\* a run makes its job.
LEMMA OneMade ==
  ASSUME NEW J, NEW P, NEW S, NEW J1, NEW P1, NEW S1, NEW r \in Nat, NEW x, NEW w \in P,
         IsFiniteSet(J), IsFiniteSet(P), IsFiniteSet(S), IsFiniteSet(S1),
         J1 \subseteq J \cup {x}, P1 \subseteq P, w \notin P1, S \subseteq S1,
         Cardinality(J) + Cardinality(P) <= Cardinality(S) + r
  PROVE  Cardinality(J1) + Cardinality(P1) <= Cardinality(S1) + r
  <1>2. Cardinality(J1) <= Cardinality(J) + 1 /\ IsFiniteSet(J1)
    BY AtMostOneMore
  <1>3. Cardinality(P1) + 1 <= Cardinality(P) /\ IsFiniteSet(P1)
    BY OneMore
  <1>4. Cardinality(S) <= Cardinality(S1)
    BY FS_Subset
  <1>5. /\ Cardinality(J) \in Nat /\ Cardinality(P) \in Nat /\ Cardinality(P1) \in Nat
        /\ Cardinality(J1) \in Nat /\ Cardinality(S) \in Nat /\ Cardinality(S1) \in Nat
    BY <1>2, <1>3, FS_CardinalityType
  <1> QED
    BY <1>2, <1>3, <1>4, <1>5

\* The data of the jobs about e, of those on a given retry, of the sync requests among them,
\* and of the jobs that deliveries make.
About(e)      == {d \in JobData : d.event = e}
OnRetry(e, k) == {d \in JobData : d.event = e /\ d.retryCount = k}
SyncData(e)   == {d \in JobData : d.event = e /\ d.retryCount = 0 /\ d.payload = "sync"}
RawData       == {d \in JobData : d.payload = "raw" /\ d.retryCount = 0}

\* Where a run may still queue a sync request, and where it may still schedule a retry.
MayQueue == {"load", "process"}
MayRetry == {"load", "process", "markOk", "markErr", "schedule"}

\* The jobs of data A, and the runs of data D that may yet make one, have each a start of a
\* job of data D or an operator's retry behind them.
Balanced(e, A, D, PC) ==
  Cardinality(JobsWith(jobs, A)) + Cardinality(RunsWith(run, D, PC))
    <= Cardinality(StartsWith(jobs, D)) + events[e].retryCount

DeliveriesCounted == Cardinality(JobsWith(jobs, RawData)) <= MaxDeliveries - left.deliveries
SyncsBalanced     == \A e \in Events : Balanced(e, SyncData(e), About(e), MayQueue)
RetriesBalanced   == \A e \in Events, k \in Nat :
                       Balanced(e, OnRetry(e, k + 1), OnRetry(e, k), MayRetry)
RetriesBounded    == /\ \A j \in 1 .. Len(jobs) : jobs[j].data.retryCount <= MaxRetries
                     /\ \A w \in Runners :
                          run[w].pc = "schedule" => run[w].data.retryCount < MaxRetries

\* The inductive invariant.
Caused == TypeOK /\ DeliveriesCounted /\ SyncsBalanced /\ RetriesBalanced /\ RetriesBounded

\* How often a job may have been handed out: a live job has an attempt left and at most one
\* stall behind it.
StartsLeft(x) ==
  /\ x.attempts = (IF x.data.retryCount = 0 THEN Attempts ELSE 1)
  /\ x.made + x.stalled <= x.attempts + 1
  /\ x.state \in Live => x.made < x.attempts /\ x.stalled <= 1

StartsBounded == TypeOK /\ \A j \in 1 .. Len(jobs) : StartsLeft(jobs[j])

\* No job forgets a time it was handed out.
RunsKept == \A j \in 1 .. Len(jobs) : Runs(jobs[j]) <= Runs(jobs'[j])

\* Then the times the jobs of D were handed out only grow,
LEMMA StartsGrow ==
  ASSUME jobs \in Seq(Job), jobs' \in Seq(Job), DataKept, RunsKept, NEW D
  PROVE  StartsWith(jobs, D) \subseteq StartsWith(jobs', D)
  <1> SUFFICES ASSUME NEW j \in JobsWith(jobs, D), NEW n \in 1 .. Runs(jobs[j])
               PROVE  <<j, n>> \in StartsWith(jobs', D)
    BY DEF StartsWith
  <1>1. Runs(jobs[j]) \in Nat /\ Runs(jobs'[j]) \in Nat
    BY RunsType, ElementOfSeq, LenProperties DEF JobsWith, DataKept
  <1>2. j \in JobsWith(jobs', D) /\ n \in 1 .. Runs(jobs'[j])
    BY <1>1, LenProperties DEF JobsWith, DataKept, RunsKept
  <1> QED
    BY <1>2 DEF StartsWith

\* and a job handed out once more is one more of them.
LEMMA StartAdded ==
  ASSUME jobs \in Seq(Job), jobs' \in Seq(Job), DataKept, NEW D,
         NEW j \in 1 .. Len(jobs), jobs[j].data \in D, Runs(jobs'[j]) = Runs(jobs[j]) + 1
  PROVE  /\ <<j, Runs(jobs[j]) + 1>> \in StartsWith(jobs', D)
         /\ <<j, Runs(jobs[j]) + 1>> \notin StartsWith(jobs, D)
  <1>1. Runs(jobs[j]) \in Nat
    BY RunsType, ElementOfSeq
  <1>2. j \in JobsWith(jobs', D)
    BY LenProperties DEF JobsWith, DataKept
  <1>3. Runs(jobs[j]) + 1 \in 1 .. Runs(jobs'[j])
    BY <1>1
  <1>4. <<j, Runs(jobs[j]) + 1>> \in StartsWith(jobs', D)
    BY <1>2, <1>3 DEF StartsWith
  <1>5. ASSUME NEW i \in JobsWith(jobs, D), NEW n \in 1 .. Runs(jobs[i])
        PROVE  <<i, n>> # <<j, Runs(jobs[j]) + 1>>
    BY <1>1
  <1>6. <<j, Runs(jobs[j]) + 1>> \notin StartsWith(jobs, D)
    BY <1>5 DEF StartsWith
  <1> QED
    BY <1>4, <1>6

\* Adding a job of data in D adds it to those of D; replacing one adds none.
LEMMA SameJobsWith ==
  ASSUME DataKept, Len(jobs') = Len(jobs), NEW D
  PROVE  JobsWith(jobs', D) = JobsWith(jobs, D)
  BY DEF JobsWith, DataKept

LEMMA AddedJobsWith ==
  ASSUME jobs \in Seq(Job), NEW x \in Job, jobs' = Append(jobs, x), NEW D
  PROVE  /\ JobsWith(jobs', D) \subseteq JobsWith(jobs, D) \cup {Len(jobs) + 1}
         /\ x.data \notin D => JobsWith(jobs', D) = JobsWith(jobs, D)
  <1>1. /\ DataKept
        /\ Len(jobs) \in Nat
        /\ Len(jobs') = Len(jobs) + 1
        /\ jobs'[Len(jobs) + 1] = x
    BY AddedJob, LenProperties
  <1> QED
    BY <1>1 DEF JobsWith, DataKept

\* A new job forgets nothing; nor does one replaced by one that was handed out as often.
LEMMA AddedRuns ==
  ASSUME jobs \in Seq(Job), NEW x \in Job, jobs' = Append(jobs, x)
  PROVE  RunsKept
  <1>1. \A j \in 1 .. Len(jobs) : jobs'[j] = jobs[j] /\ Runs(jobs[j]) \in Nat
    BY AppendProperties, RunsType, ElementOfSeq
  <1> QED
    BY <1>1 DEF RunsKept

LEMMA ReplacedRuns ==
  ASSUME jobs \in Seq(Job), NEW j \in 1 .. Len(jobs), NEW x \in Job,
         jobs' = [jobs EXCEPT ![j] = x], Runs(jobs[j]) <= Runs(x)
  PROVE  RunsKept /\ jobs'[j] = x
  <1>1. \A i \in 1 .. Len(jobs) : Runs(jobs[i]) \in Nat
    BY RunsType, ElementOfSeq
  <1>2. jobs'[j] = x /\ \A i \in 1 .. Len(jobs) : i # j => jobs'[i] = jobs[i]
    BY ExceptSeq
  <1> QED
    BY <1>1, <1>2 DEF RunsKept

LEMMA UnchangedRuns ==
  ASSUME jobs \in Seq(Job), jobs' = jobs
  PROVE  RunsKept
  BY RunsType, ElementOfSeq DEF RunsKept

\* A stalled job, and one whose attempt ends, was handed out as often as before; a job that
\* is taken, once more.
LEMMA RedeliveredRuns ==
  ASSUME NEW x \in Job, x.state = "active"
  PROVE  Runs(Redelivered(x)) = Runs(x)
  BY DEF Runs, Redelivered, Job

LEMMA FinishedRuns ==
  ASSUME NEW x \in Job, NEW ok \in BOOLEAN, x.state = "active"
  PROVE  Runs(Finished(x, ok)) = Runs(x)
  BY DEF Runs, Finished, Job

LEMMA TakenRuns ==
  ASSUME NEW x \in Job, x.state # "active", NEW w
  PROVE  Runs([x EXCEPT !.state = "active", !.owner = w]) = Runs(x) + 1
  BY DEF Runs, Job

\* A run that goes on to an await outside PC leaves the runs in PC, and enters them from
\* nowhere else.
LEMMA GotoRuns ==
  ASSUME run \in [Runners -> Run], NEW w \in Runners, NEW pc, Goto(w, pc), NEW D, NEW PC,
         pc \in PC => run[w].pc \in PC
  PROVE  /\ RunsWith(run', D, PC) \subseteq RunsWith(run, D, PC)
         /\ pc \notin PC => w \notin RunsWith(run', D, PC)
  BY DEF Goto, RunsWith, Run

LEMMA GotoRunsAdded ==
  ASSUME run \in [Runners -> Run], NEW w \in Runners, NEW pc, Goto(w, pc), NEW D, NEW PC
  PROVE  /\ RunsWith(run', D, PC) \subseteq RunsWith(run, D, PC) \cup {w}
         /\ run[w].data \notin D => RunsWith(run', D, PC) \subseteq RunsWith(run, D, PC)
  BY DEF Goto, RunsWith, Run

\* The sets of a balance fit the code: a delivery makes no job of A, and the runs that make
\* one are those of D at the awaits PC, which are left by making it.
Fits(e, A, D, PC) ==
  /\ D \subseteq About(e)
  /\ MayQueue \subseteq PC /\ PC \subseteq MayRetry
  /\ "schedule" \in PC => "markOk" \in PC /\ "markErr" \in PC
  /\ \A f \in Events : ProcessJob(f).data \notin A
  /\ \A d \in JobData : SyncJob(d.event).data \in A => d \in D /\ "markOk" \notin PC
  /\ \A d \in JobData : RetryJob(d).data \in A => d \in D /\ "schedule" \in PC

\* A step that makes no job of A and starts no run of D keeps the balance.
LEMMA BalanceKept ==
  ASSUME TypeOK, TypeOK', DataKept, RunsKept, NEW e \in Events, NEW A, NEW D, NEW PC,
         Balanced(e, A, D, PC),
         JobsWith(jobs', A) = JobsWith(jobs, A),
         RunsWith(run', D, PC) \subseteq RunsWith(run, D, PC),
         events[e].retryCount <= events'[e].retryCount
  PROVE  Balanced(e, A, D, PC)'
  <1>1. events[e].retryCount \in Nat /\ events'[e].retryCount \in Nat
    BY DEF TypeOK, EventRow
  <1>2. StartsWith(jobs, D) \subseteq StartsWith(jobs', D)
    BY StartsGrow DEF TypeOK
  <1>3. /\ IsFiniteSet(JobsWith(jobs, A)) /\ IsFiniteSet(RunsWith(run, D, PC))
        /\ IsFiniteSet(StartsWith(jobs, D)) /\ IsFiniteSet(StartsWith(jobs', D))
    BY JobsFinite, RunsFinite, StartsFinite DEF TypeOK
  <1> QED
    BY <1>1, <1>2, <1>3, NothingMade DEF Balanced

\* A run of D that makes its job and leaves PC keeps it too.
LEMMA BalanceMade ==
  ASSUME TypeOK, TypeOK', DataKept, NEW e \in Events, NEW A, NEW D, NEW PC,
         Balanced(e, A, D, PC), NEW x \in Job, jobs' = Append(jobs, x), events' = events,
         NEW w \in Runners, run[w].pc \in PC, run[w].data \in D,
         NEW pc, Goto(w, pc), pc \notin PC
  PROVE  Balanced(e, A, D, PC)'
  <1>1. events[e].retryCount \in Nat
    BY DEF TypeOK, EventRow
  <1>2. StartsWith(jobs, D) \subseteq StartsWith(jobs', D)
    BY StartsGrow, AddedRuns DEF TypeOK
  <1>3. /\ IsFiniteSet(JobsWith(jobs, A)) /\ IsFiniteSet(RunsWith(run, D, PC))
        /\ IsFiniteSet(StartsWith(jobs, D)) /\ IsFiniteSet(StartsWith(jobs', D))
    BY JobsFinite, RunsFinite, StartsFinite DEF TypeOK
  <1>4. JobsWith(jobs', A) \subseteq JobsWith(jobs, A) \cup {Len(jobs) + 1}
    BY AddedJobsWith DEF TypeOK
  <1>5. /\ RunsWith(run', D, PC) \subseteq RunsWith(run, D, PC)
        /\ w \notin RunsWith(run', D, PC)
    BY GotoRuns DEF TypeOK
  <1>6. w \in RunsWith(run, D, PC)
    BY DEF RunsWith
  <1>7. Cardinality(JobsWith(jobs', A)) + Cardinality(RunsWith(run', D, PC))
          <= Cardinality(StartsWith(jobs', D)) + events[e].retryCount
    <2> DEFINE J == JobsWith(jobs, A)   J1 == JobsWith(jobs', A)
               P == RunsWith(run, D, PC)   P1 == RunsWith(run', D, PC)
               S == StartsWith(jobs, D)   S1 == StartsWith(jobs', D)
    <2>1. Cardinality(J) + Cardinality(P) <= Cardinality(S) + events[e].retryCount
      BY DEF Balanced
    <2>2. /\ IsFiniteSet(J) /\ IsFiniteSet(P) /\ IsFiniteSet(S) /\ IsFiniteSet(S1)
          /\ S \subseteq S1 /\ J1 \subseteq J \cup {Len(jobs) + 1}
          /\ P1 \subseteq P /\ w \in P /\ w \notin P1
      BY <1>2, <1>3, <1>4, <1>5, <1>6
    <2> HIDE DEF J, J1, P, P1, S, S1
    <2>3. Cardinality(J1) + Cardinality(P1) <= Cardinality(S1) + events[e].retryCount
      BY <1>1, <2>1, <2>2, OneMade
    <2> QED BY <2>3 DEF J, J1, P, P1, S, S1
  <1> QED
    BY <1>7 DEF Balanced

\* Every step of the pipeline keeps a balance that fits it.
LEMMA StepBalanced ==
  ASSUME TypeOK, Next, NEW e \in Events, NEW A, NEW D, NEW PC,
         Fits(e, A, D, PC), Balanced(e, A, D, PC)
  PROVE  Balanced(e, A, D, PC)'
  <1>0. TypeOK' /\ DataKept
    BY StepType
  <1>a. ASSUME NEW w \in Runners
        PROVE  /\ run[w].data.event \in Events /\ run[w].data \in JobData
               /\ run[w].data.event # e => run[w].data \notin D
    BY RunType DEF TypeOK, Fits, About
  <1>b. ASSUME RunsKept, JobsWith(jobs', A) = JobsWith(jobs, A),
               RunsWith(run', D, PC) \subseteq RunsWith(run, D, PC),
               events[e].retryCount <= events'[e].retryCount
        PROVE  Balanced(e, A, D, PC)'
    BY <1>0, <1>b, BalanceKept
  <1>c. jobs' = jobs => RunsKept /\ JobsWith(jobs', A) = JobsWith(jobs, A)
    BY UnchangedRuns DEF TypeOK
  <1>d. events[e].retryCount \in Nat
    BY DEF TypeOK, EventRow
  <1>e. PC \subseteq MayRetry /\ "load" \in PC /\ "process" \in PC
    BY DEF Fits, MayQueue
  <1>1. ASSUME NEW f \in Events, Deliver(f) PROVE Balanced(e, A, D, PC)'
    <2>1. events'[e].retryCount = events[e].retryCount
      BY <1>1 DEF Deliver, TypeOK, EventRow
    <2>2. RunsKept /\ JobsWith(jobs', A) = JobsWith(jobs, A)
      <3>1. CASE jobs' = jobs
        BY <1>c, <3>1
      <3>2. CASE jobs' = Append(jobs, ProcessJob(f))
        BY <3>2, NewJobs, AddedRuns, AddedJobsWith DEF TypeOK, Fits
      <3> QED BY <1>1, <3>1, <3>2 DEF Deliver
    <2> QED BY <1>1, <1>b, <1>d, <2>1, <2>2 DEF Deliver
  <1>2. ASSUME NEW w \in Operators, NEW f \in Events, ManualRetry(w, f)
        PROVE  Balanced(e, A, D, PC)'
    <2>1. "increment" \notin PC
      BY <1>e DEF MayRetry
    <2>2. RunsWith(run', D, PC) \subseteq RunsWith(run, D, PC)
      BY <1>2, <2>1 DEF ManualRetry, RunsWith, TypeOK, Runners
    <2>3. jobs' = jobs /\ events' = events
      BY <1>2 DEF ManualRetry
    <2> QED BY <1>b, <1>c, <1>d, <2>2, <2>3
  <1>3. ASSUME NEW w \in Runners, NEW pc \in {"load", "sync"}, Take(w, pc)
        PROVE  Balanced(e, A, D, PC)'
    <2>1. PICK j \in 1 .. Len(jobs) :
            /\ jobs[j].state # "active"
            /\ jobs' = [jobs EXCEPT ![j] = [@ EXCEPT !.state = "active", !.owner = w]]
            /\ run' = [run EXCEPT ![w] = [pc |-> pc, job |-> j, data |-> jobs[j].data]]
      BY <1>3 DEF Take, NextUp, Waiting, Delayed, Ids
    <2> DEFINE x == [jobs[j] EXCEPT !.state = "active", !.owner = w]
    <2>2. x \in Job /\ x.data = jobs[j].data /\ Runs(x) = Runs(jobs[j]) + 1
          /\ Runs(jobs[j]) \in Nat /\ jobs' = [jobs EXCEPT ![j] = x]
      BY <2>1, JobType, TakenType, TakenRuns, RunsType, ElementOfSeq DEF TypeOK
    <2> HIDE DEF x
    <2>3. RunsKept /\ jobs'[j] = x /\ Len(jobs') = Len(jobs)
      <3>1. Runs(jobs[j]) <= Runs(x)
        BY <2>2
      <3>2. RunsKept /\ jobs'[j] = x
        BY <2>2, <3>1, ReplacedRuns DEF TypeOK
      <3>3. Len(jobs') = Len(jobs)
        BY <2>2, ReplacedJob DEF TypeOK
      <3> QED BY <3>2, <3>3
    <2>4. JobsWith(jobs', A) = JobsWith(jobs, A) /\ events' = events
      BY <1>0, <1>3, <2>3, SameJobsWith DEF Take
    <2>5. CASE jobs[j].data \notin D \/ pc = "sync"
      <3>1. "sync" \notin PC
        BY <1>e DEF MayRetry
      <3>2. RunsWith(run', D, PC) \subseteq RunsWith(run, D, PC)
        BY <2>1, <2>5, <3>1 DEF RunsWith, TypeOK
      <3> QED BY <1>b, <1>d, <2>3, <2>4, <3>2
    <2>6. CASE jobs[j].data \in D
      <3>1. RunsWith(run', D, PC) \subseteq RunsWith(run, D, PC) \cup {w}
        BY <2>1 DEF RunsWith, TypeOK
      <3>2. /\ <<j, Runs(jobs[j]) + 1>> \in StartsWith(jobs', D)
            /\ <<j, Runs(jobs[j]) + 1>> \notin StartsWith(jobs, D)
        BY <1>0, <2>2, <2>3, <2>6, StartAdded DEF TypeOK
      <3>3. StartsWith(jobs, D) \subseteq StartsWith(jobs', D)
        BY <1>0, <2>3, StartsGrow DEF TypeOK
      <3>4. /\ IsFiniteSet(JobsWith(jobs, A)) /\ IsFiniteSet(RunsWith(run, D, PC))
            /\ IsFiniteSet(StartsWith(jobs, D)) /\ IsFiniteSet(StartsWith(jobs', D))
        BY <1>0, JobsFinite, RunsFinite, StartsFinite DEF TypeOK
      <3>5. Cardinality(JobsWith(jobs, A)) + Cardinality(RunsWith(run', D, PC))
              <= Cardinality(StartsWith(jobs', D)) + events[e].retryCount
        BY <1>d, <3>1, <3>2, <3>3, <3>4, OneStarted DEF Balanced
      <3> QED BY <2>4, <3>5 DEF Balanced
    <2> QED BY <2>5, <2>6
  <1>4. ASSUME NEW w \in Runners, Increment(w) PROVE Balanced(e, A, D, PC)'
    <2>1. CASE Goto(w, "settleErr") /\ events' = events
      <3>1. "settleErr" \notin PC
        BY <1>e DEF MayRetry
      <3> QED BY <1>4, <1>b, <1>c, <1>d, <2>1, <3>1, GotoRuns DEF Increment, TypeOK
    <2>2. CASE /\ Goto(w, "load")
               /\ events' = [events EXCEPT ![run[w].data.event].retryCount = @ + 1]
      <3>1. CASE run[w].data.event # e
        <4>1. events'[e] = events[e]
          BY <1>a, <2>2, <3>1 DEF TypeOK
        <4>2. RunsWith(run', D, PC) \subseteq RunsWith(run, D, PC)
          BY <1>a, <2>2, <3>1, GotoRunsAdded DEF TypeOK
        <4> QED BY <1>4, <1>b, <1>c, <1>d, <4>1, <4>2 DEF Increment
      <3>2. CASE run[w].data.event = e
        <4>1. events'[e].retryCount = events[e].retryCount + 1
          BY <2>2, <3>2 DEF TypeOK, EventRow
        <4>2. RunsWith(run', D, PC) \subseteq RunsWith(run, D, PC) \cup {w}
          BY <2>2, GotoRunsAdded DEF TypeOK
        <4>3. /\ IsFiniteSet(JobsWith(jobs, A)) /\ IsFiniteSet(RunsWith(run, D, PC))
              /\ IsFiniteSet(StartsWith(jobs, D))
          BY JobsFinite, RunsFinite, StartsFinite DEF TypeOK
        <4>4. Cardinality(JobsWith(jobs, A)) + Cardinality(RunsWith(run', D, PC))
                <= Cardinality(StartsWith(jobs, D)) + (events[e].retryCount + 1)
          BY <1>d, <4>2, <4>3, OneCounted DEF Balanced
        <4> QED BY <1>4, <4>1, <4>4 DEF Balanced, Increment
      <3> QED BY <3>1, <3>2
    <2> QED BY <1>4, <2>1, <2>2 DEF Increment

  <1>5. ASSUME NEW w \in Runners, Load(w) PROVE Balanced(e, A, D, PC)'
    <2>1. "settleOk" \notin PC /\ "catch" \notin PC
      BY <1>e DEF MayRetry
    <2>2. RunsWith(run', D, PC) \subseteq RunsWith(run, D, PC)
      BY <1>5, <1>e, <2>1, GotoRuns DEF Load, TypeOK
    <2> QED BY <1>5, <1>b, <1>c, <1>d, <2>2 DEF Load
  <1>6. ASSUME NEW w \in Runners, Process(w) PROVE Balanced(e, A, D, PC)'
    <2> DEFINE x == SyncJob(run[w].data.event)
    <2>1. RunsWith(run', D, PC) \subseteq RunsWith(run, D, PC)
      BY <1>6, <1>e, GotoRuns DEF Process, TypeOK
    <2>2. CASE jobs' = jobs
      BY <1>6, <1>b, <1>c, <1>d, <2>1, <2>2 DEF Process
    <2>3. CASE jobs' = Append(jobs, x) /\ Goto(w, "markOk")
      <3>1. x \in Job
        BY <1>a, NewJobs
      <3>2. CASE x.data \notin A
        <4>1. RunsKept /\ JobsWith(jobs', A) = JobsWith(jobs, A)
          BY <2>3, <3>1, <3>2, AddedRuns, AddedJobsWith DEF TypeOK
        <4> QED BY <1>6, <1>b, <1>d, <2>1, <4>1 DEF Process
      <3>3. CASE x.data \in A
        <4>1. run[w].data \in D /\ "markOk" \notin PC /\ run[w].pc \in PC
          BY <1>6, <1>a, <1>e, <3>3 DEF Fits, Process
        <4> HIDE DEF x
        <4> QED BY <1>0, <1>6, <2>3, <3>1, <4>1, BalanceMade DEF Process
      <3> QED BY <3>2, <3>3
    <2> QED BY <1>6, <2>2, <2>3 DEF Process
  <1>7. ASSUME NEW w \in Runners, Mark(w) PROVE Balanced(e, A, D, PC)'
    <2>1. "settleOk" \notin PC /\ "settleErr" \notin PC /\ "catch" \notin PC
      BY <1>e DEF MayRetry
    <2>2. RunsWith(run', D, PC) \subseteq RunsWith(run, D, PC)
      <3>1. "schedule" \in PC => run[w].pc \in PC
        BY <1>7 DEF Mark, Fits
      <3> QED BY <1>7, <2>1, <3>1, GotoRuns DEF Mark, TypeOK
    <2>3. events'[e].retryCount = events[e].retryCount
      BY <1>7, <1>a DEF Mark, MarkProcessed, TypeOK, EventRow
    <2> QED BY <1>7, <1>b, <1>c, <1>d, <2>2, <2>3 DEF Mark
  <1>8. ASSUME NEW w \in Runners, Catch(w) PROVE Balanced(e, A, D, PC)'
    <2>1. "settleErr" \notin PC
      BY <1>e DEF MayRetry
    <2>2. RunsWith(run', D, PC) \subseteq RunsWith(run, D, PC)
      BY <1>8, <2>1, GotoRuns DEF Catch, TypeOK
    <2>3. events'[e].retryCount = events[e].retryCount
      BY <1>8, <1>a DEF Catch, MarkProcessed, TypeOK, EventRow
    <2> QED BY <1>8, <1>b, <1>c, <1>d, <2>2, <2>3 DEF Catch
  <1>9. ASSUME NEW w \in Runners, Schedule(w) PROVE Balanced(e, A, D, PC)'
    <2> DEFINE x == RetryJob(run[w].data)
    <2>1. "settleErr" \notin PC
      BY <1>e DEF MayRetry
    <2>2. RunsWith(run', D, PC) \subseteq RunsWith(run, D, PC)
      BY <1>9, <2>1, GotoRuns DEF Schedule, TypeOK
    <2>3. CASE jobs' = jobs
      BY <1>9, <1>b, <1>c, <1>d, <2>2, <2>3 DEF Schedule
    <2>4. CASE jobs' = Append(jobs, x)
      <3>1. x \in Job
        BY <1>a, NewJobs
      <3>2. CASE x.data \notin A
        <4>1. RunsKept /\ JobsWith(jobs', A) = JobsWith(jobs, A)
          BY <2>4, <3>1, <3>2, AddedRuns, AddedJobsWith DEF TypeOK
        <4> QED BY <1>9, <1>b, <1>d, <2>2, <4>1 DEF Schedule
      <3>3. CASE x.data \in A
        <4>1. run[w].data \in D /\ run[w].pc \in PC
          BY <1>9, <1>a, <3>3 DEF Fits, Schedule
        <4> HIDE DEF x
        <4> QED BY <1>0, <1>9, <2>1, <2>4, <3>1, <4>1, BalanceMade DEF Schedule
      <3> QED BY <3>2, <3>3
    <2> QED BY <1>9, <2>3, <2>4 DEF Schedule
  <1>10. ASSUME NEW w \in Runners, ExecuteSync(w) PROVE Balanced(e, A, D, PC)'
    <2>1. "settleOk" \notin PC /\ "settleErr" \notin PC
      BY <1>e DEF MayRetry
    <2>2. RunsWith(run', D, PC) \subseteq RunsWith(run, D, PC)
      BY <1>10, <2>1, GotoRuns DEF ExecuteSync, TypeOK
    <2> QED BY <1>10, <1>b, <1>c, <1>d, <2>2 DEF ExecuteSync
  \* A step that only replaces a job by one handed out as often.
  <1>f. ASSUME NEW j \in 1 .. Len(jobs), NEW x \in Job, x.data = jobs[j].data,
               Runs(x) = Runs(jobs[j]), jobs' = [jobs EXCEPT ![j] = x]
        PROVE  RunsKept /\ JobsWith(jobs', A) = JobsWith(jobs, A)
    <2>1. Runs(jobs[j]) \in Nat
      BY RunsType, ElementOfSeq DEF TypeOK
    <2>a. Runs(jobs[j]) <= Runs(x)
      BY <1>f, <2>1
    <2>2. RunsKept
      BY <1>f, <2>a, ReplacedRuns DEF TypeOK
    <2>3. Len(jobs') = Len(jobs)
      BY <1>f, ReplacedJob DEF TypeOK
    <2> QED
      BY <1>0, <2>2, <2>3, SameJobsWith
  <1>11. ASSUME NEW w \in Runners, Settle(w) PROVE Balanced(e, A, D, PC)'
    <2>1. RunsWith(run', D, PC) \subseteq RunsWith(run, D, PC)
      BY <1>11, <1>e DEF Settle, IdleRun, RunsWith, TypeOK, MayRetry
    <2>2. RunsKept /\ JobsWith(jobs', A) = JobsWith(jobs, A)
      <3>1. CASE ~Holds(w)
        BY <1>11, <1>c, <3>1 DEF Settle
      <3>2. CASE Holds(w)
        <4>1. /\ run[w].job \in 1 .. Len(jobs) /\ jobs[run[w].job] \in Job
              /\ jobs[run[w].job].state = "active"
          BY <3>2, ElementOfSeq DEF Holds, Ids, TypeOK
        <4>2. jobs' = [jobs EXCEPT ![run[w].job] =
                         Finished(jobs[run[w].job], run[w].pc = "settleOk")]
          BY <1>11, <3>2 DEF Settle
        <4> QED BY <1>f, <4>1, <4>2, FinishedType, FinishedRuns
      <3> QED BY <3>1, <3>2
    <2>3. events' = events
      BY <1>11 DEF Settle
    <2> QED BY <1>b, <1>d, <2>1, <2>2, <2>3
  <1>12. ASSUME NEW I \in Instances, Crash(I) PROVE Balanced(e, A, D, PC)'
    <2>1. RunsWith(run', D, PC) \subseteq RunsWith(run, D, PC)
      BY <1>12, <1>e DEF Crash, IdleRun, RunsWith, MayRetry
    <2> QED BY <1>12, <1>b, <1>c, <1>d, <2>1 DEF Crash
  <1>13. ASSUME NEW j \in 1 .. Len(jobs), Recover(j) \/ LoseLock(j)
         PROVE  Balanced(e, A, D, PC)'
    <2>1. /\ jobs[j] \in Job /\ jobs[j].state = "active"
          /\ jobs' = [jobs EXCEPT ![j] = Redelivered(jobs[j])]
      BY <1>13, ElementOfSeq DEF Recover, LoseLock, Orphaned, TypeOK
    <2>2. RunsKept /\ JobsWith(jobs', A) = JobsWith(jobs, A)
      BY <1>f, <2>1, RedeliveredType, RedeliveredRuns
    <2>3. RunsWith(run', D, PC) = RunsWith(run, D, PC) /\ events' = events
      BY <1>13 DEF Recover, LoseLock
    <2> QED BY <1>b, <1>d, <2>2, <2>3
  <1>14. Handlers \subseteq Runners /\ Syncers \subseteq Runners
    BY DEF Runners
  <1> QED
    BY <1>1, <1>2, <1>3, <1>4, <1>5, <1>6, <1>7, <1>8, <1>9, <1>10, <1>11, <1>12,
       <1>13, <1>14 DEF Next, Ids

\* The data of the jobs the code adds.
LEMMA NewJobData ==
  /\ \A e \in Events : /\ ProcessJob(e).data.event = e
                       /\ ProcessJob(e).data.retryCount = 0
                       /\ ProcessJob(e).data.payload = "raw"
  /\ \A e \in Events : /\ SyncJob(e).data.event = e
                       /\ SyncJob(e).data.retryCount = 0
                       /\ SyncJob(e).data.payload = "sync"
  /\ \A d \in JobData : /\ RetryJob(d).data.event = d.event
                        /\ RetryJob(d).data.retryCount = d.retryCount + 1
                        /\ RetryJob(d).data.payload = d.payload
  BY DEF ProcessJob, SyncJob, RetryJob, NewJob, JobData

\* Sync requests and retries are made as a balance asks.
LEMMA SyncsFit ==
  ASSUME NEW e \in Events
  PROVE  Fits(e, SyncData(e), About(e), MayQueue)
  <1>1. ASSUME NEW f \in Events PROVE ProcessJob(f).data \notin SyncData(e)
    BY NewJobData DEF SyncData
  <1>2. ASSUME NEW d \in JobData, SyncJob(d.event).data \in SyncData(e) PROVE d \in About(e)
    <2>1. d.event \in Events
      BY DEF JobData
    <2>2. SyncJob(d.event).data.event = d.event
      BY <2>1, NewJobData
    <2> QED BY <1>2, <2>2 DEF SyncData, About
  <1>3. ASSUME NEW d \in JobData PROVE RetryJob(d).data \notin SyncData(e)
    <2>1. RetryJob(d).data.retryCount = d.retryCount + 1 /\ d.retryCount \in Nat
      BY NewJobData DEF JobData
    <2> QED BY <2>1 DEF SyncData
  <1>4. About(e) \subseteq About(e) /\ MayQueue \subseteq MayRetry
        /\ "schedule" \notin MayQueue /\ "markOk" \notin MayQueue
    BY DEF MayQueue, MayRetry
  <1> QED
    BY <1>1, <1>2, <1>3, <1>4 DEF Fits

LEMMA RetriesFit ==
  ASSUME NEW e \in Events, NEW k \in Nat
  PROVE  Fits(e, OnRetry(e, k + 1), OnRetry(e, k), MayRetry)
  <1>1. ASSUME NEW f \in Events PROVE ProcessJob(f).data \notin OnRetry(e, k + 1)
    BY NewJobData DEF OnRetry
  <1>2. ASSUME NEW d \in JobData PROVE SyncJob(d.event).data \notin OnRetry(e, k + 1)
    <2>1. d.event \in Events
      BY DEF JobData
    <2>2. SyncJob(d.event).data.retryCount = 0
      BY <2>1, NewJobData
    <2> QED BY <2>2 DEF OnRetry
  <1>3. ASSUME NEW d \in JobData, RetryJob(d).data \in OnRetry(e, k + 1)
        PROVE  d \in OnRetry(e, k)
    <2>1. /\ RetryJob(d).data.event = d.event /\ d.retryCount \in Nat
          /\ RetryJob(d).data.retryCount = d.retryCount + 1
      BY NewJobData DEF JobData
    <2> QED BY <1>3, <2>1 DEF OnRetry
  <1>4. /\ OnRetry(e, k) \subseteq About(e) /\ MayQueue \subseteq MayRetry
        /\ "schedule" \in MayRetry /\ "markOk" \in MayRetry /\ "markErr" \in MayRetry
    BY DEF MayQueue, MayRetry, OnRetry, About
  <1> QED
    BY <1>1, <1>2, <1>3, <1>4 DEF Fits

\* What one step may do to the queue.
QueueStep ==
  \/ jobs' = jobs
  \/ \E e \in Events : jobs' = Append(jobs, ProcessJob(e)) /\ Deliver(e)
  \/ \E w \in Runners : jobs' = Append(jobs, SyncJob(run[w].data.event))
  \/ \E w \in Runners : /\ run[w].pc = "schedule"
                        /\ jobs' = Append(jobs, RetryJob(run[w].data))
  \/ \E j \in 1 .. Len(jobs), w \in Runners :
       /\ jobs[j].state \in {"waiting", "delayed"}
       /\ jobs' = [jobs EXCEPT ![j] = [@ EXCEPT !.state = "active", !.owner = w]]
  \/ \E j \in 1 .. Len(jobs), ok \in BOOLEAN :
       jobs[j].state = "active" /\ jobs' = [jobs EXCEPT ![j] = Finished(@, ok)]
  \/ \E j \in 1 .. Len(jobs) :
       jobs[j].state = "active" /\ jobs' = [jobs EXCEPT ![j] = Redelivered(@)]

LEMMA StepQueue ==
  ASSUME TypeOK, Next
  PROVE  QueueStep
  <1>1. ASSUME NEW e \in Events, Deliver(e) PROVE QueueStep
    BY <1>1 DEF Deliver, QueueStep
  <1>2. ASSUME NEW w \in Runners, NEW pc, Take(w, pc) PROVE QueueStep
    <2>1. PICK j \in 1 .. Len(jobs) :
            /\ jobs[j].state \in {"waiting", "delayed"}
            /\ jobs' = [jobs EXCEPT ![j] = [@ EXCEPT !.state = "active", !.owner = w]]
      BY <1>2 DEF Take, NextUp, Waiting, Delayed, Ids
    <2> QED BY <2>1 DEF QueueStep
  <1>3. ASSUME NEW w \in Runners, Process(w) PROVE QueueStep
    BY <1>3 DEF Process, QueueStep
  <1>4. ASSUME NEW w \in Runners, Schedule(w) PROVE QueueStep
    BY <1>4 DEF Schedule, QueueStep
  <1>5. ASSUME NEW w \in Runners, Settle(w) PROVE QueueStep
    BY <1>5 DEF Settle, Holds, Ids, QueueStep
  <1>6. ASSUME NEW j \in 1 .. Len(jobs), Recover(j) \/ LoseLock(j) PROVE QueueStep
    BY <1>6 DEF Recover, LoseLock, Orphaned, QueueStep
  <1>7. ASSUME NEW w \in Runners, Increment(w) \/ Load(w) \/ Mark(w) \/ Catch(w) \/ ExecuteSync(w)
        PROVE  QueueStep
    BY <1>7 DEF Increment, Load, Mark, Catch, ExecuteSync, QueueStep
  <1>8. ASSUME NEW w, NEW e, ManualRetry(w, e) PROVE QueueStep
    BY <1>8 DEF ManualRetry, QueueStep
  <1>9. ASSUME NEW I \in Instances, Crash(I) PROVE QueueStep
    BY <1>9 DEF Crash, QueueStep
  <1>10. Handlers \subseteq Runners /\ Syncers \subseteq Runners
    BY DEF Runners
  <1> QED
    BY <1>1, <1>2, <1>3, <1>4, <1>5, <1>6, <1>7, <1>8, <1>9, <1>10 DEF Next, Ids

\* Only a delivery spends one.
LEMMA StepDeliveries ==
  ASSUME TypeOK, Next
  PROVE  \/ left'.deliveries = left.deliveries
         \/ \E e \in Events : Deliver(e) /\ left'.deliveries = left.deliveries - 1
  <1>1. ASSUME NEW e \in Events, Deliver(e) PROVE left'.deliveries = left.deliveries - 1
    BY <1>1 DEF Deliver, TypeOK, Budget
  <1>2. ASSUME Fault \/ Spend("manual") PROVE left'.deliveries = left.deliveries
    BY <1>2 DEF Fault, Spend, TypeOK, Budget
  <1> QED
    BY <1>1, <1>2 DEF Next, ManualRetry, Take, Increment, Load, Process, Mark, Catch, Schedule,
       ExecuteSync, Settle, Crash, Recover, LoseLock

\* Every step keeps the count of the deliveries.
LEMMA StepDelivered ==
  ASSUME TypeOK, Next, DeliveriesCounted
  PROVE  DeliveriesCounted'
  <1> DEFINE J == JobsWith(jobs, RawData)
  <1>0. TypeOK' /\ DataKept
    BY StepType
  <1>1. left.deliveries \in Nat /\ IsFiniteSet(J) /\ MaxDeliveries \in Nat
    BY JobsFinite, BoundsAssumption DEF TypeOK, Budget
  <1>2. Cardinality(J) \in Nat /\ Cardinality(J) <= MaxDeliveries - left.deliveries
    BY <1>1, FS_CardinalityType DEF DeliveriesCounted
  <1>3. ASSUME JobsWith(jobs', RawData) = J PROVE DeliveriesCounted'
    <2>1. left'.deliveries = left.deliveries \/ left'.deliveries = left.deliveries - 1
      BY StepDeliveries
    <2> HIDE DEF J
    <2> QED BY <1>1, <1>2, <1>3, <2>1 DEF DeliveriesCounted
  <1>4. ASSUME NEW e \in Events, Deliver(e), jobs' = Append(jobs, ProcessJob(e))
        PROVE  DeliveriesCounted'
    <2>1. JobsWith(jobs', RawData) \subseteq J \cup {Len(jobs) + 1}
      BY <1>4, NewJobs, AddedJobsWith DEF TypeOK
    <2>2. left'.deliveries = left.deliveries - 1
      BY <1>4 DEF Deliver, TypeOK, Budget
    <2> HIDE DEF J
    <2>3. /\ Cardinality(JobsWith(jobs', RawData)) <= Cardinality(J) + 1
          /\ Cardinality(JobsWith(jobs', RawData)) \in Nat
      BY <1>1, <2>1, AtMostOneMore, FS_CardinalityType
    <2> QED BY <1>1, <1>2, <2>2, <2>3 DEF DeliveriesCounted
  <1>5. ASSUME NEW x \in Job, x.data \notin RawData, jobs' = Append(jobs, x)
        PROVE  JobsWith(jobs', RawData) = J
    BY <1>5, AddedJobsWith DEF TypeOK
  <1>6. ASSUME NEW j \in 1 .. Len(jobs), NEW x \in Job, x.data = jobs[j].data,
               jobs' = [jobs EXCEPT ![j] = x]
        PROVE  JobsWith(jobs', RawData) = J
    BY <1>0, <1>6, ReplacedJob, SameJobsWith DEF TypeOK
  <1>7. CASE \E w \in Runners : jobs' = Append(jobs, SyncJob(run[w].data.event))
    <2>1. PICK w \in Runners : jobs' = Append(jobs, SyncJob(run[w].data.event))
      BY <1>7
    <2>2. run[w].data.event \in Events
      BY RunType DEF TypeOK
    <2> QED BY <1>3, <1>5, <2>1, <2>2, NewJobs, NewJobData DEF RawData
  <1>8. CASE \E w \in Runners : jobs' = Append(jobs, RetryJob(run[w].data))
    <2>1. PICK w \in Runners : jobs' = Append(jobs, RetryJob(run[w].data))
      BY <1>8
    <2>2. run[w].data \in JobData /\ run[w].data.retryCount \in Nat
      BY RunType DEF TypeOK
    <2>3. RetryJob(run[w].data) \in Job /\ RetryJob(run[w].data).data \notin RawData
      BY <2>2, NewJobs, NewJobData DEF RawData
    <2> QED BY <1>3, <1>5, <2>1, <2>3
  <1>9. CASE jobs' = jobs
    BY <1>3, <1>9
  <1>10. ASSUME NEW j \in 1 .. Len(jobs), NEW w \in Runners,
                jobs' = [jobs EXCEPT ![j] = [@ EXCEPT !.state = "active", !.owner = w]]
         PROVE  DeliveriesCounted'
    BY <1>3, <1>6, <1>10, ElementOfSeq, TakenType DEF TypeOK
  <1>11. ASSUME NEW j \in 1 .. Len(jobs), NEW ok \in BOOLEAN,
                jobs' = [jobs EXCEPT ![j] = Finished(@, ok)]
         PROVE  DeliveriesCounted'
    BY <1>3, <1>6, <1>11, ElementOfSeq, FinishedType DEF TypeOK
  <1>12. ASSUME NEW j \in 1 .. Len(jobs), jobs' = [jobs EXCEPT ![j] = Redelivered(@)]
         PROVE  DeliveriesCounted'
    BY <1>3, <1>6, <1>12, ElementOfSeq, RedeliveredType DEF TypeOK
  <1>13. QueueStep
    BY StepQueue
  <1> QED
    BY <1>4, <1>7, <1>8, <1>9, <1>10, <1>11, <1>12, <1>13 DEF QueueStep

\* No job goes past MaxRetries: only a run below it schedules a retry.
LEMMA StepRetriesBounded ==
  ASSUME TypeOK, Next, RetriesBounded
  PROVE  RetriesBounded'
  <1>0. TypeOK' /\ DataKept /\ QueueStep
    BY StepType, StepQueue
  <1>1. ASSUME NEW j \in 1 .. Len(jobs') PROVE jobs'[j].data.retryCount <= MaxRetries
    <2>1. ASSUME j \in 1 .. Len(jobs) PROVE jobs'[j].data.retryCount <= MaxRetries
      BY <1>0, <2>1 DEF DataKept, RetriesBounded
    <2>2. ASSUME NEW x \in Job, x.data.retryCount <= MaxRetries, jobs' = Append(jobs, x)
          PROVE  jobs'[j].data.retryCount <= MaxRetries
      BY <2>1, <2>2, AddedJob, LenProperties DEF TypeOK
    <2>3. ASSUME NEW e \in Events, jobs' = Append(jobs, ProcessJob(e)) \/ jobs' = Append(jobs, SyncJob(e))
          PROVE  jobs'[j].data.retryCount <= MaxRetries
      BY <2>2, <2>3, NewJobs, NewJobData, BoundsAssumption
    <2>4. ASSUME NEW w \in Runners, run[w].pc = "schedule",
                 jobs' = Append(jobs, RetryJob(run[w].data))
          PROVE  jobs'[j].data.retryCount <= MaxRetries
      <3>1. run[w].data \in JobData /\ run[w].data.retryCount \in Nat
        BY RunType DEF TypeOK
      <3>2. RetryJob(run[w].data).data.retryCount <= MaxRetries
        BY <2>4, <3>1, NewJobData, BoundsAssumption DEF RetriesBounded
      <3> QED BY <2>2, <2>4, <3>1, <3>2, NewJobs
    <2>5. ASSUME NEW i \in 1 .. Len(jobs), NEW x, jobs' = [jobs EXCEPT ![i] = x]
          PROVE  jobs'[j].data.retryCount <= MaxRetries
      BY <2>1, <2>5, ExceptSeq, LenProperties DEF TypeOK
    <2>6. \A w \in Runners : run[w].data.event \in Events
      BY RunType DEF TypeOK
    <2> QED
      BY <1>0, <2>1, <2>3, <2>4, <2>5, <2>6 DEF QueueStep
  <1>2. ASSUME NEW v \in Runners, run'[v].pc = "schedule"
        PROVE  run'[v].data.retryCount < MaxRetries
    <2>1. ASSUME run'[v] = run[v] PROVE run'[v].data.retryCount < MaxRetries
      BY <1>2, <2>1 DEF RetriesBounded
    <2>2. ASSUME NEW w \in Runners, NEW pc, Goto(w, pc), pc # "schedule"
          PROVE  run'[v] = run[v]
      BY <1>2, <2>2 DEF Goto, TypeOK, Run
    <2>3. ASSUME NEW w \in Runners, Mark(w) PROVE run'[v].data.retryCount < MaxRetries
      <3>1. CASE Goto(w, "settleOk") \/ Goto(w, "settleErr") \/ Goto(w, "catch")
        BY <2>1, <2>2, <3>1
      <3>2. CASE Goto(w, "schedule") /\ run[w].data.retryCount < MaxRetries
        BY <2>1, <3>2 DEF Goto, TypeOK, Run
      <3> QED BY <2>3, <3>1, <3>2 DEF Mark
    <2>4. ASSUME NEW w \in Runners, NEW pc \in {"load", "sync"}, Take(w, pc) PROVE run'[v] = run[v]
      BY <1>2, <2>4 DEF Take, TypeOK, Run
    <2>5. ASSUME NEW w \in Operators, NEW e \in Events, ManualRetry(w, e) PROVE run'[v] = run[v]
      BY <1>2, <2>5 DEF ManualRetry, TypeOK, Run, Runners
    <2>6. ASSUME NEW w \in Runners, Settle(w) PROVE run'[v] = run[v]
      BY <1>2, <2>6 DEF Settle, IdleRun, TypeOK
    <2>7. ASSUME NEW I \in Instances, Crash(I) PROVE run'[v] = run[v]
      BY <1>2, <2>7 DEF Crash, IdleRun
    <2>8. ASSUME NEW w \in Runners,
                 Increment(w) \/ Load(w) \/ Process(w) \/ Catch(w) \/ Schedule(w) \/ ExecuteSync(w)
          PROVE  run'[v] = run[v]
      BY <2>2, <2>8 DEF Increment, Load, Process, Catch, Schedule, ExecuteSync
    <2>9. ASSUME NEW j, Recover(j) \/ LoseLock(j) PROVE run'[v] = run[v]
      BY <2>9 DEF Recover, LoseLock
    <2>10. ASSUME NEW e, Deliver(e) PROVE run'[v] = run[v]
      BY <2>10 DEF Deliver
    <2>11. Handlers \subseteq Runners /\ Syncers \subseteq Runners
      BY DEF Runners
    <2> QED
      BY <2>1, <2>3, <2>4, <2>5, <2>6, <2>7, <2>8, <2>9, <2>10, <2>11 DEF Next
  <1> QED
    BY <1>1, <1>2 DEF RetriesBounded

\* The inductive invariant, for every configuration.
LEMMA CausedInvariant == Spec => []Caused
  <1>1. Init => Caused
    <2> SUFFICES ASSUME Init PROVE Caused
      OBVIOUS
    <2>1. TypeOK /\ jobs = << >> /\ MaxDeliveries \in Nat
      BY IdleRunType, BoundsAssumption, EmptySeq DEF Init, TypeOK, EventRow, Budget
    <2>2. \A w \in Runners : run[w].pc = "idle"
      BY DEF Init, IdleRun
    <2>3. ASSUME NEW D, NEW PC, PC \subseteq MayRetry
          PROVE  JobsWith(jobs, D) = {} /\ StartsWith(jobs, D) = {} /\ RunsWith(run, D, PC) = {}
      BY <2>1, <2>2, <2>3, EmptySeq DEF JobsWith, StartsWith, RunsWith, MayRetry
    <2>4. ASSUME NEW e \in Events, NEW A, NEW D, NEW PC, PC \subseteq MayRetry
          PROVE  Balanced(e, A, D, PC)
      <3>1. events[e].retryCount = 0 /\ Cardinality({}) = 0
        BY FS_EmptySet DEF Init
      <3>2. /\ JobsWith(jobs, A) = {} /\ StartsWith(jobs, D) = {}
            /\ RunsWith(run, D, PC) = {}
        BY <2>3, <2>4
      <3> QED BY <3>1, <3>2 DEF Balanced
    <2>5. SyncsBalanced /\ RetriesBalanced
      BY <2>4 DEF SyncsBalanced, RetriesBalanced, MayQueue, MayRetry
    <2>6. DeliveriesCounted
      <3>1. JobsWith(jobs, RawData) = {}
        BY <2>1, EmptySeq DEF JobsWith
      <3>2. left.deliveries = MaxDeliveries
        BY DEF Init
      <3> QED BY <2>1, <3>1, <3>2, FS_EmptySet DEF DeliveriesCounted
    <2>7. RetriesBounded
      BY <2>1, <2>2, EmptySeq DEF RetriesBounded
    <2> QED BY <2>1, <2>5, <2>6, <2>7 DEF Caused
  <1>2. ASSUME Caused, Next PROVE Caused'
    <2>1. TypeOK' /\ DeliveriesCounted' /\ RetriesBounded'
      BY <1>2, StepType, StepDelivered, StepRetriesBounded DEF Caused
    <2>2. SyncsBalanced'
      BY <1>2, SyncsFit, StepBalanced DEF Caused, SyncsBalanced
    <2>3. RetriesBalanced'
      BY <1>2, RetriesFit, StepBalanced DEF Caused, RetriesBalanced
    <2> QED BY <2>1, <2>2, <2>3 DEF Caused
  <1>3. ASSUME Caused, UNCHANGED vars PROVE Caused'
    BY <1>3 DEF vars, Caused, TypeOK, DeliveriesCounted, SyncsBalanced, RetriesBalanced,
       RetriesBounded, Balanced
  <1> QED
    BY <1>1, <1>2, <1>3, PTL DEF Spec

\* A set of jobs of one kind of data: its starts are those of the data.
LEMMA CausedSets ==
  ASSUME TypeOK
  PROVE  /\ Delivered = JobsWith(jobs, RawData)
         /\ \A e \in Events : /\ JobsAbout(e) = JobsWith(jobs, About(e))
                              /\ SyncRequests(e) = JobsWith(jobs, SyncData(e))
         /\ \A e \in Events, k \in Nat : JobsOf(e, k) = JobsWith(jobs, OnRetry(e, k))
         /\ \A D : Starts(JobsWith(jobs, D)) = StartsWith(jobs, D)
  <1>1. \A j \in 1 .. Len(jobs) : jobs[j].data \in JobData
    BY JobType DEF TypeOK
  <1> QED
    BY <1>1 DEF Delivered, JobsAbout, SyncRequests, JobsOf, Ids, JobsWith, RawData, About,
                SyncData, OnRetry, Starts, StartsWith

\* What the inductive invariant is for.
LEMMA CausedImplies ==
  ASSUME Caused
  PROVE  EveryJobHasACause
  <1>0. TypeOK
    BY DEF Caused
  <1>1. Cardinality(Delivered) <= MaxDeliveries - left.deliveries
    BY <1>0, CausedSets DEF Caused, DeliveriesCounted
  \* A balance without the runs that are under way.
  <1>2. ASSUME NEW e \in Events, NEW A, NEW D, NEW PC, Balanced(e, A, D, PC)
        PROVE  Cardinality(JobsWith(jobs, A)) <= Cardinality(StartsWith(jobs, D)) + events[e].retryCount
    <2>1. /\ Cardinality(JobsWith(jobs, A)) \in Nat /\ Cardinality(RunsWith(run, D, PC)) \in Nat
          /\ Cardinality(StartsWith(jobs, D)) \in Nat /\ events[e].retryCount \in Nat
      BY <1>0, JobsFinite, RunsFinite, StartsFinite, FS_CardinalityType DEF TypeOK, EventRow
    <2> QED BY <1>2, <2>1 DEF Balanced
  <1>3. ASSUME NEW e \in Events
        PROVE  Cardinality(SyncRequests(e))
                 <= Cardinality(Starts(JobsAbout(e))) + events[e].retryCount
    <2>1. Balanced(e, SyncData(e), About(e), MayQueue)
      BY DEF Caused, SyncsBalanced
    <2> QED BY <1>0, <1>2, <2>1, CausedSets
  <1>4. ASSUME NEW e \in Events, NEW k \in 1 .. MaxRetries
        PROVE  Cardinality(JobsOf(e, k))
                 <= Cardinality(Starts(JobsOf(e, k - 1))) + events[e].retryCount
    <2>1. k - 1 \in Nat /\ k \in Nat /\ (k - 1) + 1 = k
      BY BoundsAssumption
    <2>2. Balanced(e, OnRetry(e, k), OnRetry(e, k - 1), MayRetry)
      BY <2>1 DEF Caused, RetriesBalanced
    <2> QED BY <1>0, <1>2, <2>1, <2>2, CausedSets
  <1>5. \A j \in Ids : jobs[j].data.retryCount <= MaxRetries
    BY DEF Caused, RetriesBounded, Ids
  <1> QED
    BY <1>1, <1>3, <1>4, <1>5 DEF EveryJobHasACause

\* Whatever is delivered, repeated, retried, redelivered, taken by the other worker or crashes,
\* every job on the queue has a cause of its own.
THEOREM EveryJobIsCaused == Spec => []EveryJobHasACause
  BY CausedInvariant, CausedImplies, PTL

-----------------------------------------------------------------------------
(* How far attempts, stalls and retries multiply                           *)

\* A job is handed out at most once more than it has attempts: the stalled check gives it
\* one start besides.
LEMMA StartsLeftBound ==
  ASSUME NEW x \in Job, StartsLeft(x)
  PROVE  Runs(x) <= x.attempts + 1
  BY DEF StartsLeft, Runs, Job, Live

\* A new job has all its starts left; taking, settling and redelivering keep to them.
LEMMA NewStartsLeft ==
  /\ \A e \in Events : StartsLeft(ProcessJob(e)) /\ StartsLeft(SyncJob(e))
  /\ \A d \in JobData : StartsLeft(RetryJob(d))
  <1>1. ASSUME NEW d \in JobData PROVE StartsLeft(RetryJob(d))
    BY DEF RetryJob, NewJob, StartsLeft, JobData
  <1>2. ASSUME NEW e \in Events PROVE StartsLeft(ProcessJob(e)) /\ StartsLeft(SyncJob(e))
    BY BoundsAssumption DEF ProcessJob, SyncJob, NewJob, StartsLeft
  <1> QED
    BY <1>1, <1>2

LEMMA TakenStartsLeft ==
  ASSUME NEW x \in Job, x.state \in {"waiting", "delayed"}, StartsLeft(x), NEW w \in Runners
  PROVE  StartsLeft([x EXCEPT !.state = "active", !.owner = w])
  BY DEF StartsLeft, Live, Job

LEMMA FinishedStartsLeft ==
  ASSUME NEW x \in Job, x.state = "active", StartsLeft(x), NEW ok \in BOOLEAN
  PROVE  StartsLeft(Finished(x, ok))
  BY DEF StartsLeft, Live, Job, Finished

LEMMA RedeliveredStartsLeft ==
  ASSUME NEW x \in Job, x.state = "active", StartsLeft(x)
  PROVE  StartsLeft(Redelivered(x))
  BY DEF StartsLeft, Live, Job, Redelivered

\* No job is handed to a worker more often than its attempts and one stall allow.
StartsWithinAttempts == \A j \in Ids : Runs(jobs[j]) <= jobs[j].attempts + 1

\* The retries of an event at most multiply by the starts of a job: Attempts + 1 for a job
\* made by a delivery or a sync request, two for a job that is itself a retry.
RetriesMultiply ==
  \A e \in Events, k \in 0 .. MaxRetries :
    Cardinality(JobsOf(e, k + 1))
      <= (IF k = 0 THEN Attempts + 1 ELSE 2) * Cardinality(JobsOf(e, k)) + events[e].retryCount

\* The invariant, for every configuration.
LEMMA StartsBoundedInvariant == Spec => []StartsBounded
  <1>1. Init => StartsBounded
    <2> SUFFICES ASSUME Init PROVE StartsBounded
      OBVIOUS
    <2>1. TypeOK
      BY IdleRunType, BoundsAssumption, EmptySeq DEF Init, TypeOK, EventRow, Budget
    <2> QED BY <2>1, EmptySeq DEF Init, StartsBounded
  <1>2. ASSUME StartsBounded, Next PROVE StartsBounded'
    <2>1. TypeOK /\ TypeOK' /\ QueueStep
      BY <1>2, StepType, StepQueue DEF StartsBounded
    <2>2. ASSUME NEW x \in Job, StartsLeft(x), jobs' = Append(jobs, x),
                 NEW j \in 1 .. Len(jobs')
          PROVE  StartsLeft(jobs'[j])
      BY <1>2, <2>1, <2>2, AppendProperties, LenProperties DEF StartsBounded, TypeOK
    <2>3. ASSUME NEW i \in 1 .. Len(jobs), NEW x, StartsLeft(x), jobs' = [jobs EXCEPT ![i] = x],
                 NEW j \in 1 .. Len(jobs')
          PROVE  StartsLeft(jobs'[j])
      BY <1>2, <2>1, <2>3, ExceptSeq DEF StartsBounded, TypeOK
    <2>4. ASSUME NEW w \in Runners
          PROVE  run[w].data \in JobData /\ run[w].data.event \in Events
      BY <2>1, RunType DEF TypeOK
    <2>5. ASSUME NEW j \in 1 .. Len(jobs) PROVE jobs[j] \in Job /\ StartsLeft(jobs[j])
      BY <1>2, <2>1, ElementOfSeq DEF StartsBounded, TypeOK
    <2>6. ASSUME NEW j \in 1 .. Len(jobs') PROVE StartsLeft(jobs'[j])
      <3>1. CASE jobs' = jobs
        BY <2>5, <2>6, <3>1
      <3>2. CASE \/ \E e \in Events : jobs' = Append(jobs, ProcessJob(e))
                 \/ \E w \in Runners : jobs' = Append(jobs, SyncJob(run[w].data.event))
                 \/ \E w \in Runners : jobs' = Append(jobs, RetryJob(run[w].data))
        BY <2>2, <2>4, <2>6, <3>2, NewJobs, NewStartsLeft
      <3>3. ASSUME NEW i \in 1 .. Len(jobs), NEW w \in Runners,
                   jobs[i].state \in {"waiting", "delayed"},
                   jobs' = [jobs EXCEPT ![i] = [@ EXCEPT !.state = "active", !.owner = w]]
            PROVE  StartsLeft(jobs'[j])
        BY <2>3, <2>5, <2>6, <3>3, TakenStartsLeft
      <3>4. ASSUME NEW i \in 1 .. Len(jobs), NEW ok \in BOOLEAN, jobs[i].state = "active",
                   jobs' = [jobs EXCEPT ![i] = Finished(@, ok)]
            PROVE  StartsLeft(jobs'[j])
        BY <2>3, <2>5, <2>6, <3>4, FinishedStartsLeft
      <3>5. ASSUME NEW i \in 1 .. Len(jobs), jobs[i].state = "active",
                   jobs' = [jobs EXCEPT ![i] = Redelivered(@)]
            PROVE  StartsLeft(jobs'[j])
        BY <2>3, <2>5, <2>6, <3>5, RedeliveredStartsLeft
      <3> QED
        BY <2>1, <3>1, <3>2, <3>3, <3>4, <3>5 DEF QueueStep
    <2> QED BY <2>1, <2>6 DEF StartsBounded
  <1>3. ASSUME StartsBounded, UNCHANGED vars PROVE StartsBounded'
    BY <1>3 DEF vars, StartsBounded, TypeOK
  <1> QED
    BY <1>1, <1>2, <1>3, PTL DEF Spec

\* Jobs handed out at most n times each have at most n starts each among them.
LEMMA StartsCounted ==
  ASSUME TypeOK, NEW J, J \subseteq Ids, NEW n \in Nat, \A j \in J : Runs(jobs[j]) <= n
  PROVE  /\ IsFiniteSet(J) /\ IsFiniteSet(Starts(J))
         /\ Cardinality(Starts(J)) <= n * Cardinality(J)
  <1>0. IsFiniteSet(Ids)
    BY FS_Interval, LenProperties DEF Ids, TypeOK
  <1>1. IsFiniteSet(J) /\ Cardinality(J) \in Nat
    <2>1. IsFiniteSet(J)
      BY <1>0, FS_Subset
    <2> QED BY <2>1, FS_CardinalityType
  <1>2. IsFiniteSet(1 .. n) /\ Cardinality(1 .. n) = n
    BY FS_Interval
  <1>3. IsFiniteSet(J \X (1 .. n)) /\ Cardinality(J \X (1 .. n)) = Cardinality(J) * n
    BY <1>1, <1>2, FS_Product
  <1>4. Starts(J) \subseteq J \X (1 .. n)
    <2>1. \A j \in J : Runs(jobs[j]) \in Nat
      BY RunsType, ElementOfSeq DEF Ids, TypeOK
    <2> QED BY <2>1 DEF Starts
  <1>5. IsFiniteSet(Starts(J)) /\ Cardinality(Starts(J)) <= Cardinality(J \X (1 .. n))
    BY <1>3, <1>4, FS_Subset
  <1> QED
    BY <1>1, <1>3, <1>5

\* BullMQ hands a job out at most once more than its attempts.
THEOREM StartsAreBounded == Spec => []StartsWithinAttempts
  <1>1. StartsBounded => StartsWithinAttempts
    BY StartsLeftBound, ElementOfSeq DEF StartsBounded, StartsWithinAttempts, TypeOK, Ids
  <1> QED
    BY <1>1, StartsBoundedInvariant, PTL

\* So each generation of retries is at most twice the one before it plus the operator's
\* retries, and the first at most Attempts + 1 times the jobs of the event.
THEOREM RetriesAreBounded == Spec => []RetriesMultiply
  <1>1. ASSUME StartsBounded, Caused PROVE RetriesMultiply
    <2> SUFFICES ASSUME NEW e \in Events, NEW k \in 0 .. MaxRetries
                 PROVE  Cardinality(JobsOf(e, k + 1))
                          <= (IF k = 0 THEN Attempts + 1 ELSE 2) * Cardinality(JobsOf(e, k))
                               + events[e].retryCount
      BY DEF RetriesMultiply
    <2> DEFINE n == IF k = 0 THEN Attempts + 1 ELSE 2
               J == JobsOf(e, k)
    <2>1. n \in Nat /\ k \in Nat /\ MaxRetries \in Nat
      BY BoundsAssumption
    <2>2. \A j \in J : Runs(jobs[j]) <= n
      <3>1. ASSUME NEW j \in J
            PROVE  /\ jobs[j] \in Job /\ StartsLeft(jobs[j]) /\ jobs[j].data.retryCount = k
        BY <1>1, ElementOfSeq DEF JobsOf, JobsAbout, Ids, StartsBounded, TypeOK
      <3>2. ASSUME NEW j \in J PROVE Runs(jobs[j]) <= jobs[j].attempts + 1
        BY <3>1, StartsLeftBound
      <3>3. ASSUME NEW j \in J PROVE jobs[j].attempts + 1 = n
        BY <3>1, BoundsAssumption DEF StartsLeft
      <3> QED BY <3>2, <3>3
    <2>3. J \subseteq Ids
      BY DEF JobsOf, JobsAbout
    <2>4. IsFiniteSet(J) /\ Cardinality(Starts(J)) <= n * Cardinality(J) /\ IsFiniteSet(Starts(J))
      <3> HIDE DEF n, J
      <3> QED BY <1>1, <2>1, <2>2, <2>3, StartsCounted DEF Caused
    <2>5. Cardinality(JobsOf(e, k + 1)) <= Cardinality(Starts(J)) + events[e].retryCount
      <3>1. CASE k + 1 \in 1 .. MaxRetries
        <4>1. (k + 1) - 1 = k
          BY <2>1
        <4>2. Cardinality(JobsOf(e, k + 1))
                <= Cardinality(Starts(JobsOf(e, (k + 1) - 1))) + events[e].retryCount
          BY <1>1, <3>1, CausedImplies DEF EveryJobHasACause
        <4> QED BY <4>1, <4>2
      <3>2. CASE k = MaxRetries
        <4>1. JobsOf(e, k + 1) = {}
          BY <1>1, <2>1, <3>2 DEF Caused, RetriesBounded, JobsOf, JobsAbout, Ids
        <4>2. Cardinality(Starts(J)) \in Nat /\ events[e].retryCount \in Nat
          BY <1>1, <2>4, FS_CardinalityType DEF Caused, TypeOK, EventRow
        <4> QED BY <4>1, <4>2, FS_EmptySet
      <3> QED BY <2>1, <3>1, <3>2
    <2>6. /\ Cardinality(JobsOf(e, k + 1)) \in Nat /\ Cardinality(Starts(J)) \in Nat
          /\ Cardinality(J) \in Nat /\ events[e].retryCount \in Nat
      <3>1. JobsOf(e, k + 1) \subseteq Ids /\ IsFiniteSet(Ids)
        BY <1>1, FS_Interval, LenProperties DEF JobsOf, JobsAbout, Ids, Caused, TypeOK
      <3> QED
        BY <1>1, <2>4, <3>1, FS_Subset, FS_CardinalityType DEF Caused, TypeOK, EventRow
    <2>7. n * Cardinality(J) \in Nat
      BY <2>1, <2>6
    <2> HIDE DEF n, J
    <2>8. Cardinality(JobsOf(e, k + 1)) <= n * Cardinality(J) + events[e].retryCount
      BY <2>4, <2>5, <2>6, <2>7
    <2> QED BY <2>8 DEF n, J
  <1> QED
    BY <1>1, StartsBoundedInvariant, CausedInvariant, PTL

-----------------------------------------------------------------------------
(* The pipeline implements EventLife                                       *)

Requested == {e \in Events : SyncQueued(e)}
BrokenNow == {<<w, run[w].data.event>> : w \in Broken}
Spent     == MaxFaults - left.faults

\* Steps that change nothing an event is told of.
LEMMA Forgotten ==
  ASSUME LifeState' = LifeState, Requested' = Requested, synced' = synced,
         BrokenNow' \subseteq BrokenNow, Spent' \in {Spent, Spent + 1}
  PROVE  Life!Next
  BY DEF Life!Next, Life!Forget, Life!MayFault, Requested, BrokenNow, Spent

\* A failing call spends one fault, and what is not a failing call spends none.
LEMMA FaultSpent ==
  ASSUME left \in Budget
  PROVE  /\ Fault => Spent' = Spent + 1
         /\ Spend("manual") => Spent' = Spent
         /\ left' = left => Spent' = Spent
  BY BoundsAssumption DEF Fault, Spend, Budget, Spent

\* The sync requests stay while no job is added.
LEMMA SameRequests ==
  ASSUME DataKept, Len(jobs') = Len(jobs)
  PROVE  Requested' = Requested
  BY DEF DataKept, Requested, SyncQueued, Ids

\* An added job adds its event, if it is a sync request.
LEMMA AddedRequests ==
  ASSUME jobs \in Seq(Job), DataKept, NEW x \in Job,
         Len(jobs') = Len(jobs) + 1, jobs'[Len(jobs) + 1] = x
  PROVE  Requested' = IF x.data.payload = "sync" THEN Requested \cup {x.data.event} ELSE Requested
  <1>1. Len(jobs) \in Nat /\ x.data.event \in Events
    BY LenProperties DEF Job, JobData
  <1>2. 1 .. Len(jobs') = (1 .. Len(jobs)) \cup {Len(jobs) + 1}
    BY <1>1
  <1>3. ASSUME NEW e \in Events
        PROVE  SyncQueued(e)' <=> SyncQueued(e) \/ (x.data.event = e /\ x.data.payload = "sync")
    BY <1>2 DEF DataKept, SyncQueued, Ids
  <1> QED BY <1>1, <1>3 DEF Requested

\* A run that goes on is broken where it goes to.
LEMMA GotoBroken ==
  ASSUME TypeOK, NEW w \in Runners, NEW pc, Goto(w, pc)
  PROVE  BrokenNow' = IF pc \in {"markErr", "catch"}
                      THEN BrokenNow \cup {<<w, run[w].data.event>>}
                      ELSE BrokenNow \ {<<w, run[w].data.event>>}
  <1>1. /\ \A v \in Runners : run'[v].data = run[v].data /\ (v # w => run'[v] = run[v])
        /\ run'[w].pc = pc
    BY DEF Goto, TypeOK, Run
  <1>2. Broken' = IF pc \in {"markErr", "catch"} THEN Broken \cup {w} ELSE Broken \ {w}
    BY <1>1 DEF Broken
  <1>3. BrokenNow' = {<<v, run[v].data.event>> : v \in Broken'}
    BY <1>1 DEF BrokenNow, Broken
  <1>4. CASE pc \in {"markErr", "catch"}
    BY <1>2, <1>3, <1>4 DEF BrokenNow
  <1>5. CASE pc \notin {"markErr", "catch"}
    <2>1. Broken' = Broken \ {w}
      BY <1>2, <1>5
    <2> QED BY <1>3, <1>5, <2>1 DEF BrokenNow
  <1> QED BY <1>4, <1>5

\* Runs that stop, or begin, are not broken.
LEMMA IdleBroken ==
  ASSUME \A v \in Runners : run'[v] = run[v] \/ run'[v].pc \notin {"markErr", "catch"}
  PROVE  BrokenNow' \subseteq BrokenNow
  BY DEF BrokenNow, Broken

\* What a row says depends on the row.
LEMMA SameLife ==
  ASSUME \A e \in Events : /\ events'[e].stored = events[e].stored
                           /\ events'[e].processed = events[e].processed
                           /\ events'[e].error = events[e].error
  PROVE  LifeState' = LifeState
  BY DEF LifeState

\* A mark says that the event is processed, or that it failed.
LEMMA MarkedLife ==
  ASSUME events \in [Events -> EventRow], NEW e \in Events, NEW ok \in BOOLEAN,
         events[e].stored, MarkProcessed(e, ok)
  PROVE  LifeState' = [LifeState EXCEPT ![e] = IF ok THEN "processed" ELSE "failed"]
  <1>1. /\ events'[e] = [events[e] EXCEPT !.processed = ok, !.error = ~ok]
        /\ \A f \in Events \ {e} : events'[f] = events[f]
    BY DEF MarkProcessed
  <1>2. events'[e].stored = events[e].stored /\ events'[e].processed = ok /\ events'[e].error = ~ok
    BY <1>1 DEF EventRow
  <1> QED BY <1>1, <1>2 DEF LifeState

\* A row that is not stored says nothing.
Blank == \A e \in Events : ~events[e].stored => ~events[e].processed /\ ~events[e].error

\* Only the runs about an event write its row, once it is stored.
LEMMA StepBlank ==
  ASSUME Founded, Blank, Next
  PROVE  Blank'
  <1> USE DEF Founded, TypeOK
  <1>1. ASSUME NEW e \in Events, Deliver(e) PROVE Blank'
    <2>1. /\ \A f \in Events \ {e} : events'[f] = events[f]
          /\ events'[e].stored
      BY <1>1 DEF Deliver, EventRow
    <2> QED BY <2>1 DEF Blank
  <1>2. ASSUME events' = events PROVE Blank'
    BY <1>2 DEF Blank
  <1>3. ASSUME NEW w \in Runners, run[w].pc # "idle", NEW ok \in BOOLEAN,
               MarkProcessed(run[w].data.event, ok)
        PROVE  Blank'
    <2>1. run[w].data.event \in Events /\ events[run[w].data.event].stored
      BY <1>3, RunType DEF RunsFounded
    <2>2. \A f \in Events \ {run[w].data.event} : events'[f] = events[f]
      BY <1>3 DEF MarkProcessed
    <2>3. StoredKept
      BY <1>3, <2>1, MarkEffect
    <2> QED BY <2>1, <2>2, <2>3 DEF Blank, StoredKept
  <1>4. ASSUME NEW w \in Runners, Increment(w) PROVE Blank'
    <2>1. CASE events' = [events EXCEPT ![run[w].data.event].retryCount = @ + 1]
      <3>1. \A f \in Events : /\ events'[f].stored = events[f].stored
                              /\ events'[f].processed = events[f].processed
                              /\ events'[f].error = events[f].error
        BY <2>1, RunType DEF EventRow
      <3> QED BY <3>1 DEF Blank
    <2> QED BY <1>2, <1>4, <2>1 DEF Increment
  <1>5. ASSUME NEW w \in Runners, Mark(w) PROVE Blank'
    BY <1>2, <1>3, <1>5 DEF Mark
  <1>6. ASSUME NEW w \in Runners, Catch(w) PROVE Blank'
    BY <1>2, <1>3, <1>6 DEF Catch
  <1> QED
    BY <1>1, <1>2, <1>4, <1>5, <1>6
       DEF Next, ManualRetry, Take, Load, Process, Schedule, ExecuteSync, Settle, Crash, Recover,
           LoseLock

\* Storing a row stores the event, which then is as it was left.
LEMMA DeliveryLives ==
  ASSUME Founded, Blank, NEW e \in Events, Deliver(e), DataKept
  PROVE  Life!Next
  <1> USE DEF Founded, TypeOK
  <1>1. Requested' = Requested
    <2>1. CASE jobs' = jobs
      BY <2>1, SameRequests
    <2>2. CASE jobs' = Append(jobs, ProcessJob(e))
      BY <2>2, AddedJob, NewJobs, NewJobData, AddedRequests
    <2> QED BY <2>1, <2>2 DEF Deliver
  <1>2. BrokenNow' = BrokenNow /\ synced' = synced
    BY DEF Deliver, BrokenNow, Broken
  <1>3. Spent' \in {Spent, Spent + 1}
    <2>1. left \in Budget
      OBVIOUS
    <2>2. left'.faults = left.faults \/ left'.faults = left.faults - 1
      BY <2>1 DEF Deliver, Budget
    <2>3. left.faults \in Nat
      BY <2>1 DEF Budget
    <2> QED BY <2>2, <2>3, BoundsAssumption DEF Spent
  <1>4. /\ \A f \in Events \ {e} : events'[f] = events[f]
        /\ events'[e] = [events[e] EXCEPT !.stored = TRUE]
    BY DEF Deliver
  <1>5. /\ events'[e].stored
        /\ events'[e].processed = events[e].processed /\ events'[e].error = events[e].error
    BY <1>4 DEF EventRow
  <1>6. CASE events[e].stored
    <2>1. LifeState' = LifeState
      BY <1>4, <1>5, <1>6, SameLife
    <2> QED BY <1>1, <1>2, <1>3, <2>1, Forgotten
  <1>7. CASE ~events[e].stored
    <2>1. ~events[e].processed /\ ~events[e].error
      BY <1>7 DEF Blank
    <2>2. LifeState[e] = "absent" /\ LifeState' = [LifeState EXCEPT ![e] = "pending"]
      BY <1>4, <1>5, <1>7, <2>1 DEF LifeState
    <2>3. Life!Store(e)
      BY <1>1, <1>2, <1>3, <2>2
         DEF Life!Store, Life!Known, Life!MayFault, Requested, BrokenNow, Spent
    <2> QED BY <2>3 DEF Life!Next
  <1> QED BY <1>6, <1>7

\* A job whose priority, attempts or state changes asks for nothing new.
LEMMA QueueingLives ==
  ASSUME DataKept, Len(jobs') = Len(jobs), UNCHANGED <<events, synced>>,
         Spent' \in {Spent, Spent + 1},
         \A v \in Runners : run'[v] = run[v] \/ run'[v].pc \notin {"markErr", "catch"}
  PROVE  Life!Next
  BY SameRequests, IdleBroken, Forgotten DEF LifeState

\* A run that goes on, without a word to its event, lives on, or breaks at a failing call.
LEMMA GoingLives ==
  ASSUME Founded, NEW w \in Runners, run[w].pc # "idle", NEW pc, Goto(w, pc),
         LifeState' = LifeState, Requested' = Requested, synced' = synced,
         \/ Spent' = Spent + 1
         \/ Spent' = Spent /\ pc \notin {"markErr", "catch"}
  PROVE  Life!Next
  <1>1. PICK e \in Events : e = run[w].data.event /\ events[e].stored
    BY RunType DEF Founded, TypeOK, RunsFounded
  <1>2. CASE pc \in {"markErr", "catch"}
    <2>1. BrokenNow' = BrokenNow \cup {<<w, e>>}
      BY <1>1, <1>2, GotoBroken DEF Founded
    <2>2. LifeState[e] # "absent"
      BY <1>1 DEF LifeState
    <2>3. Life!Break(w, e)
      BY <1>2, <2>1, <2>2 DEF Life!Break, Life!Known, Requested, BrokenNow, Spent
    <2> QED BY <2>3 DEF Life!Next
  <1>3. CASE pc \notin {"markErr", "catch"}
    <2>1. BrokenNow' = BrokenNow \ {<<w, e>>}
      BY <1>1, <1>3, GotoBroken DEF Founded
    <2> QED BY <2>1, Forgotten
  <1> QED BY <1>2, <1>3

\* Handing a push over requests its synchronisation.
LEMMA ProcessingLives ==
  ASSUME Founded, NEW w \in Runners, Process(w), DataKept
  PROVE  Life!Next
  <1> DEFINE e == run[w].data.event
  <1>1. e \in Events /\ events[e].stored /\ run[w].pc # "idle"
    BY RunType DEF Founded, TypeOK, RunsFounded, Process
  <1>2. LifeState' = LifeState /\ synced' = synced
    BY DEF Process, LifeState
  <1>3. CASE jobs' = jobs
    <2>1. Requested' = Requested
      BY <1>3, SameRequests
    <2>2. \/ Goto(w, "markOk") /\ left' = left
          \/ Goto(w, "markErr") /\ Fault
      BY DEF Process
    <2> QED BY <1>1, <1>2, <2>1, <2>2, FaultSpent, GoingLives DEF Founded, TypeOK
  <1>4. CASE jobs' = Append(jobs, SyncJob(e)) /\ NeedsSync(e) /\ Goto(w, "markOk") /\ left' = left
    <2>1. Requested' = Requested \cup {e}
      BY <1>1, <1>4, AddedJob, NewJobs, AddedRequests DEF Founded, TypeOK
    <2>2. BrokenNow' = BrokenNow
      <3>1. BrokenNow' = BrokenNow \ {<<w, e>>}
        BY <1>4, GotoBroken DEF Founded
      <3>2. w \notin Broken
        BY DEF Broken, Process
      <3>3. <<w, e>> \notin BrokenNow
        BY <3>2 DEF BrokenNow
      <3> QED BY <3>1, <3>3
    <2>3. LifeState[e] # "absent"
      BY <1>1 DEF LifeState
    <2>4. Life!Request(e)
      BY <1>1, <1>2, <1>4, <2>1, <2>2, <2>3, FaultSpent
         DEF Life!Request, Life!Known, Requested, BrokenNow, Spent
    <2> QED BY <1>1, <2>4 DEF Life!Next
  <1> QED BY <1>3, <1>4 DEF Process

\* A mark calls the event processed, which asked for nothing or has its request, or failed,
\* which a failing call was the reason for.
LEMMA MarkingLives ==
  ASSUME Founded, NEW w \in Runners, Mark(w) \/ Catch(w), DataKept
  PROVE  Life!Next
  <1>1. PICK e \in Events : e = run[w].data.event /\ events[e].stored /\ run[w].pc # "idle"
    BY RunType DEF Founded, TypeOK, RunsFounded, Mark, Catch
  <1>2. Requested' = Requested /\ synced' = synced
    BY SameRequests DEF Mark, Catch
  <1>3. CASE events' = events /\ Fault /\ \E pc \in {"catch", "settleErr"} : Goto(w, pc)
    BY <1>1, <1>2, <1>3, SameLife, FaultSpent, GoingLives DEF Founded, TypeOK
  <1>4. CASE MarkProcessed(e, TRUE) /\ run[w].pc = "markOk" /\ left' = left
             /\ Goto(w, "settleOk")
    <2>1. LifeState' = [LifeState EXCEPT ![e] = "processed"]
      BY <1>1, <1>4, MarkedLife DEF Founded, TypeOK
    <2>2. w \notin Broken
      BY <1>4 DEF Broken
    <2>3. BrokenNow' = BrokenNow
      BY <1>4, <2>2, GotoBroken DEF Founded, BrokenNow
    <2>4. NeedsSync(e) => SyncQueued(e)
      BY <1>1, <1>4 DEF Founded, MarksFounded
    <2>5. LifeState[e] # "absent"
      BY <1>1 DEF LifeState
    <2>6. Life!Process(e)
      BY <1>1, <1>2, <1>4, <2>1, <2>3, <2>4, <2>5, FaultSpent
         DEF Life!Process, Life!Known, Requested, BrokenNow, Spent
    <2> QED BY <1>1, <2>6 DEF Life!Next
  <1>5. CASE /\ MarkProcessed(e, FALSE) /\ run[w].pc \in {"markErr", "catch"} /\ left' = left
             /\ \E pc1 \in {"schedule", "settleErr"} : Goto(w, pc1)
    <2>1. LifeState' = [LifeState EXCEPT ![e] = "failed"]
      BY <1>1, <1>5, MarkedLife DEF Founded, TypeOK
    <2>2. BrokenNow' = BrokenNow \ {<<w, e>>}
      BY <1>1, <1>5, GotoBroken DEF Founded
    <2>3. <<w, e>> \in BrokenNow
      BY <1>1, <1>5 DEF BrokenNow, Broken
    <2>4. Spent' = Spent
      BY <1>5, FaultSpent DEF Founded, TypeOK
    <2>5. Life!Fail(w, e)
      BY <1>2, <2>1, <2>2, <2>3, <2>4 DEF Life!Fail, Requested, BrokenNow, Spent
    <2> QED BY <2>5 DEF Life!Next
  <1>6. CASE Mark(w)
    BY <1>1, <1>3, <1>4, <1>5, <1>6 DEF Mark, MarkProcessed
  <1>7. CASE Catch(w)
    BY <1>1, <1>3, <1>5, <1>7 DEF Catch, MarkProcessed
  <1> QED BY <1>6, <1>7

\* A synchronisation was requested.
LEMMA SyncingLives ==
  ASSUME Founded, NEW w \in Runners, ExecuteSync(w), DataKept
  PROVE  Life!Next
  <1> DEFINE e == run[w].data.event
  <1>1. e \in Events /\ events[e].stored /\ run[w].pc # "idle"
    BY RunType DEF Founded, TypeOK, RunsFounded, ExecuteSync
  <1>2. Requested' = Requested /\ LifeState' = LifeState
    BY SameRequests, SameLife DEF ExecuteSync
  <1>3. CASE synced' = synced /\ (Fault \/ left' = left) /\ Goto(w, "settleErr")
    BY <1>1, <1>2, <1>3, FaultSpent, GoingLives DEF Founded, TypeOK
  <1>4. CASE /\ CanSync(run[w].data) /\ synced' = synced \cup {e}
             /\ Goto(w, "settleOk") /\ left' = left
    <2>1. SyncQueued(e) /\ Kind[e] = "push"
      BY <1>1, <1>4 DEF Founded, RunsFounded, CanSync
    <2>2. w \notin Broken
      BY DEF Broken, ExecuteSync
    <2>3. BrokenNow' = BrokenNow
      BY <1>4, <2>2, GotoBroken DEF Founded, BrokenNow
    <2>4. LifeState[e] # "absent"
      BY <1>1 DEF LifeState
    <2>5. Spent' = Spent
      BY <1>4, FaultSpent DEF Founded, TypeOK
    <2>6. Life!Sync(e)
      BY <1>1, <1>2, <1>4, <2>1, <2>3, <2>4, <2>5
         DEF Life!Sync, Life!Known, Requested, BrokenNow, Spent
    <2> QED BY <1>1, <2>6 DEF Life!Next
  <1> QED BY <1>3, <1>4 DEF ExecuteSync

\* A retry repeats what its run's job asked for.
LEMMA SchedulingLives ==
  ASSUME Founded, NEW w \in Runners, Schedule(w), DataKept
  PROVE  Life!Next
  <1>1. run[w].pc # "idle" /\ run[w].data \in JobData /\ run[w].data.event \in Events
    BY RunType DEF Founded, TypeOK, Schedule
  <1>2. LifeState' = LifeState /\ synced' = synced
    BY DEF Schedule, LifeState
  <1>3. Requested' = Requested
    <2>1. CASE jobs' = jobs
      BY <2>1, SameRequests
    <2>2. CASE jobs' = Append(jobs, RetryJob(run[w].data))
      <3>1. run[w].data.payload = "sync" => run[w].data.event \in Requested
        BY <1>1 DEF Founded, RunsFounded, Requested
      <3>2. Requested' = IF RetryJob(run[w].data).data.payload = "sync"
                         THEN Requested \cup {RetryJob(run[w].data).data.event} ELSE Requested
        BY <1>1, <2>2, AddedJob, NewJobs, AddedRequests DEF Founded, TypeOK
      <3>3. /\ RetryJob(run[w].data).data.payload = run[w].data.payload
            /\ RetryJob(run[w].data).data.event = run[w].data.event
        BY <1>1, NewJobs
      <3> QED BY <3>1, <3>2, <3>3
    <2> QED BY <2>1, <2>2 DEF Schedule
  <1>4. Goto(w, "settleErr") /\ (Fault \/ left' = left)
    BY DEF Schedule
  <1> QED BY <1>1, <1>2, <1>3, <1>4, FaultSpent, GoingLives DEF Founded, TypeOK

\* Every step of the pipeline is a step of the life of events, or nothing to them.
LEMMA StepLives ==
  ASSUME Founded, Blank, Next
  PROVE  Life!Next
  <1> USE DEF Founded, TypeOK
  <1>1. DataKept
    BY StepType
  <1>2. \A v \in Runners : run[v].data.event \in Events
    BY RunType
  <1>3. ASSUME NEW w \in Operators, NEW e \in Events, ManualRetry(w, e) PROVE Life!Next
    <2>1. \A v \in Runners : run'[v] = run[v] \/ run'[v].pc \notin {"markErr", "catch"}
      BY <1>3 DEF ManualRetry, Runners
    <2>2. Len(jobs') = Len(jobs) /\ events' = events /\ synced' = synced /\ Spent' = Spent
      BY <1>3, FaultSpent DEF ManualRetry
    <2> QED BY <1>1, <2>1, <2>2, QueueingLives
  <1>4. ASSUME NEW w \in Runners, NEW pc \in {"load", "sync"}, Take(w, pc) PROVE Life!Next
    <2>1. PICK j \in 1 .. Len(jobs) :
            /\ jobs' = [jobs EXCEPT ![j] = [@ EXCEPT !.state = "active", !.owner = w]]
            /\ run' = [run EXCEPT ![w] = [pc |-> pc, job |-> j, data |-> jobs[j].data]]
      BY <1>4 DEF Take, NextUp, Waiting, Delayed, Ids
    <2>2. Len(jobs') = Len(jobs)
      BY <2>1, JobType, TakenType, ReplacedJob
    <2>3. \A v \in Runners : run'[v] = run[v] \/ run'[v].pc \notin {"markErr", "catch"}
      BY <2>1
    <2>4. events' = events /\ synced' = synced /\ Spent' = Spent
      BY <1>4, FaultSpent DEF Take
    <2> QED BY <1>1, <2>2, <2>3, <2>4, QueueingLives
  <1>5. ASSUME NEW w \in Runners, Increment(w) PROVE Life!Next
    <2>1. LifeState' = LifeState
      <3>1. CASE events' = [events EXCEPT ![run[w].data.event].retryCount = @ + 1]
        BY <1>2, <3>1, SameLife DEF EventRow
      <3> QED BY <1>5, <3>1, SameLife DEF Increment
    <2>2. Requested' = Requested /\ synced' = synced /\ run[w].pc # "idle"
      BY <1>1, <1>5, SameRequests DEF Increment
    <2>3. \/ Goto(w, "load") /\ Spent' = Spent
          \/ Goto(w, "settleErr") /\ Spent' = Spent + 1
      BY <1>5, FaultSpent DEF Increment
    <2> QED BY <2>1, <2>2, <2>3, GoingLives
  <1>6. ASSUME NEW w \in Runners, Load(w) PROVE Life!Next
    <2>1. Requested' = Requested /\ synced' = synced /\ run[w].pc # "idle" /\ LifeState' = LifeState
      BY <1>1, <1>6, SameRequests, SameLife DEF Load
    <2>2. \/ Goto(w, "settleOk") /\ Spent' = Spent
          \/ Goto(w, "process") /\ Spent' = Spent
          \/ Goto(w, "catch") /\ Spent' = Spent + 1
      BY <1>6, FaultSpent DEF Load
    <2> QED BY <2>1, <2>2, GoingLives
  <1>7. ASSUME NEW w \in Runners, Settle(w) PROVE Life!Next
    <2>1. Len(jobs') = Len(jobs)
      <3>1. CASE Holds(w)
        <4>1. run[w].job \in 1 .. Len(jobs) /\ jobs[run[w].job] \in Job
          BY <3>1, JobType DEF Holds, Ids
        <4>2. jobs' = [jobs EXCEPT ![run[w].job] =
                         Finished(jobs[run[w].job], run[w].pc = "settleOk")]
          BY <1>7, <3>1 DEF Settle
        <4> QED BY <4>1, <4>2, ReplacedJob, FinishedType
      <3> QED BY <1>7, <3>1 DEF Settle
    <2>2. \A v \in Runners : run'[v] = run[v] \/ run'[v].pc \notin {"markErr", "catch"}
      BY <1>7 DEF Settle, IdleRun
    <2>3. events' = events /\ synced' = synced /\ Spent' = Spent
      BY <1>7, FaultSpent DEF Settle
    <2> QED BY <1>1, <2>1, <2>2, <2>3, QueueingLives
  <1>8. ASSUME NEW I \in Instances, Crash(I) PROVE Life!Next
    <2>1. \A v \in Runners : run'[v] = run[v] \/ run'[v].pc \notin {"markErr", "catch"}
      BY <1>8 DEF Crash, IdleRun
    <2>2. Len(jobs') = Len(jobs) /\ events' = events /\ synced' = synced /\ Spent' = Spent + 1
      BY <1>8, FaultSpent DEF Crash
    <2> QED BY <1>1, <2>1, <2>2, QueueingLives
  <1>9. ASSUME NEW j \in 1 .. Len(jobs), Recover(j) \/ LoseLock(j) PROVE Life!Next
    <2>1. jobs' = [jobs EXCEPT ![j] = Redelivered(@)]
      BY <1>9 DEF Recover, LoseLock
    <2>2. Len(jobs') = Len(jobs)
      BY <2>1, JobType, RedeliveredType, ReplacedJob
    <2>3. /\ events' = events /\ synced' = synced /\ run' = run
          /\ Spent' \in {Spent, Spent + 1}
      BY <1>9, FaultSpent DEF Recover, LoseLock
    <2> QED BY <1>1, <2>2, <2>3, QueueingLives
  <1>10. Handlers \subseteq Runners /\ Syncers \subseteq Runners
    BY DEF Runners
  <1> QED
    BY <1>1, <1>3, <1>4, <1>5, <1>6, <1>7, <1>8, <1>9, <1>10, DeliveryLives, ProcessingLives,
       MarkingLives, SyncingLives, SchedulingLives DEF Next, Ids

\* The pipeline implements EventLife: whatever its jobs, retries and redeliveries do to each
\* other, an event is called processed only after its sync request was queued, synchronised
\* only on request, and called failed at most once for each call that failed
\* (webhook-handler.service.ts: processWebhook).
THEOREM KeepsTheEventLife == Spec => KeepsLife
  <1>1. Init => Life!Init /\ Blank
    <2> SUFFICES ASSUME Init PROVE Life!Init /\ Blank
      OBVIOUS
    <2>1. \A w \in Runners : run[w].pc = "idle"
      BY DEF Init, IdleRun
    <2>2. BrokenNow = {}
      BY <2>1 DEF BrokenNow, Broken
    <2>3. Requested = {}
      BY DEF Init, Requested, SyncQueued, Ids
    <2>4. LifeState = [e \in Events |-> "absent"] /\ Blank
      BY DEF Init, LifeState, Blank
    <2>5. Spent = 0
      BY BoundsAssumption DEF Init, Spent
    <2> QED BY <2>2, <2>3, <2>4, <2>5 DEF Init, Life!Init, Requested, BrokenNow, Spent
  <1>2. Founded /\ Blank /\ [Next]_vars => Blank'
    BY StepBlank DEF vars, Blank
  <1>3. Founded /\ Blank /\ [Next]_vars => [Life!Next]_(Life!lifeVars)
    <2>1. UNCHANGED vars => UNCHANGED Life!lifeVars
      BY DEF vars, Life!lifeVars, LifeState, SyncQueued, Ids, Broken
    <2> QED BY <2>1, StepLives
  <1>4. KeepsLife <=> Life!Spec
    BY DEF KeepsLife
  <1> QED BY <1>1, <1>2, <1>3, <1>4, FoundedInvariant, PTL DEF Spec, Life!Spec
=============================================================================
