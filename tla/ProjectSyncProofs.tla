------------------------- MODULE ProjectSyncProofs -------------------------
(* Theorems about ProjectSync, for every value of its constants.           *)
EXTENDS ProjectSync, TLAPS

-----------------------------------------------------------------------------
(* Types                                                                   *)

\* The empty run and the empty job are well formed.
LEMMA EmptyTypes == IdleRun \in Run /\ NoJob \in Job /\ NewJob \in Job
  <1>1. IdleRun \in Run
    BY BoundsAssumption DEF IdleRun, Run, PCs, Contents, Views
  <1>2. NoJob \in Job /\ NewJob \in Job
    BY DEF NoJob, NewJob, Job, JobStates
  <1> QED BY <1>1, <1>2

\* A run that goes on, or stops, stays well formed.
LEMMA GotoType ==
  ASSUME run \in [Runners -> Run], NEW w \in Runners, NEW pc \in PCs,
         Goto(w, pc) \/ Stop(w)
  PROVE  run' \in [Runners -> Run]
  BY EmptyTypes DEF Goto, Stop, Run

\* So does one that starts, or keeps what it has seen.
LEMMA RunFieldsType ==
  ASSUME NEW x \in Run, NEW pc \in PCs
  PROVE  /\ [x EXCEPT !.pc = pc] \in Run
         /\ \A s \in Contents : [x EXCEPT !.pc = pc, !.seen = s] \in Run
         /\ \A b \in BOOLEAN : [x EXCEPT !.pc = pc, !.overtaken = b] \in Run
         /\ \A r \in Repos : [x EXCEPT !.pc = pc, !.repo = r] \in Run
         /\ \A r \in Repos, s \in Contents : [x EXCEPT !.pc = pc, !.repo = r, !.seen = s] \in Run
         /\ \A t \in SUBSET Repos : [x EXCEPT !.pc = pc, !.todo = t] \in Run
         /\ \A r \in Repos, t \in SUBSET Repos :
              [x EXCEPT !.pc = pc, !.repo = r, !.todo = t] \in Run
         /\ \A v \in [Repos -> Views] : [x EXCEPT !.pc = pc, !.read = v] \in Run
  BY DEF Run

\* What is left of a bound stays a natural number.
LEMMA SpendType ==
  ASSUME left \in Budget,
         NEW what \in {"pushes", "faults", "stalls", "direct", "syncs", "alls"}, Spend(what)
  PROVE  left' \in Budget
  BY DEF Spend, Budget

\* In particular when a call fails.
LEMMA FaultType ==
  ASSUME left \in Budget, Fault
  PROVE  left' \in Budget
  BY SpendType DEF Fault

\* Overtaking a run keeps it well formed.
LEMMA OvertakenType ==
  ASSUME run \in [Runners -> Run], NEW r \in Repos
  PROVE  Overtaken(r) \in [Runners -> Run]
  <1> SUFFICES ASSUME NEW w \in Runners
               PROVE  (IF Pending(w, r) THEN [run[w] EXCEPT !.overtaken = TRUE]
                       ELSE run[w]) \in Run
    BY DEF Overtaken
  <1>1. run[w] \in Run
    OBVIOUS
  <1>2. [run[w] EXCEPT !.overtaken = TRUE] \in Run
    BY <1>1 DEF Run
  <1> QED BY <1>1, <1>2

\* The queue's operations on a job keep it well formed; only a success completes it.
LEMMA JobTypes ==
  ASSUME NEW x \in Job
  PROVE  /\ Redelivered(x) \in Job /\ Redelivered(x).state # "completed"
         /\ \A ok \in BOOLEAN : /\ Finished(x, ok) \in Job
                                /\ Finished(x, ok).state = "completed" => ok
         /\ \A w \in Runners :
              /\ [x EXCEPT !.state = "active", !.owner = w] \in Job
              /\ [x EXCEPT !.state = "active", !.owner = w].state = "active"
  <1>1. x.stalled + 1 \in Nat /\ x.made + 1 \in Nat
    BY DEF Job
  <1>2. ASSUME NEW st \in JobStates, NEW n \in Nat
        PROVE  /\ [x EXCEPT !.state = st, !.stalled = n, !.owner = NoOwner] \in Job
               /\ [x EXCEPT !.state = st, !.stalled = n, !.owner = NoOwner].state = st
               /\ [x EXCEPT !.made = n, !.owner = NoOwner, !.state = st] \in Job
               /\ [x EXCEPT !.made = n, !.owner = NoOwner, !.state = st].state = st
    BY DEF Job
  <1>3. Redelivered(x) \in Job /\ Redelivered(x).state # "completed"
    <2> DEFINE st == IF x.stalled < MaxStalled THEN "waiting" ELSE "failed"
    <2>1. st \in JobStates /\ st # "completed"
      BY DEF JobStates
    <2>2. Redelivered(x) =
            [x EXCEPT !.state = st, !.stalled = x.stalled + 1, !.owner = NoOwner]
      BY DEF Redelivered
    <2>3. /\ [x EXCEPT !.state = st, !.stalled = x.stalled + 1, !.owner = NoOwner] \in Job
          /\ [x EXCEPT !.state = st, !.stalled = x.stalled + 1, !.owner = NoOwner].state = st
      <3> HIDE DEF st
      <3> QED BY <1>1, <1>2, <2>1
    <2> QED BY <2>1, <2>2, <2>3
  <1>4. ASSUME NEW ok \in BOOLEAN
        PROVE  Finished(x, ok) \in Job /\ (Finished(x, ok).state = "completed" => ok)
    <2> DEFINE st == IF ok THEN "completed"
                     ELSE IF x.made + 1 < Attempts THEN "delayed" ELSE "failed"
    <2>1. st \in JobStates /\ (st = "completed" => ok)
      BY DEF JobStates
    <2>2. Finished(x, ok) = [x EXCEPT !.made = x.made + 1, !.owner = NoOwner, !.state = st]
      BY DEF Finished
    <2>3. /\ [x EXCEPT !.made = x.made + 1, !.owner = NoOwner, !.state = st] \in Job
          /\ [x EXCEPT !.made = x.made + 1, !.owner = NoOwner, !.state = st].state = st
      <3> HIDE DEF st
      <3> QED BY <1>1, <1>2, <2>1
    <2> QED BY <2>1, <2>2, <2>3
  <1>5. ASSUME NEW w \in Runners
        PROVE  /\ [x EXCEPT !.state = "active", !.owner = w] \in Job
               /\ [x EXCEPT !.state = "active", !.owner = w].state = "active"
    BY DEF Job, JobStates
  <1> QED BY <1>3, <1>4, <1>5

\* What an operation may assume of the run it belongs to.
LEMMA RunType ==
  ASSUME run \in [Runners -> Run], NEW w \in Runners
  PROVE  /\ run[w] \in Run
         /\ run[w].repo \in Repos /\ run[w].seen \in Contents
         /\ run[w].read \in [Repos -> Views] /\ run[w].todo \subseteq Repos
  BY DEF Run

\* Every step keeps the types.
LEMMA StepType ==
  ASSUME TypeOK, Next
  PROVE  TypeOK'
  <1> USE DEF TypeOK
  <1>0. /\ {"idle", "fetch", "check", "upsert", "evict", "store", "settleOk", "settleErr",
            "place", "queue", "fillList", "fillRow"} \subseteq PCs
        /\ Syncing \subseteq Runners /\ Requests \subseteq Runners /\ Readers \subseteq Runners
        /\ Slots \subseteq Syncing /\ Callers \subseteq Syncing
    BY DEF PCs, Runners, Syncing
  <1>a. ASSUME NEW r \in Repos, AddJob(r) PROVE jobs' \in [Repos -> Job]
    BY <1>a, EmptyTypes DEF AddJob
  <1>b. \A r \in Repos : ViewOf(r) \in Views /\ row[r].content \in Contents
    BY DEF ViewOf, Views, Row
  <1>1. ASSUME NEW r \in Repos, RequestSync(r) PROVE TypeOK'
    BY <1>1, <1>a, SpendType DEF RequestSync
  <1>2. ASSUME NEW w \in Callers, NEW r \in Repos, StartDirect(w, r) PROVE TypeOK'
    BY <1>0, <1>2, SpendType, EmptyTypes, RunFieldsType DEF StartDirect
  <1>3. ASSUME NEW w \in Requests, StartAll(w) PROVE TypeOK'
    BY <1>0, <1>3, SpendType, EmptyTypes, RunFieldsType DEF StartAll
  <1>4. ASSUME NEW w \in Requests, Place(w) PROVE TypeOK'
    <2>1. CASE Fault /\ Stop(w) /\ UNCHANGED row
      BY <1>0, <1>4, <2>1, GotoType, FaultType DEF Place
    <2>2. ASSUME NEW r \in run[w].todo,
                 row' = [row EXCEPT ![r].exists = TRUE, ![r].recent = TRUE],
                 run' = [Overtaken(r) EXCEPT ![w] =
                           [@ EXCEPT !.pc = "queue", !.repo = r, !.todo = run[w].todo \ {r}]],
                 UNCHANGED left
          PROVE  TypeOK'
      <3>1. r \in Repos
        BY <1>0, <2>2, RunType
      <3>2. row' \in [Repos -> Row]
        BY <2>2, <3>1 DEF Row
      <3>3. Overtaken(r) \in [Runners -> Run]
        BY <3>1, OvertakenType
      <3> DEFINE y == Overtaken(r)[w]
      <3>4. y \in Run /\ run[w].todo \ {r} \in SUBSET Repos
        BY <1>0, <3>3, RunType
      <3>5. run' = [Overtaken(r) EXCEPT ![w] =
                      [y EXCEPT !.pc = "queue", !.repo = r, !.todo = run[w].todo \ {r}]]
        BY <2>2
      <3>6. [y EXCEPT !.pc = "queue", !.repo = r, !.todo = run[w].todo \ {r}] \in Run
        <4> HIDE DEF y
        <4> QED BY <1>0, <3>1, <3>4, RunFieldsType
      <3>7. run' \in [Runners -> Run]
        <4> HIDE DEF y
        <4> QED BY <3>3, <3>5, <3>6
      <3> QED BY <1>4, <2>2, <3>2, <3>7 DEF Place
    <2> QED BY <1>4, <2>1, <2>2 DEF Place
  <1>5. ASSUME NEW w \in Requests, Queue(w) PROVE TypeOK'
    <2>1. run' \in [Runners -> Run]
      BY <1>0, <1>5, GotoType DEF Queue
    <2> QED BY <1>0, <1>5, <1>a, <2>1, RunType, FaultType DEF Queue
  <1>6. ASSUME NEW w \in Slots, Take(w) PROVE TypeOK'
    <2>1. PICK r \in Repos :
            /\ jobs' = [jobs EXCEPT ![r] = [jobs[r] EXCEPT !.state = "active", !.owner = w]]
            /\ run' = [run EXCEPT ![w] = [IdleRun EXCEPT !.pc = "fetch", !.repo = r]]
      BY <1>6 DEF Take
    <2>2. [jobs[r] EXCEPT !.state = "active", !.owner = w] \in Job
      BY <1>0, JobTypes
    <2>3. jobs' \in [Repos -> Job]
      BY <2>1, <2>2
    <2>4. [IdleRun EXCEPT !.pc = "fetch", !.repo = r] \in Run
      BY <1>0, EmptyTypes, RunFieldsType
    <2>5. run' \in [Runners -> Run]
      BY <2>1, <2>4
    <2> QED BY <1>6, <2>3, <2>5 DEF Take
  <1>7. ASSUME NEW w \in Syncing, Fetch(w) PROVE TypeOK'
    <2>1. CASE Goto(w, "settleErr")
      BY <1>0, <1>7, <2>1, GotoType, FaultType DEF Fetch
    <2>2. ASSUME NEW s \in Contents, left' \in Budget,
                 run' = [run EXCEPT ![w] = [@ EXCEPT !.pc = "check", !.seen = s]]
          PROVE  TypeOK'
      BY <1>0, <1>7, <2>2, RunFieldsType DEF Fetch
    <2>3. Blank \in Contents /\ (remote[run[w].repo] # Hidden => remote[run[w].repo] \in Contents)
      BY <1>0, RunType DEF Contents
    <2> QED BY <1>7, <2>1, <2>2, <2>3, FaultType DEF Fetch
  <1>8. ASSUME NEW w \in Syncing, Check(w) PROVE TypeOK'
    <2>1. run[w].repo \in Repos /\ row[run[w].repo].content \in Contents /\ w \in Runners
      BY <1>0, RunType DEF Row
    <2>2. skipped' \subseteq Repos
      BY <1>8, <2>1 DEF Check
    <2>3. left' \in Budget
      BY <1>8, FaultType DEF Check
    <2>4. UNCHANGED <<remote, row, jobs, rowCache, listCache, toEnrich>>
      BY <1>8 DEF Check
    <2>5. CASE Goto(w, "settleErr")
      BY <1>0, <2>1, <2>5, <2>2, <2>3, <2>4, GotoType
    <2>6. CASE run' = [run EXCEPT ![w] = [@ EXCEPT !.pc = "evict",
                                                    !.seen = row[run[w].repo].content]]
      BY <1>0, <2>1, <2>6, <2>2, <2>3, <2>4, RunType, RunFieldsType
    <2>7. CASE run' = [run EXCEPT ![w] = [@ EXCEPT !.pc = "upsert", !.overtaken = FALSE]]
      BY <1>0, <2>1, <2>7, <2>2, <2>3, <2>4, RunType, RunFieldsType
    <2> QED BY <1>8, <2>5, <2>6, <2>7 DEF Check
  <1>9. ASSUME NEW w \in Syncing, Upsert(w) PROVE TypeOK'
    <2>1. CASE Fault /\ Goto(w, "settleErr") /\ UNCHANGED row
      BY <1>0, <1>9, <2>1, GotoType, FaultType DEF Upsert
    <2>2. CASE /\ row' = [row EXCEPT ![run[w].repo] =
                            [exists |-> TRUE, content |-> run[w].seen, recent |-> TRUE]]
               /\ run' = [Overtaken(run[w].repo) EXCEPT ![w].pc = "evict"]
               /\ UNCHANGED left
      <3>1. row' \in [Repos -> Row]
        BY <1>0, <2>2, RunType DEF Row
      <3>2. Overtaken(run[w].repo) \in [Runners -> Run]
        BY <1>0, RunType, OvertakenType
      <3>3. run' \in [Runners -> Run]
        BY <1>0, <2>2, <3>2, RunFieldsType
      <3> QED BY <1>9, <2>2, <3>1, <3>3 DEF Upsert
    <2> QED BY <1>9, <2>1, <2>2 DEF Upsert
  <1>10. ASSUME NEW w \in Syncing, Evict(w) PROVE TypeOK'
    BY <1>0, <1>10, GotoType, FaultType DEF Evict
  <1>11. ASSUME NEW w \in Syncing, Store(w) PROVE TypeOK'
    BY <1>0, <1>11, RunType, GotoType, FaultType DEF Store
  <1>12. ASSUME NEW w \in Syncing, Settle(w) PROVE TypeOK'
    <2>1. jobs' \in [Repos -> Job]
      BY <1>0, <1>12, RunType, JobTypes DEF Settle
    <2>2. run' \in [Runners -> Run]
      BY <1>0, <1>12, GotoType DEF Settle
    <2> QED BY <1>0, <1>12, <2>1, <2>2, RunType, FaultType DEF Settle
  <1>13. ASSUME NEW w \in Readers, ReadList(w) PROVE TypeOK'
    <2>1. [r \in Repos |-> ViewOf(r)] \in [Repos -> Views]
      BY <1>b
    <2> QED BY <1>0, <1>13, <2>1, EmptyTypes, RunFieldsType, FaultType DEF ReadList
  <1>14. ASSUME NEW w \in Readers, FillList(w) PROVE TypeOK'
    BY <1>0, <1>14, RunType, GotoType DEF FillList
  <1>15. ASSUME NEW w \in Readers, NEW r \in Repos, ReadRow(w, r) PROVE TypeOK'
    BY <1>0, <1>15, <1>b, EmptyTypes, RunFieldsType DEF ReadRow
  <1>16. ASSUME NEW w \in Readers, FillRow(w) PROVE TypeOK'
    BY <1>0, <1>16, RunType, GotoType DEF FillRow
  <1>17. ASSUME NEW I \in Instances, Crash(I) PROVE TypeOK'
    BY <1>17, EmptyTypes, SpendType DEF Crash
  <1>18. ASSUME NEW r \in Repos, Recover(r) PROVE TypeOK'
    BY <1>18, JobTypes DEF Recover
  <1>19. ASSUME NEW r \in Repos, LoseLock(r) PROVE TypeOK'
    BY <1>19, JobTypes, SpendType DEF LoseLock
  <1>20. ASSUME NEW r \in Repos, Forget(r) PROVE TypeOK'
    BY <1>20, EmptyTypes DEF Forget
  <1>21. ASSUME ExpireList PROVE TypeOK'
    BY <1>21 DEF ExpireList
  <1>22. ASSUME NEW r \in Repos, ExpireRow(r) PROVE TypeOK'
    BY <1>22 DEF ExpireRow
  <1>23. ASSUME NEW r \in Repos, Age(r) PROVE TypeOK'
    BY <1>23 DEF Age, Row
  <1>24. ASSUME NEW r \in Repos, Push(r) PROVE TypeOK'
    BY <1>24, SpendType DEF Push
  <1> QED
    BY <1>1, <1>2, <1>3, <1>4, <1>5, <1>6, <1>7, <1>8, <1>9, <1>10, <1>11, <1>12, <1>13,
       <1>14, <1>15, <1>16, <1>17, <1>18, <1>19, <1>20, <1>21, <1>22, <1>23, <1>24 DEF Next

\* Initially the types are right.
LEMMA InitType == Init => TypeOK
  BY EmptyTypes, BoundsAssumption
     DEF Init, TypeOK, Row, Contents, Views

\* TypeOK is an invariant of the synchronisation.
THEOREM TypeCorrect == Spec => []TypeOK
  <1>1. TypeOK /\ [Next]_vars => TypeOK'
    BY StepType DEF vars, TypeOK
  <1> QED
    BY <1>1, InitType, PTL DEF Spec

-----------------------------------------------------------------------------
(* The 30-second rule                                                      *)

\* A sync starts untouched; if it is overtaken before its check, the row is recent; it holds
\* a content GitHub has had, no older than the row's unless it was overtaken; and once its
\* transaction is through, the project exists.
SyncSound(w) ==
  /\ run[w].pc = "fetch" => ~run[w].overtaken
  /\ run[w].pc = "check" /\ run[w].overtaken => row[run[w].repo].recent
  /\ run[w].pc \in {"check", "upsert"} /\ run[w].seen # Blank =>
       /\ remote[run[w].repo] # Hidden
       /\ run[w].seen <= remote[run[w].repo]
       /\ ~run[w].overtaken => row[run[w].repo].content <= run[w].seen
  /\ run[w].pc \in {"evict", "store", "settleOk"} => row[run[w].repo].exists

\* A recent row exists, and so does one whose job completed; a content came from GitHub.
RowSound(r) ==
  /\ row[r].recent => row[r].exists
  /\ row[r].content # Blank => remote[r] # Hidden /\ row[r].content <= remote[r]
  /\ jobs[r].state = "completed" \/ r \in toEnrich => row[r].exists

\* The inductive invariant.
Sound == TypeOK /\ (\A w \in Syncing : SyncSound(w)) /\ (\A r \in Repos : RowSound(r))

\* A run that stays as it is, or does nothing of note, stays sound when no row changes.
LEMMA SameRunSound ==
  ASSUME NEW w \in Syncing, SyncSound(w), UNCHANGED <<row, remote>>,
         run'[w] = run[w] \/ run'[w].pc \in {"idle", "settleErr"}
  PROVE  SyncSound(w)'
  BY DEF SyncSound

\* A run that only moves on does too, unless it is the check that moves it.
LEMMA GotoSound ==
  ASSUME TypeOK, \A v \in Syncing : SyncSound(v), UNCHANGED <<row, remote>>,
         NEW w \in Syncing, NEW pc \in {"store", "settleOk", "settleErr"}, Goto(w, pc),
         pc # "settleErr" => run[w].pc \in {"evict", "store"}
  PROVE  \A v \in Syncing : SyncSound(v)'
  <1> SUFFICES ASSUME NEW v \in Syncing PROVE SyncSound(v)'
    OBVIOUS
  <1>1. w \in Runners /\ v \in Runners
    BY DEF Runners
  <1>2. CASE v # w
    BY <1>1, <1>2, SameRunSound DEF Goto, TypeOK
  <1>3. CASE v = w
    <2>1. run'[w].pc = pc /\ run'[w].repo = run[w].repo
      BY <1>1 DEF Goto, TypeOK, Run
    <2> QED BY <1>3, <2>1 DEF SyncSound
  <1> QED BY <1>2, <1>3

\* Rows stay sound when they do not change and no job completes.
LEMMA SameRowsSound ==
  ASSUME \A r \in Repos : RowSound(r), UNCHANGED <<row, remote, toEnrich>>,
         \A r \in Repos : jobs'[r] = jobs[r] \/ jobs'[r].state # "completed"
  PROVE  \A r \in Repos : RowSound(r)'
  BY DEF RowSound

\* Adding a job completes none.
LEMMA AddJobSound ==
  ASSUME TypeOK, NEW r \in Repos, AddJob(r)
  PROVE  \A q \in Repos : jobs'[q] = jobs[q] \/ jobs'[q].state # "completed"
  BY DEF AddJob, NewJob, NoJob, TypeOK

\* What writing a row does to the runs.
LEMMA OvertakenEffect ==
  ASSUME TypeOK, NEW r \in Repos, NEW v \in Runners
  PROVE  /\ Overtaken(r)[v].pc = run[v].pc /\ Overtaken(r)[v].repo = run[v].repo
         /\ Overtaken(r)[v].seen = run[v].seen
         /\ Overtaken(r)[v].overtaken = (run[v].overtaken \/ Pending(v, r))
  BY DEF Overtaken, TypeOK, Run, Pending

\* Whoever is only overtaken by a write that leaves the row recent stays sound.
LEMMA OvertakenSound ==
  ASSUME TypeOK, NEW v \in Syncing, SyncSound(v), NEW r \in Repos,
         run'[v] = Overtaken(r)[v], UNCHANGED remote,
         row'[r].exists, row'[r].recent, \A q \in Repos \ {r} : row'[q] = row[q]
  PROVE  SyncSound(v)'
  <1>1. v \in Runners /\ run[v].repo \in Repos
    BY RunType DEF TypeOK, Runners
  <1>2. /\ run'[v].pc = run[v].pc /\ run'[v].repo = run[v].repo
        /\ run'[v].seen = run[v].seen
        /\ run'[v].overtaken = (run[v].overtaken \/ Pending(v, r))
    BY <1>1, OvertakenEffect
  <1>3. CASE run[v].repo = r
    BY <1>2, <1>3 DEF SyncSound, Pending
  <1>4. CASE run[v].repo # r
    BY <1>1, <1>2, <1>4 DEF SyncSound, Pending
  <1> QED BY <1>3, <1>4

\* Every step preserves the invariant.
LEMMA StepSound ==
  ASSUME Sound, Next
  PROVE  Sound'
  <1> USE DEF Sound
  <1>0. TypeOK'
    BY StepType
  <1>a. /\ Syncing \subseteq Runners /\ Requests \subseteq Runners /\ Readers \subseteq Runners
        /\ Slots \subseteq Syncing /\ Callers \subseteq Syncing
        /\ Requests \cap Syncing = {} /\ Readers \cap Syncing = {}
    BY RunnersAssumption DEF Runners, Syncing
  <1>b. run \in [Runners -> Run]
    BY DEF TypeOK
  \* A step outside the runs and the rows.
  <1>c. ASSUME UNCHANGED <<row, remote, toEnrich, run>>,
               \A r \in Repos : jobs'[r] = jobs[r] \/ jobs'[r].state # "completed"
        PROVE  Sound'
    BY <1>0, <1>c, SameRunSound, SameRowsSound
  \* A step of one run that is not a sync.
  <1>d. ASSUME UNCHANGED <<row, remote, toEnrich>>, NEW w \in Runners \ Syncing,
               \A v \in Runners \ {w} : run'[v] = run[v],
               \A r \in Repos : jobs'[r] = jobs[r] \/ jobs'[r].state # "completed"
        PROVE  Sound'
    BY <1>0, <1>a, <1>d, SameRunSound, SameRowsSound
  \* A step that starts a sync.
  <1>e. ASSUME UNCHANGED <<row, remote, toEnrich>>, NEW w \in Syncing, NEW q \in Repos,
               run' = [run EXCEPT ![w] = [IdleRun EXCEPT !.pc = "fetch", !.repo = q]],
               \A r \in Repos : jobs'[r] = jobs[r] \/ jobs'[r].state # "completed"
        PROVE  Sound'
    <2>1. run'[w].pc = "fetch" /\ ~run'[w].overtaken
      BY <1>a, <1>b, <1>e DEF IdleRun
    <2>2. SyncSound(w)'
      BY <2>1 DEF SyncSound
    <2>3. \A v \in Syncing : SyncSound(v)'
      BY <1>a, <1>b, <1>e, <2>2, SameRunSound
    <2> QED BY <1>0, <1>e, <2>3, SameRowsSound
  <1>1. ASSUME NEW r \in Repos, RequestSync(r) PROVE Sound'
    BY <1>1, <1>c, AddJobSound DEF RequestSync
  <1>2. ASSUME NEW w \in Callers, NEW r \in Repos, StartDirect(w, r) PROVE Sound'
    BY <1>2, <1>a, <1>e DEF StartDirect
  <1>3. ASSUME NEW w \in Requests, StartAll(w) PROVE Sound'
    BY <1>3, <1>a, <1>b, <1>d DEF StartAll
  <1>4. ASSUME NEW w \in Requests, Place(w) PROVE Sound'
    <2>1. CASE Stop(w) /\ UNCHANGED row
      BY <1>4, <2>1, <1>a, <1>b, <1>d DEF Place, Stop
    <2>2. ASSUME NEW r \in run[w].todo,
                 row' = [row EXCEPT ![r].exists = TRUE, ![r].recent = TRUE],
                 run' = [Overtaken(r) EXCEPT ![w] =
                           [@ EXCEPT !.pc = "queue", !.repo = r, !.todo = run[w].todo \ {r}]]
          PROVE  Sound'
      <3>1. r \in Repos /\ w \in Runners
        BY <1>a, <1>b, <2>2, RunType
      <3>2. /\ row'[r].exists /\ row'[r].recent /\ row'[r].content = row[r].content
            /\ \A q \in Repos \ {r} : row'[q] = row[q]
        BY <2>2, <3>1 DEF TypeOK, Row
      <3>3. \A v \in Syncing : run'[v] = Overtaken(r)[v]
        BY <1>a, <2>2
      <3>4. \A v \in Syncing : SyncSound(v)'
        BY <1>4, <3>1, <3>2, <3>3, OvertakenSound DEF Place
      <3>5. \A q \in Repos : RowSound(q)'
        BY <1>4, <3>1, <3>2 DEF Place, RowSound
      <3> QED BY <1>0, <3>4, <3>5
    <2> QED BY <1>4, <2>1, <2>2 DEF Place
  <1>5. ASSUME NEW w \in Requests, Queue(w) PROVE Sound'
    <2>1. \A r \in Repos : jobs'[r] = jobs[r] \/ jobs'[r].state # "completed"
      BY <1>5, <1>a, <1>b, RunType, AddJobSound DEF Queue
    <2>2. \A v \in Runners \ {w} : run'[v] = run[v]
      BY <1>5, <1>b DEF Queue, Stop, Goto
    <2> QED BY <1>5, <1>a, <1>d, <2>1, <2>2 DEF Queue
  <1>6. ASSUME NEW w \in Slots, Take(w) PROVE Sound'
    <2>1. PICK r \in Repos :
            /\ jobs' = [jobs EXCEPT ![r] = [jobs[r] EXCEPT !.state = "active", !.owner = w]]
            /\ run' = [run EXCEPT ![w] = [IdleRun EXCEPT !.pc = "fetch", !.repo = r]]
      BY <1>6 DEF Take
    <2>2. \A q \in Repos : jobs'[q] = jobs[q] \/ jobs'[q].state # "completed"
      BY <1>a, <2>1, JobTypes DEF TypeOK
    <2> QED BY <1>6, <1>a, <1>e, <2>1, <2>2 DEF Take
  <1>7. ASSUME NEW w \in Syncing, Fetch(w) PROVE Sound'
    <2>1. CASE Goto(w, "settleErr")
      BY <1>0, <1>7, <2>1, GotoSound, SameRowsSound DEF Fetch
    <2>2. ASSUME NEW s, run' = [run EXCEPT ![w] = [@ EXCEPT !.pc = "check", !.seen = s]],
                 s = Blank \/ (s = remote[run[w].repo] /\ s # Hidden)
          PROVE  Sound'
      <3>1. /\ run'[w].pc = "check" /\ run'[w].seen = s /\ run'[w].repo = run[w].repo
            /\ run'[w].overtaken = run[w].overtaken
        BY <1>a, <1>b, <2>2 DEF Run
      <3>2. run[w].repo \in Repos /\ row[run[w].repo].content \in Contents
        BY <1>a, <1>b, RunType DEF TypeOK, Row
      <3>3. s # Blank => s \in Nat /\ row[run[w].repo].content <= s
        BY <2>2, <3>2 DEF RowSound, TypeOK, Contents, Blank
      <3>4. ~run[w].overtaken
        BY <1>7 DEF Fetch, SyncSound
      <3>5. SyncSound(w)'
        BY <1>7, <2>2, <3>1, <3>3, <3>4 DEF SyncSound, Fetch
      <3>6. \A v \in Syncing : SyncSound(v)'
        BY <1>7, <1>a, <1>b, <2>2, <3>5, SameRunSound DEF Fetch
      <3> QED BY <1>0, <1>7, <3>6, SameRowsSound DEF Fetch
    <2> QED BY <1>7, <2>1, <2>2 DEF Fetch
  <1>8. ASSUME NEW w \in Syncing, Check(w) PROVE Sound'
    <2>1. CASE Goto(w, "settleErr")
      BY <1>0, <1>8, <2>1, GotoSound, SameRowsSound DEF Check
    <2>2. ASSUME run'[w].repo = run[w].repo, SyncSound(w)',
                 \A v \in Runners \ {w} : run'[v] = run[v]
          PROVE  Sound'
      BY <1>0, <1>8, <1>a, <2>2, SameRunSound, SameRowsSound DEF Check
    <2>3. CASE /\ row[run[w].repo].recent
               /\ run' = [run EXCEPT ![w] = [@ EXCEPT !.pc = "evict",
                                                       !.seen = row[run[w].repo].content]]
      <3>1. run'[w].pc = "evict" /\ run'[w].repo = run[w].repo
        BY <1>a, <1>b, <2>3 DEF Run
      <3>2. SyncSound(w)'
        BY <1>8, <1>a, <1>b, <2>3, <3>1, RunType DEF SyncSound, RowSound, Check
      <3> QED BY <1>b, <2>2, <2>3, <3>1, <3>2
    <2>4. CASE /\ ~row[run[w].repo].recent
               /\ run' = [run EXCEPT ![w] = [@ EXCEPT !.pc = "upsert", !.overtaken = FALSE]]
      <3>1. /\ run'[w].pc = "upsert" /\ run'[w].repo = run[w].repo
            /\ run'[w].seen = run[w].seen
        BY <1>a, <1>b, <2>4 DEF Run
      <3>2. ~run[w].overtaken
        BY <1>8, <2>4 DEF SyncSound, Check
      <3>3. SyncSound(w)'
        BY <1>8, <3>1, <3>2 DEF SyncSound, Check
      <3> QED BY <1>b, <2>2, <2>4, <3>1, <3>3
    <2> QED BY <1>8, <2>1, <2>3, <2>4 DEF Check
  <1>9. ASSUME NEW w \in Syncing, Upsert(w) PROVE Sound'
    <2> DEFINE r == run[w].repo
    <2>1. CASE Goto(w, "settleErr") /\ UNCHANGED row
      BY <1>0, <1>9, <2>1, GotoSound, SameRowsSound DEF Upsert
    <2>2. CASE /\ row' = [row EXCEPT ![r] = [exists |-> TRUE, content |-> run[w].seen,
                                             recent |-> TRUE]]
               /\ run' = [Overtaken(r) EXCEPT ![w].pc = "evict"]
      <3>1. r \in Repos /\ w \in Runners
        BY <1>a, <1>b, RunType
      <3>2. /\ row'[r].exists /\ row'[r].recent /\ row'[r].content = run[w].seen
            /\ \A q \in Repos \ {r} : row'[q] = row[q]
        BY <2>2, <3>1 DEF TypeOK
      <3>3. /\ run'[w].pc = "evict" /\ run'[w].repo = r
            /\ \A v \in Syncing \ {w} : run'[v] = Overtaken(r)[v]
        BY <1>a, <2>2, <3>1, OvertakenEffect, OvertakenType DEF TypeOK, Run
      <3>4. SyncSound(w)'
        BY <3>2, <3>3 DEF SyncSound
      <3>5. \A v \in Syncing : SyncSound(v)'
        BY <1>9, <3>1, <3>2, <3>3, <3>4, OvertakenSound DEF Upsert
      <3>6. \A q \in Repos : RowSound(q)'
        BY <1>9, <3>1, <3>2 DEF Upsert, RowSound, SyncSound
      <3> QED BY <1>0, <3>5, <3>6
    <2> QED BY <1>9, <2>1, <2>2 DEF Upsert
  <1>10. ASSUME NEW w \in Syncing, Evict(w) PROVE Sound'
    BY <1>0, <1>10, GotoSound, SameRowsSound DEF Evict
  <1>11. ASSUME NEW w \in Syncing, Store(w) PROVE Sound'
    BY <1>0, <1>11, GotoSound, SameRowsSound DEF Store
  <1>12. ASSUME NEW w \in Syncing, Settle(w) PROVE Sound'
    <2>1. \A v \in Syncing : SyncSound(v)'
      <3>1. \A v \in Syncing : run'[v] = run[v] \/ run'[v].pc = "idle"
        BY <1>12, <1>a, <1>b DEF Settle, Stop, IdleRun
      <3> QED BY <1>12, <3>1, SameRunSound DEF Settle
    <2>2. run[w].repo \in Repos /\ (run[w].pc = "settleOk" => row[run[w].repo].exists)
      BY <1>a, <1>b, RunType DEF SyncSound
    <2>3. \A q \in Repos : jobs'[q].state = "completed" =>
             jobs[q].state = "completed" \/ (q = run[w].repo /\ run[w].pc = "settleOk")
      <3>1. CASE jobs' = jobs
        BY <3>1
      <3>2. CASE jobs' = [jobs EXCEPT ![run[w].repo] =
                            Finished(jobs[run[w].repo], run[w].pc = "settleOk")]
        BY <2>2, <3>2, JobTypes DEF TypeOK
      <3> QED BY <1>12, <3>1, <3>2 DEF Settle
    <2>4. \A q \in Repos : q \in toEnrich' =>
             q \in toEnrich \/ (q = run[w].repo /\ run[w].pc = "settleOk")
      BY <1>12 DEF Settle
    <2>5. \A q \in Repos : RowSound(q)'
      BY <1>12, <2>2, <2>3, <2>4 DEF Settle, RowSound
    <2> QED BY <1>0, <2>1, <2>5
  <1>13. ASSUME NEW w \in Readers, ReadList(w) PROVE Sound'
    BY <1>13, <1>a, <1>b, <1>d DEF ReadList
  <1>14. ASSUME NEW w \in Readers, FillList(w) PROVE Sound'
    BY <1>14, <1>a, <1>b, <1>d DEF FillList, Stop
  <1>15. ASSUME NEW w \in Readers, NEW r \in Repos, ReadRow(w, r) PROVE Sound'
    BY <1>15, <1>a, <1>b, <1>d DEF ReadRow
  <1>16. ASSUME NEW w \in Readers, FillRow(w) PROVE Sound'
    BY <1>16, <1>a, <1>b, <1>d DEF FillRow, Stop
  <1>17. ASSUME NEW I \in Instances, Crash(I) PROVE Sound'
    <2>1. \A v \in Syncing : run'[v] = run[v] \/ run'[v].pc = "idle"
      BY <1>17, <1>a DEF Crash, IdleRun
    <2> QED BY <1>0, <1>17, <2>1, SameRunSound, SameRowsSound DEF Crash
  <1>18. ASSUME NEW r \in Repos, Recover(r) \/ LoseLock(r) PROVE Sound'
    <2>1. \A q \in Repos : jobs'[q] = jobs[q] \/ jobs'[q].state # "completed"
      <3>1. jobs[r] \in Job /\ jobs' = [jobs EXCEPT ![r] = Redelivered(jobs[r])]
        BY <1>18 DEF Recover, LoseLock, TypeOK
      <3>2. Redelivered(jobs[r]).state # "completed"
        BY <3>1, JobTypes
      <3> QED BY <3>1, <3>2 DEF TypeOK
    <2> QED BY <1>18, <1>c, <2>1 DEF Recover, LoseLock
  <1>19. ASSUME NEW r \in Repos, Forget(r) PROVE Sound'
    <2>1. \A q \in Repos : jobs'[q] = jobs[q] \/ jobs'[q].state # "completed"
      BY <1>19 DEF Forget, NoJob, TypeOK
    <2> QED BY <1>19, <1>c, <2>1 DEF Forget
  <1>20. ASSUME ExpireList \/ (\E r \in Repos : ExpireRow(r)) PROVE Sound'
    BY <1>20, <1>c DEF ExpireList, ExpireRow
  <1>21. ASSUME NEW r \in Repos, Age(r) PROVE Sound'
    <2>1. /\ row'[r].exists = row[r].exists /\ row'[r].content = row[r].content
          /\ ~row'[r].recent
          /\ \A q \in Repos \ {r} : row'[q] = row[q]
      BY <1>21 DEF Age, TypeOK, Row
    <2>2. ASSUME NEW v \in Syncing PROVE SyncSound(v)'
      BY <1>21, <1>a, <1>b, <2>1, RunType DEF Age, SyncSound
    <2>3. \A q \in Repos : RowSound(q)'
      BY <1>21, <2>1 DEF Age, RowSound
    <2> QED BY <1>0, <2>2, <2>3
  <1>22. ASSUME NEW r \in Repos, Push(r) PROVE Sound'
    <2>1. \A q \in Repos : remote[q] # Hidden => remote'[q] # Hidden /\ remote[q] <= remote'[q]
      BY <1>22 DEF Push, TypeOK, Hidden
    <2>2. ASSUME NEW q \in Repos PROVE RowSound(q)'
      <3>1. remote[q] \in Nat \cup {Hidden} /\ remote'[q] \in Nat \cup {Hidden}
            /\ row[q].content \in Contents
        BY <1>0 DEF TypeOK, Row
      <3> QED BY <1>22, <2>1, <3>1 DEF Push, RowSound, Contents, Blank, Hidden
    <2>3. ASSUME NEW v \in Syncing PROVE SyncSound(v)'
      <3>1. run[v].repo \in Repos /\ run[v].seen \in Contents
        BY <1>a, <1>b, RunType
      <3>2. remote[run[v].repo] \in Nat \cup {Hidden} /\ remote'[run[v].repo] \in Nat \cup {Hidden}
        BY <1>0, <3>1 DEF TypeOK
      <3> QED BY <1>22, <2>1, <3>1, <3>2 DEF Push, SyncSound, Contents, Blank, Hidden
    <2> QED BY <1>0, <2>2, <2>3
  <1> QED
    BY <1>1, <1>2, <1>3, <1>4, <1>5, <1>6, <1>7, <1>8, <1>9, <1>10, <1>11, <1>12, <1>13,
       <1>14, <1>15, <1>16, <1>17, <1>18, <1>19, <1>20, <1>21, <1>22 DEF Next

\* The invariant, for every configuration.
LEMMA SoundInvariant == Spec => []Sound
  <1>1. Init => Sound
    <2> SUFFICES ASSUME Init PROVE Sound
      OBVIOUS
    <2>1. \A w \in Runners : run[w].pc = "idle"
      BY DEF Init, IdleRun
    <2>2. Syncing \subseteq Runners
      BY DEF Runners
    <2> QED
      BY <2>1, <2>2, InitType DEF Init, Sound, SyncSound, RowSound, NoJob
  <1>2. Sound /\ [Next]_vars => Sound'
    <2> SUFFICES ASSUME Sound, UNCHANGED vars PROVE Sound'
      BY StepSound
    <2> QED
      BY DEF vars, Sound, TypeOK, SyncSound, RowSound
  <1> QED
    BY <1>1, <1>2, PTL DEF Spec

\* A completed job has left a project, whatever failed, crashed or ran twice.
THEOREM CompletedJobsLeaveProjects == Spec => []CompletedMeansExists
  <1>1. Sound => CompletedMeansExists
    BY DEF Sound, RowSound, CompletedMeansExists
  <1> QED BY <1>1, SoundInvariant, PTL

\* A sync puts an older content over a newer one only when another write committed inside
\* its own transaction: the 30-second rule catches every other overlap.
THEOREM StaleWritesOverlap == Spec => OnlyOverlapsGoBack
  <1>1. Sound /\ [Next]_vars => [BackOnlyByOverlap]_vars
    <2> SUFFICES ASSUME Sound, Next, NEW r \in Repos,
                        row'[r].content # Blank, row'[r].content < row[r].content
                 PROVE  \E w \in Syncing : /\ run[w].pc = "upsert" /\ run[w].repo = r
                                           /\ run[w].overtaken /\ run'[w].pc = "evict"
      BY DEF BackOnlyByOverlap
    <2>1. row[r].content \in Contents /\ row \in [Repos -> Row]
      BY DEF Sound, TypeOK, Row
    <2>2. row' # row
      BY <2>1 DEF Contents, Blank
    <2>3. ASSUME NEW w \in Syncing, Upsert(w)
          PROVE  \E v \in Syncing : /\ run[v].pc = "upsert" /\ run[v].repo = r
                                    /\ run[v].overtaken /\ run'[v].pc = "evict"
      <3>1. w \in Runners /\ run[w] \in Run /\ run \in [Runners -> Run]
        BY DEF Sound, TypeOK, Runners
      <3>2. /\ row' = [row EXCEPT ![run[w].repo] =
                          [exists |-> TRUE, content |-> run[w].seen, recent |-> TRUE]]
            /\ run' = [Overtaken(run[w].repo) EXCEPT ![w].pc = "evict"]
        BY <2>2, <2>3 DEF Upsert
      <3>3. run[w].repo = r /\ row'[r].content = run[w].seen
        BY <2>1, <3>2 DEF Contents, Blank
      <3>4. run[w].overtaken
        <4>1. run[w].pc = "upsert" /\ run[w].seen # Blank
          BY <2>3, <3>3 DEF Upsert
        <4>2. ~run[w].overtaken => row[r].content <= run[w].seen
          BY <3>3, <4>1 DEF Sound, SyncSound
        <4>3. row[r].content \in Int /\ run[w].seen \in Int
          BY <2>1, <3>1 DEF Run, Contents, Blank
        <4>4. ~(row[r].content <= run[w].seen)
          BY <3>3, <4>3
        <4> QED BY <4>2, <4>4
      <3>5. run'[w].pc = "evict"
        BY <3>1, <3>2, <3>3, OvertakenType DEF Run
      <3> QED BY <2>3, <3>3, <3>4, <3>5 DEF Upsert
    <2>4. ASSUME NEW w \in Requests, Place(w) PROVE FALSE
      <3>1. PICK q \in run[w].todo :
              row' = [row EXCEPT ![q].exists = TRUE, ![q].recent = TRUE]
        BY <2>2, <2>4 DEF Place
      <3>2. row'[r].content = row[r].content
        BY <2>1, <3>1 DEF Row
      <3> QED BY <2>1, <3>2 DEF Contents, Blank
    <2>5. ASSUME NEW q \in Repos, Age(q) PROVE FALSE
      BY <2>1, <2>5 DEF Age, Row, Contents, Blank
    <2> QED
      BY <2>2, <2>3, <2>4, <2>5
         DEF Next, RequestSync, StartDirect, StartAll, Queue, Take, Fetch, Check, Evict, Store,
             Settle, ReadList, FillList, ReadRow, FillRow, Crash, Recover, LoseLock, Forget,
             ExpireList, ExpireRow, Push
  <1> QED
    BY <1>1, SoundInvariant, PTL DEF Spec, OnlyOverlapsGoBack

-----------------------------------------------------------------------------
(* The job id serialises the queue                                         *)

\* While no lock was lost, the slots run exactly the active jobs, each its own.
SlotsHold ==
  \A r \in Repos :
    /\ jobs[r].state = "active" => jobs[r].owner \in Slots /\ Busy(jobs[r].owner, r)
    /\ \A w \in Slots : Busy(w, r) => Holds(w, r)

Serial == /\ TypeOK
          /\ left.stalls <= Bounds.stalls
          /\ left.stalls = Bounds.stalls => SlotsHold

\* What a step may leave alone: the slots' repositories, the active jobs, and the stalls.
SlotKept(w) == (run'[w].pc = "idle" <=> run[w].pc = "idle") /\ run'[w].repo = run[w].repo
JobKept(r)  == /\ jobs'[r].state = "active" <=> jobs[r].state = "active"
               /\ jobs[r].state = "active" => jobs'[r].owner = jobs[r].owner

\* A step that leaves them alone keeps the slots serial.
LEMMA KeptSerial ==
  ASSUME Serial, TypeOK', left'.stalls = left.stalls,
         \A w \in Slots : SlotKept(w), \A r \in Repos : JobKept(r)
  PROVE  Serial'
  BY DEF Serial, SlotsHold, SlotKept, JobKept, Busy, Holds

\* Spending on anything but a stall leaves the stalls.
LEMMA SpendKept ==
  ASSUME left \in Budget
  PROVE  /\ Fault \/ Spend("pushes") \/ Spend("direct") \/ Spend("syncs") \/ Spend("alls")
              => left'.stalls = left.stalls
         /\ Spend("stalls") => left'.stalls < left.stalls
  BY DEF Fault, Spend, Budget

\* Adding a job touches no active one.
LEMMA AddJobKept ==
  ASSUME TypeOK, NEW r \in Repos, AddJob(r)
  PROVE  \A q \in Repos : JobKept(q)
  BY DEF AddJob, JobKept, NewJob, NoJob, TypeOK

\* A step inside a run touches no repository.
LEMMA GotoKept ==
  ASSUME TypeOK, NEW w \in Runners, NEW pc \in PCs \ {"idle"}, Goto(w, pc),
         run[w].pc # "idle"
  PROVE  \A v \in Slots : SlotKept(v)
  BY DEF Goto, SlotKept, TypeOK, Run, Runners, Syncing

\* A step of a runner that is no slot touches no slot.
LEMMA OthersKept ==
  ASSUME NEW w, w \notin Slots, \A v \in Runners \ {w} : run'[v] = run[v]
  PROVE  \A v \in Slots : SlotKept(v)
  BY DEF SlotKept, Runners, Syncing

\* Every step preserves the invariant.
LEMMA StepSerial ==
  ASSUME Serial, Next
  PROVE  Serial'
  <1> USE DEF Serial
  <1>0. TypeOK'
    BY StepType
  <1>a. /\ Syncing \subseteq Runners /\ Requests \subseteq Runners /\ Readers \subseteq Runners
        /\ Slots \subseteq Syncing /\ Callers \subseteq Syncing /\ Callers \cap Slots = {}
        /\ Requests \cap Slots = {} /\ Readers \cap Slots = {}
    BY RunnersAssumption DEF Runners, Syncing
  <1>b. run \in [Runners -> Run] /\ left \in Budget
    BY DEF TypeOK
  <1>c. UNCHANGED jobs => \A r \in Repos : JobKept(r)
    BY DEF JobKept
  <1>d. UNCHANGED run => \A w \in Slots : SlotKept(w)
    BY DEF SlotKept
  <1>e. {"check", "upsert", "evict", "store", "settleOk", "settleErr"} \subseteq PCs \ {"idle"}
    BY DEF PCs
  <1>1. ASSUME NEW r \in Repos, RequestSync(r) PROVE Serial'
    BY <1>0, <1>1, <1>b, <1>d, AddJobKept, SpendKept, KeptSerial DEF RequestSync
  <1>2. ASSUME NEW w \in Callers, NEW r \in Repos, StartDirect(w, r) PROVE Serial'
    BY <1>0, <1>2, <1>a, <1>b, <1>c, OthersKept, SpendKept, KeptSerial DEF StartDirect
  <1>3. ASSUME NEW w \in Requests, StartAll(w) PROVE Serial'
    BY <1>0, <1>3, <1>a, <1>b, <1>c, OthersKept, SpendKept, KeptSerial DEF StartAll
  <1>4. ASSUME NEW w \in Requests, Place(w) PROVE Serial'
    <2>1. \A v \in Slots : SlotKept(v)
      <3>1. CASE Stop(w)
        BY <1>a, <1>b, <3>1, OthersKept DEF Stop
      <3>2. ASSUME NEW r \in run[w].todo,
                   run' = [Overtaken(r) EXCEPT ![w] =
                             [@ EXCEPT !.pc = "queue", !.repo = r, !.todo = run[w].todo \ {r}]]
            PROVE  \A v \in Slots : SlotKept(v)
        <4>1. r \in Repos
          BY <1>a, <1>b, <3>2, RunType
        <4>2. \A v \in Slots : run'[v] = Overtaken(r)[v]
          BY <1>a, <3>2
        <4> QED BY <1>a, <4>1, <4>2, OvertakenEffect DEF SlotKept
      <3> QED BY <1>4, <3>1, <3>2 DEF Place
    <2>2. left'.stalls = left.stalls
      BY <1>4, <1>b, SpendKept DEF Place
    <2> QED BY <1>0, <1>4, <1>c, <2>1, <2>2, KeptSerial DEF Place
  <1>5. ASSUME NEW w \in Requests, Queue(w) PROVE Serial'
    <2>1. \A r \in Repos : JobKept(r)
      BY <1>5, <1>a, <1>b, <1>c, RunType, AddJobKept DEF Queue
    <2>2. \A v \in Slots : SlotKept(v)
      BY <1>5, <1>a, <1>b, OthersKept DEF Queue, Stop, Goto
    <2>3. left'.stalls = left.stalls
      BY <1>5, <1>b, SpendKept DEF Queue
    <2> QED BY <1>0, <2>1, <2>2, <2>3, KeptSerial
  <1>6. ASSUME NEW w \in Slots, Take(w) PROVE Serial'
    <2>1. PICK r \in Repos :
            /\ jobs[r].state # "active"
            /\ jobs' = [jobs EXCEPT ![r] = [jobs[r] EXCEPT !.state = "active", !.owner = w]]
            /\ run' = [run EXCEPT ![w] = [IdleRun EXCEPT !.pc = "fetch", !.repo = r]]
      BY <1>6 DEF Take
    <2>2. /\ jobs'[r].state = "active" /\ jobs'[r].owner = w
          /\ \A q \in Repos \ {r} : jobs'[q] = jobs[q]
      BY <2>1 DEF TypeOK, Job
    <2>3. /\ run'[w].pc = "fetch" /\ run'[w].repo = r
          /\ \A v \in Slots \ {w} : run'[v] = run[v]
      BY <1>a, <1>b, <2>1 DEF IdleRun
    <2>4. SlotsHold => SlotsHold'
      BY <1>6, <2>1, <2>2, <2>3 DEF SlotsHold, Busy, Holds, Take
    <2> QED BY <1>0, <1>6, <2>4 DEF Take
  <1>7. ASSUME NEW w \in Syncing, Fetch(w) \/ Check(w) \/ Evict(w) \/ Store(w) PROVE Serial'
    <2>1. left'.stalls = left.stalls
      BY <1>7, <1>b, SpendKept DEF Fetch, Check, Evict, Store
    <2>2. \A v \in Slots : SlotKept(v)
      <3>1. ASSUME NEW pc \in {"settleErr", "settleOk", "store"}, Goto(w, pc)
            PROVE  \A v \in Slots : SlotKept(v)
        BY <1>7, <1>a, <1>e, <3>1, GotoKept DEF Fetch, Check, Evict, Store
      <3>2. ASSUME NEW x, run' = [run EXCEPT ![w] = x], x.pc # "idle", x.repo = run[w].repo
            PROVE  \A v \in Slots : SlotKept(v)
        BY <1>7, <1>a, <1>b, <3>2 DEF SlotKept, Fetch, Check, Evict, Store
      <3>3. ASSUME NEW pc \in {"check", "evict"}, NEW s,
                   run' = [run EXCEPT ![w] = [@ EXCEPT !.pc = pc, !.seen = s]]
            PROVE  \A v \in Slots : SlotKept(v)
        <4> DEFINE x == [run[w] EXCEPT !.pc = pc, !.seen = s]
        <4>1. run[w] \in Run
          BY <1>a, <1>b DEF TypeOK
        <4>2. x.pc = pc /\ x.repo = run[w].repo
          BY <4>1 DEF Run
        <4>3. run' = [run EXCEPT ![w] = x] /\ x.pc # "idle"
          BY <3>3, <4>2
        <4> HIDE DEF x
        <4> QED BY <3>2, <4>2, <4>3
      <3>4. ASSUME run' = [run EXCEPT ![w] = [@ EXCEPT !.pc = "upsert", !.overtaken = FALSE]]
            PROVE  \A v \in Slots : SlotKept(v)
        <4> DEFINE x == [run[w] EXCEPT !.pc = "upsert", !.overtaken = FALSE]
        <4>1. run[w] \in Run
          BY <1>a, <1>b DEF TypeOK
        <4>2. x.pc = "upsert" /\ x.repo = run[w].repo
          BY <4>1 DEF Run
        <4>3. run' = [run EXCEPT ![w] = x] /\ x.pc # "idle"
          BY <3>4, <4>2
        <4> HIDE DEF x
        <4> QED BY <3>2, <4>2, <4>3
      <3> QED BY <1>7, <3>1, <3>3, <3>4 DEF Fetch, Check, Evict, Store
    <2> QED BY <1>0, <1>7, <1>c, <2>1, <2>2, KeptSerial DEF Fetch, Check, Evict, Store
  <1>8. ASSUME NEW w \in Syncing, Upsert(w) PROVE Serial'
    <2>1. left'.stalls = left.stalls
      BY <1>8, <1>b, SpendKept DEF Upsert
    <2>2. CASE Goto(w, "settleErr")
      BY <1>0, <1>8, <1>a, <1>c, <1>e, <2>1, <2>2, GotoKept, KeptSerial DEF Upsert
    <2>3. CASE run' = [Overtaken(run[w].repo) EXCEPT ![w].pc = "evict"]
      <3>1. run[w].repo \in Repos /\ w \in Runners
        BY <1>a, <1>b, RunType
      <3>2. \A v \in Runners : run'[v].repo = run[v].repo
              /\ (v # w => run'[v].pc = run[v].pc) /\ (v = w => run'[v].pc = "evict")
        <4> DEFINE Over == Overtaken(run[w].repo)
        <4>1. Over \in [Runners -> Run]
          BY <1>a, <3>1, OvertakenType DEF TypeOK
        <4>2. \A v \in Runners : Over[v].repo = run[v].repo /\ Over[v].pc = run[v].pc
          BY <1>a, <3>1, OvertakenEffect
        <4> HIDE DEF Over
        <4>3. Over[w] \in Run /\ run' = [Over EXCEPT ![w] = [Over[w] EXCEPT !.pc = "evict"]]
          BY <2>3, <3>1, <4>1 DEF Over
        <4>4. /\ run'[w] = [Over[w] EXCEPT !.pc = "evict"]
              /\ \A v \in Runners \ {w} : run'[v] = Over[v]
          BY <3>1, <4>1, <4>3
        <4>5. run'[w].pc = "evict" /\ run'[w].repo = Over[w].repo
          BY <4>3, <4>4 DEF Run
        <4> QED BY <3>1, <4>2, <4>4, <4>5
      <3>3. \A v \in Slots : SlotKept(v)
        BY <1>8, <1>a, <3>2 DEF SlotKept, Upsert
      <3> QED BY <1>0, <1>8, <1>c, <2>1, <3>3, KeptSerial DEF Upsert
    <2> QED BY <1>8, <2>2, <2>3 DEF Upsert
  <1>9. ASSUME NEW w \in Syncing, Settle(w) PROVE Serial'
    <2>1. left'.stalls = left.stalls
      BY <1>9, <1>b, SpendKept DEF Settle
    <2>2. /\ run[w].repo \in Repos /\ run[w].pc # "idle"
          /\ run'[w].pc = "idle" /\ \A v \in Runners \ {w} : run'[v] = run[v]
      BY <1>9, <1>a, <1>b, RunType DEF Settle, Stop, IdleRun
    <2>3. ASSUME SlotsHold PROVE SlotsHold'
      <3>1. CASE Holds(w, run[w].repo)
        <4>1. jobs' = [jobs EXCEPT ![run[w].repo] =
                         Finished(jobs[run[w].repo], run[w].pc = "settleOk")]
          BY <1>9, <3>1 DEF Settle
        <4>2. Finished(jobs[run[w].repo], run[w].pc = "settleOk").state # "active"
          BY <2>2 DEF Finished, TypeOK, Job
        <4>3. /\ jobs'[run[w].repo].state # "active"
              /\ \A q \in Repos \ {run[w].repo} : jobs'[q] = jobs[q]
          BY <2>2, <4>1, <4>2 DEF TypeOK
        <4> QED BY <1>a, <2>2, <2>3, <3>1, <4>3 DEF SlotsHold, Busy, Holds
      <3>2. CASE ~Holds(w, run[w].repo)
        <4>1. jobs' = jobs /\ w \notin Slots
          BY <1>9, <2>2, <2>3, <3>2 DEF Settle, SlotsHold, Busy
        <4> QED BY <1>a, <2>2, <2>3, <4>1 DEF SlotsHold, Busy, Holds
      <3> QED BY <3>1, <3>2
    <2> QED BY <1>0, <2>1, <2>3
  <1>10. ASSUME NEW w \in Readers, NEW r \in Repos,
                ReadList(w) \/ FillList(w) \/ ReadRow(w, r) \/ FillRow(w)
         PROVE  Serial'
    <2>1. left'.stalls = left.stalls
      BY <1>10, <1>b, SpendKept DEF ReadList, FillList, ReadRow, FillRow
    <2>2. \A v \in Runners \ {w} : run'[v] = run[v]
      BY <1>10, <1>b DEF ReadList, FillList, ReadRow, FillRow, Stop
    <2> QED BY <1>0, <1>10, <1>a, <1>c, <2>1, <2>2, OthersKept, KeptSerial
            DEF ReadList, FillList, ReadRow, FillRow
  <1>11. ASSUME Spend("stalls") PROVE Serial'
    BY <1>0, <1>11, <1>b, SpendKept, BoundsAssumption DEF TypeOK, Budget
  <1>12. ASSUME NEW r \in Repos, Recover(r) PROVE Serial'
    BY <1>0, <1>12 DEF Recover, Orphaned, SlotsHold, Busy
  <1>13. ASSUME NEW r \in Repos, Forget(r) PROVE Serial'
    <2>1. \A q \in Repos : JobKept(q)
      BY <1>13 DEF Forget, JobKept, NoJob, TypeOK
    <2> QED BY <1>0, <1>13, <1>d, <2>1, KeptSerial DEF Forget
  <1>14. ASSUME NEW r \in Repos, ExpireList \/ ExpireRow(r) \/ Age(r) \/ Push(r) PROVE Serial'
    <2>1. left'.stalls = left.stalls
      BY <1>14, <1>b, SpendKept DEF ExpireList, ExpireRow, Age, Push
    <2> QED BY <1>0, <1>14, <1>c, <1>d, <2>1, KeptSerial DEF ExpireList, ExpireRow, Age, Push
  <1>15. \E r \in Repos : TRUE
    BY BoundsAssumption
  <1> QED
    BY <1>1, <1>2, <1>3, <1>4, <1>5, <1>6, <1>7, <1>8, <1>9, <1>10, <1>11, <1>12, <1>13,
       <1>14, <1>15 DEF Next, Crash, LoseLock

\* The invariant, for every configuration.
LEMMA SerialInvariant == Spec => []Serial
  <1>1. Init => Serial
    <2> SUFFICES ASSUME Init PROVE Serial
      OBVIOUS
    <2>1. \A w \in Slots : run[w].pc = "idle"
      BY DEF Init, IdleRun, Runners, Syncing
    <2> QED
      BY <2>1, InitType, BoundsAssumption DEF Init, Serial, SlotsHold, Busy, NoJob, Budget
  <1>2. Serial /\ [Next]_vars => Serial'
    <2> SUFFICES ASSUME Serial, UNCHANGED vars PROVE Serial'
      BY StepSerial
    <2> QED
      BY DEF vars, Serial, TypeOK, SlotsHold, Busy, Holds
  <1> QED
    BY <1>1, <1>2, PTL DEF Spec

\* While no process died and no lock was lost, a repository is run in one slot at a time.
THEOREM JobIdSerialises == Spec => []OneSlotPerRepo
  <1>1. Serial => OneSlotPerRepo
    BY DEF Serial, SlotsHold, Holds, OneSlotPerRepo
  <1> QED
    BY <1>1, SerialInvariant, PTL

-----------------------------------------------------------------------------
(* Nobody is left out                                                      *)

Finality == {"completed", "failed"}

\* A sync-all has placed what it is done with.
Placed == \A w \in Requests, r \in Repos :
            run[w].pc \in {"place", "queue"} /\ r \notin run[w].todo => row[r].exists

\* Where nothing fails, a sync throws only on a hidden repository, writes only what it fetched,
\* and returns a project that is filled in.
Tells(w) == /\ run[w].pc = "settleErr" => remote[run[w].repo] = Hidden
            /\ run[w].pc \in {"check", "upsert"} => run[w].seen # Blank
            /\ run[w].pc \in {"evict", "store", "settleOk"} => Filled(run[w].repo)

RunsTell == \A w \in Syncing : Tells(w)

\* A finished job, whose id an add finds taken, has done its work,
FinalFilled == \A r \in Repos : jobs[r].state \in Finality => Filled(r)

\* and a project not filled in is attended.
NoneWaits == \A r \in Repos : row[r].exists => Filled(r) \/ Attended(r)

\* The inductive invariant.
Served == /\ left.faults <= Bounds.faults
          /\ Placed
          /\ Unharmed => RunsTell /\ FinalFilled /\ NoneWaits

\* What a step spends.
LEMMA StepSpends ==
  ASSUME Next
  PROVE  left' = left \/ Fault \/ \E what \in {"pushes", "stalls", "direct", "syncs", "alls"} : Spend(what)
  BY DEF Next, RequestSync, StartDirect, StartAll, Place, Queue, Take, Fetch, Check, Upsert, Evict,
     Store, Settle, ReadList, FillList, ReadRow, FillRow, Crash, Recover, LoseLock, Forget,
     ExpireList, ExpireRow, Age, Push

\* The bounds are only used up: a calm state was reached by calm steps.
LEMMA StepCalm ==
  ASSUME Serial, Served, Next
  PROVE  /\ left'.faults <= Bounds.faults
         /\ Unharmed' => Unharmed /\ ~Fault /\ ~Spend("stalls")
  <1>1. left \in Budget /\ left.stalls <= Bounds.stalls /\ left.faults <= Bounds.faults
    BY DEF Serial, Served, TypeOK
  <1>2. Bounds.faults \in Nat /\ Bounds.stalls \in Nat
    BY BoundsAssumption DEF Budget
  <1>3. /\ Fault => left'.faults < left.faults /\ left'.stalls = left.stalls
        /\ Spend("stalls") => left'.stalls < left.stalls /\ left'.faults = left.faults
        /\ \A what \in {"pushes", "direct", "syncs", "alls"} :
             Spend(what) => left'.stalls = left.stalls /\ left'.faults = left.faults
    BY <1>1 DEF Fault, Spend, Budget
  <1>4. left.faults \in Nat /\ left.stalls \in Nat /\ left'.faults \in Nat /\ left'.stalls \in Nat
    BY <1>1, StepType DEF Serial, TypeOK, Budget
  <1>5. CASE left' = left /\ ~Fault /\ ~Spend("stalls")
    BY <1>1, <1>5 DEF Unharmed
  <1>6. CASE Fault
    BY <1>1, <1>2, <1>3, <1>4, <1>6 DEF Unharmed
  <1>7. CASE Spend("stalls")
    BY <1>1, <1>2, <1>3, <1>4, <1>7 DEF Unharmed
  <1>8. ASSUME NEW what \in {"pushes", "direct", "syncs", "alls"}, Spend(what),
               ~Fault, ~Spend("stalls")
        PROVE  left'.faults <= Bounds.faults /\ (Unharmed' => Unharmed)
    BY <1>1, <1>3, <1>8 DEF Unharmed
  <1> QED BY <1>5, <1>6, <1>7, <1>8, StepSpends

\* What a sync's write does to the runs.
LEMMA UpsertRuns ==
  ASSUME TypeOK, NEW w \in Runners, NEW r \in Repos,
         run' = [Overtaken(r) EXCEPT ![w].pc = "evict"]
  PROVE  /\ \A v \in Runners : run'[v].repo = run[v].repo /\ run'[v].seen = run[v].seen
         /\ \A v \in Runners \ {w} : run'[v].pc = run[v].pc
         /\ run'[w].pc = "evict"
  <1> DEFINE Over == Overtaken(r)
  <1>1. Over \in [Runners -> Run]
    BY OvertakenType DEF TypeOK
  <1>2. \A v \in Runners : /\ Over[v].repo = run[v].repo /\ Over[v].seen = run[v].seen
                           /\ Over[v].pc = run[v].pc
    BY OvertakenEffect
  <1>3. run' = [Over EXCEPT ![w] = [Over[w] EXCEPT !.pc = "evict"]]
    OBVIOUS
  <1> HIDE DEF Over
  <1>4. run'[w].pc = "evict" /\ run'[w].repo = Over[w].repo /\ run'[w].seen = Over[w].seen
    BY <1>1, <1>3 DEF Run
  <1>5. \A v \in Runners \ {w} : run'[v] = Over[v]
    BY <1>1, <1>3
  <1> QED BY <1>2, <1>4, <1>5

\* What is hidden stays so, and what is filled in too.
LEMMA StepFilled ==
  ASSUME TypeOK, RunsTell, Next, ~Fault
  PROVE  /\ \A r \in Repos : remote[r] = Hidden => remote'[r] = Hidden
         /\ \A r \in Repos : Filled(r) => Filled(r)'
  <1>1. \A r \in Repos : remote[r] = Hidden => remote'[r] = Hidden
    <2>1. CASE remote' = remote
      BY <2>1
    <2>2. ASSUME NEW q \in Repos, Push(q) PROVE \A r \in Repos : remote[r] = Hidden => remote'[r] = Hidden
      BY <2>2 DEF Push, TypeOK
    <2> QED
      BY <2>1, <2>2 DEF Next, RequestSync, StartDirect, StartAll, Place, Queue, Take, Fetch, Check,
         Upsert, Evict, Store, Settle, ReadList, FillList, ReadRow, FillRow, Crash, Recover,
         LoseLock, Forget, ExpireList, ExpireRow, Age
  <1>2. skipped \subseteq skipped'
    <2>1. CASE skipped' = skipped
      BY <2>1
    <2>2. ASSUME NEW w \in Syncing, Check(w) PROVE skipped \subseteq skipped'
      BY <2>2 DEF Check
    <2>3. \A w, r : StartDirect(w, r) \/ StartAll(w) \/ Place(w) \/ Queue(w) => skipped' = skipped
      BY DEF StartDirect, StartAll, Place, Queue
    <2>4. \A w : Take(w) \/ Fetch(w) \/ Upsert(w) \/ Evict(w) \/ Store(w) \/ Settle(w)
                  => skipped' = skipped
      BY DEF Take, Fetch, Upsert, Evict, Store, Settle
    <2>5. \A w, r, I : ReadList(w) \/ FillList(w) \/ ReadRow(w, r) \/ FillRow(w) \/ Crash(I)
                        => skipped' = skipped
      BY DEF ReadList, FillList, ReadRow, FillRow, Crash
    <2>6. \A r : RequestSync(r) \/ Recover(r) \/ LoseLock(r) \/ Forget(r) \/ ExpireList
                  \/ ExpireRow(r) \/ Age(r) \/ Push(r) => skipped' = skipped
      BY DEF RequestSync, Recover, LoseLock, Forget, ExpireList, ExpireRow, Age, Push
    <2> QED BY <2>1, <2>2, <2>3, <2>6, <2>4, <2>5 DEF Next
  <1>3. \A r \in Repos : row[r].content # Blank => row'[r].content # Blank
    <2>1. CASE row' = row
      BY <2>1
    <2>2. ASSUME NEW w \in Requests, Place(w)
          PROVE  \A r \in Repos : row'[r].content = row[r].content
      <3>1. ASSUME NEW q \in Repos, row' = [row EXCEPT ![q].exists = TRUE, ![q].recent = TRUE]
            PROVE  \A r \in Repos : row'[r].content = row[r].content
        BY <3>1 DEF TypeOK, Row
      <3>2. w \in Runners /\ run[w].todo \subseteq Repos
        BY RunType DEF Runners, TypeOK
      <3> QED BY <2>2, <3>1, <3>2 DEF Place
    <2>3. ASSUME NEW w \in Syncing, Upsert(w)
          PROVE  \A r \in Repos : row[r].content # Blank => row'[r].content # Blank
      <3>1. run[w].seen # Blank
        BY <2>3 DEF RunsTell, Tells, Upsert
      <3> QED BY <2>3, <3>1 DEF Upsert, TypeOK, Row
    <2>4. ASSUME NEW q \in Repos, Age(q) PROVE \A r \in Repos : row'[r].content = row[r].content
      BY <2>4 DEF Age, TypeOK, Row
    <2> QED
      BY <2>1, <2>2, <2>3, <2>4 DEF Next, RequestSync, StartDirect, StartAll, Queue, Take, Fetch,
         Check, Evict, Store, Settle, ReadList, FillList, ReadRow, FillRow, Crash, Recover,
         LoseLock, Forget, ExpireList, ExpireRow, Push
  <1> QED BY <1>1, <1>2, <1>3 DEF Filled

\* Every step that does not fail leaves the syncs telling.
LEMMA StepTells ==
  ASSUME TypeOK, RunsTell, Next, ~Fault
  PROVE  RunsTell'
  <1>a. /\ Syncing \subseteq Runners /\ Requests \subseteq Runners /\ Readers \subseteq Runners
        /\ Slots \subseteq Syncing /\ Callers \subseteq Syncing /\ Syncing \cap Requests = {}
        /\ Syncing \cap Readers = {}
    BY RunnersAssumption DEF Runners, Syncing
  <1>b. run \in [Runners -> Run] /\ \A w \in Runners : run[w].repo \in Repos
    BY RunType DEF TypeOK
  <1>c. /\ \A r \in Repos : remote[r] = Hidden => remote'[r] = Hidden
        /\ \A r \in Repos : Filled(r) => Filled(r)'
    BY StepFilled
  \* A sync the step leaves where it was.
  <1>1. ASSUME NEW v \in Syncing, run'[v].pc = run[v].pc, run'[v].repo = run[v].repo,
               run'[v].seen = run[v].seen
        PROVE  Tells(v)'
    <2>1. PICK r \in Repos : r = run[v].repo
      BY <1>a, <1>b
    <2>2. /\ run[v].pc = "settleErr" => remote[r] = Hidden
          /\ run[v].pc \in {"check", "upsert"} => run[v].seen # Blank
          /\ run[v].pc \in {"evict", "store", "settleOk"} => Filled(r)
      BY <2>1 DEF RunsTell, Tells
    <2>3. /\ run'[v].pc = "settleErr" => remote'[r] = Hidden
          /\ run'[v].pc \in {"check", "upsert"} => run'[v].seen # Blank
          /\ run'[v].pc \in {"evict", "store", "settleOk"} => Filled(r)'
      BY <1>1, <1>c, <2>2
    <2> QED BY <1>1, <2>1, <2>3 DEF Tells
  <1>2. ASSUME NEW v \in Syncing, run'[v] = run[v] PROVE Tells(v)'
    BY <1>1, <1>2
  <1>3. ASSUME NEW v \in Syncing, run'[v].pc \in {"idle", "fetch"} PROVE Tells(v)'
    BY <1>3 DEF Tells
  \* One sync goes on, the others stay.
  <1>4. ASSUME NEW w \in Syncing, \A v \in Runners \ {w} : run'[v] = run[v], Tells(w)'
        PROVE  RunsTell'
    BY <1>2, <1>4, <1>a DEF RunsTell
  <1>5. ASSUME NEW w \in Runners \ Syncing, \A v \in Runners \ {w} : run'[v] = run[v]
        PROVE  RunsTell'
    BY <1>2, <1>5, <1>a DEF RunsTell
  <1>6. ASSUME NEW w \in Syncing, NEW q \in Repos, StartDirect(w, q) \/ Take(w) \/ Settle(w)
        PROVE  RunsTell'
    <2>1. run'[w].pc \in {"idle", "fetch"} /\ \A v \in Runners \ {w} : run'[v] = run[v]
      <3>1. w \in Runners
        BY <1>6, <1>a
      <3>2. CASE Settle(w)
        BY <1>b, <3>1, <3>2 DEF Settle, Stop, IdleRun
      <3>3. CASE StartDirect(w, q)
        BY <1>b, <3>1, <3>3 DEF StartDirect, IdleRun
      <3>4. CASE Take(w)
        BY <1>b, <3>1, <3>4 DEF Take, IdleRun
      <3> QED BY <1>6, <3>2, <3>3, <3>4
    <2> QED BY <1>3, <1>4, <2>1
  <1>7. ASSUME NEW w \in Syncing, Fetch(w) PROVE RunsTell'
    <2>0. PICK r \in Repos : r = run[w].repo
      BY <1>a, <1>b
    <2>1. remote'[r] = remote[r] /\ w \in Runners /\ run[w] \in Run
      BY <1>7, <1>a, <1>b DEF Fetch
    <2>2. CASE run' = [run EXCEPT ![w] = [@ EXCEPT !.pc = "check", !.seen = remote[run[w].repo]]]
               /\ remote[run[w].repo] # Hidden
      <3>1. remote[r] \in Nat
        BY <2>0, <2>2 DEF TypeOK
      <3>2. run'[w].pc = "check" /\ run'[w].seen = remote[r]
        BY <1>b, <2>0, <2>1, <2>2 DEF Run
      <3>3. Tells(w)'
        BY <3>1, <3>2 DEF Tells, Blank
      <3> QED BY <1>4, <1>b, <2>2, <3>3
    <2>3. CASE remote[run[w].repo] = Hidden /\ Goto(w, "settleErr")
      <3>1. run'[w].pc = "settleErr" /\ run'[w].repo = r
        BY <1>b, <2>0, <2>1, <2>3 DEF Goto, Run
      <3>2. Tells(w)'
        BY <2>0, <2>1, <2>3, <3>1 DEF Tells
      <3> QED BY <1>4, <1>b, <2>3, <3>2 DEF Goto
    <2> QED BY <1>7, <2>2, <2>3 DEF Fetch
  <1>8. ASSUME NEW w \in Syncing, Check(w) PROVE RunsTell'
    <2>0. PICK r \in Repos : r = run[w].repo
      BY <1>a, <1>b
    <2>1. row' = row /\ w \in Runners /\ run[w] \in Run /\ run[w].pc = "check"
      BY <1>8, <1>a, <1>b DEF Check
    <2>2. CASE /\ run' = [run EXCEPT ![w] = [@ EXCEPT !.pc = "evict", !.seen = row[run[w].repo].content]]
               /\ skipped' = IF row[run[w].repo].content = Blank
                             THEN skipped \cup {run[w].repo} ELSE skipped
      <3>1. run'[w].pc = "evict" /\ run'[w].repo = r
        BY <1>b, <2>0, <2>1, <2>2 DEF Run
      <3>2. row'[r].content # Blank \/ r \in skipped'
        BY <2>0, <2>1, <2>2
      <3>3. Tells(w)'
        BY <3>1, <3>2 DEF Tells, Filled
      <3> QED BY <1>4, <1>b, <2>2, <3>3
    <2>3. CASE run' = [run EXCEPT ![w] = [@ EXCEPT !.pc = "upsert", !.overtaken = FALSE]]
      <3>1. run'[w].pc = "upsert" /\ run'[w].seen = run[w].seen
        BY <1>b, <2>1, <2>3 DEF Run
      <3>2. run[w].seen # Blank
        BY <2>1 DEF RunsTell, Tells
      <3>3. Tells(w)'
        BY <3>1, <3>2 DEF Tells
      <3> QED BY <1>4, <1>b, <2>3, <3>3
    <2> QED BY <1>8, <2>2, <2>3 DEF Check
  <1>9. ASSUME NEW w \in Syncing, Upsert(w) PROVE RunsTell'
    <2>0. PICK r \in Repos : r = run[w].repo
      BY <1>a, <1>b
    <2>1. /\ w \in Runners /\ run[w].pc = "upsert"
          /\ row' = [row EXCEPT ![r] = [exists |-> TRUE, content |-> run[w].seen, recent |-> TRUE]]
          /\ run' = [Overtaken(r) EXCEPT ![w].pc = "evict"]
      BY <1>9, <1>a, <2>0 DEF Upsert
    <2>2. /\ \A v \in Runners \ {w} : /\ run'[v].pc = run[v].pc /\ run'[v].repo = run[v].repo
                                      /\ run'[v].seen = run[v].seen
          /\ run'[w].pc = "evict" /\ run'[w].repo = r
      BY <1>a, <1>b, <2>0, <2>1, UpsertRuns
    <2>3. run[w].seen # Blank /\ row'[r].content = run[w].seen
      BY <2>1 DEF RunsTell, Tells, TypeOK
    <2>4. Tells(w)'
      BY <2>2, <2>3 DEF Tells, Filled
    <2>5. \A v \in Syncing \ {w} : Tells(v)'
      BY <1>1, <1>a, <2>2
    <2> QED BY <2>4, <2>5 DEF RunsTell
  <1>10. ASSUME NEW w \in Syncing, Evict(w) \/ Store(w) PROVE RunsTell'
    <2>0. PICK r \in Repos : r = run[w].repo
      BY <1>a, <1>b
    <2>1. w \in Runners /\ run[w] \in Run /\ run[w].pc \in {"evict", "store"}
      BY <1>10, <1>a, <1>b DEF Evict, Store
    <2>2. /\ run'[w].pc \in {"store", "settleOk"} /\ run'[w].repo = r
          /\ \A v \in Runners \ {w} : run'[v] = run[v]
      BY <1>10, <1>b, <2>0, <2>1 DEF Evict, Store, Goto, Run
    <2>3. Filled(r)
      BY <2>0, <2>1 DEF RunsTell, Tells
    <2>4. Filled(r)'
      BY <1>c, <2>3
    <2>5. Tells(w)'
      BY <2>2, <2>4 DEF Tells
    <2> QED BY <1>4, <2>2, <2>5
  <1>11. ASSUME NEW w \in Requests, Place(w) PROVE RunsTell'
    <2>1. ASSUME NEW r \in Repos,
                 run' = [Overtaken(r) EXCEPT ![w] =
                           [@ EXCEPT !.pc = "queue", !.repo = r, !.todo = run[w].todo \ {r}]]
          PROVE  RunsTell'
      <3>1. \A v \in Syncing : /\ run'[v].pc = run[v].pc /\ run'[v].repo = run[v].repo
                               /\ run'[v].seen = run[v].seen
        BY <1>a, <1>b, <2>1 DEF Overtaken, Run
      <3> QED BY <1>1, <3>1 DEF RunsTell
    <2>2. run[w].todo \subseteq Repos
      BY <1>a, <1>b, RunType
    <2> QED BY <1>11, <2>1, <2>2 DEF Place
  <1>12. ASSUME NEW w \in Requests, StartAll(w) \/ Queue(w) PROVE RunsTell'
    BY <1>5, <1>12, <1>a, <1>b DEF StartAll, Queue, Goto, Stop
  <1>13. ASSUME NEW w \in Readers, NEW r \in Repos,
                ReadList(w) \/ FillList(w) \/ ReadRow(w, r) \/ FillRow(w)
         PROVE  RunsTell'
    BY <1>5, <1>13, <1>a, <1>b DEF ReadList, FillList, ReadRow, FillRow, Stop
  <1>14. ASSUME NEW I, Crash(I) PROVE RunsTell'
    <2>1. \A v \in Syncing : run'[v] = run[v] \/ run'[v].pc = "idle"
      BY <1>14, <1>a DEF Crash, IdleRun
    <2> QED BY <1>2, <1>3, <2>1 DEF RunsTell
  <1>15. ASSUME run' = run PROVE RunsTell'
    BY <1>2, <1>15 DEF RunsTell
  <1>16. \A r \in Repos : RequestSync(r) \/ Recover(r) \/ LoseLock(r) \/ Forget(r) \/ ExpireList
                            \/ ExpireRow(r) \/ Age(r) \/ Push(r) => run' = run
    BY DEF RequestSync, Recover, LoseLock, Forget, ExpireList, ExpireRow, Age, Push
  <1>17. \E r \in Repos : TRUE
    BY BoundsAssumption
  <1> QED
    BY <1>6, <1>7, <1>8, <1>9, <1>10, <1>11, <1>12, <1>13, <1>14, <1>15, <1>16, <1>17, <1>a DEF Next

\* A step that ends no job and no care keeps all served.
LEMMA KeptServed ==
  ASSUME FinalFilled, NoneWaits,
         \A r \in Repos : Filled(r) => Filled(r)',
         \A r \in Repos : row'[r].exists => row[r].exists \/ Attended(r)',
         \A r \in Repos : /\ jobs[r].state \in Live => jobs'[r].state \in Live
                          /\ jobs'[r].state \in Finality => jobs[r].state \in Finality,
         \A w \in Callers, r \in Repos : Busy(w, r) => Busy(w, r)',
         \A w \in Requests : run[w].pc = "queue" =>
             run'[w].pc = "queue" /\ run'[w].repo = run[w].repo
  PROVE  FinalFilled' /\ NoneWaits'
  <1>1. ASSUME NEW r \in Repos, Attended(r) PROVE Attended(r)'
    <2>1. CASE jobs[r].state \in Live
      BY <2>1 DEF Attended
    <2>2. CASE \E w \in Callers : Busy(w, r)
      BY <2>2 DEF Attended
    <2>3. CASE \E w \in Requests : run[w].pc = "queue" /\ run[w].repo = r
      BY <2>3 DEF Attended
    <2> QED BY <1>1, <2>1, <2>2, <2>3 DEF Attended
  <1>2. FinalFilled'
    BY DEF FinalFilled
  <1>3. NoneWaits'
    BY <1>1 DEF NoneWaits
  <1> QED BY <1>2, <1>3

\* Adding a job keeps the others', and leaves one that is live or was final.
LEMMA AddJobServes ==
  ASSUME TypeOK, NEW r \in Repos, AddJob(r)
  PROVE  /\ \A q \in Repos : jobs[q].state \in Live => jobs'[q].state \in Live
         /\ \A q \in Repos : jobs'[q].state \in Finality => jobs[q].state \in Finality
         /\ jobs'[r].state \in Live \cup Finality
  <1>1. /\ \A q \in Repos \ {r} : jobs'[q] = jobs[q]
        /\ jobs'[r] = IF jobs[r].state = "none" THEN NewJob ELSE jobs[r]
    BY DEF AddJob, TypeOK
  <1>2. NewJob.state = "waiting"
    BY DEF NewJob, NoJob
  <1>3. jobs[r].state \in JobStates
    BY DEF TypeOK, Job
  <1> QED BY <1>1, <1>2, <1>3 DEF Live, Finality, JobStates

\* Placing keeps to what the sync-all is done with.
LEMMA PlacedKept ==
  ASSUME Placed, \A r \in Repos : row[r].exists => row'[r].exists,
         \A w \in Requests : run'[w].pc \in {"place", "queue"} =>
           run[w].pc \in {"place", "queue"} /\ run'[w].todo = run[w].todo
  PROVE  Placed'
  BY DEF Placed

\* Every step keeps the placements.
LEMMA StepPlaced ==
  ASSUME TypeOK, Placed, Next
  PROVE  Placed'
  <1>a. /\ Syncing \subseteq Runners /\ Requests \subseteq Runners /\ Readers \subseteq Runners
        /\ Slots \subseteq Syncing /\ Callers \subseteq Syncing /\ Syncing \cap Requests = {}
        /\ Requests \cap Readers = {}
    BY RunnersAssumption DEF Runners, Syncing
  <1>b. run \in [Runners -> Run]
    BY DEF TypeOK
  <1>c. row' = row => \A r \in Repos : row[r].exists => row'[r].exists
    OBVIOUS
  <1>1. ASSUME NEW w, w \notin Requests, \A v \in Runners \ {w} : run'[v] = run[v],
               \A r \in Repos : row[r].exists => row'[r].exists
        PROVE  Placed'
    BY <1>1, <1>a, PlacedKept
  <1>2. ASSUME NEW w \in Syncing, Upsert(w) PROVE Placed'
    <2>1. run[w].repo \in Repos /\ w \in Runners
      BY <1>a, <1>b, RunType
    <2>2. CASE row' = row /\ \A v \in Runners \ {w} : run'[v] = run[v]
      BY <1>1, <1>2, <1>a, <2>2
    <2>3. CASE /\ row' = [row EXCEPT ![run[w].repo] = [exists |-> TRUE, content |-> run[w].seen,
                                                      recent |-> TRUE]]
               /\ run' = [Overtaken(run[w].repo) EXCEPT ![w].pc = "evict"]
      <3>1. \A v \in Runners \ {w} : run'[v].pc = run[v].pc /\ run'[v].todo = run[v].todo
        BY <1>b, <2>1, <2>3 DEF Overtaken, Run
      <3>2. \A r \in Repos : row[r].exists => row'[r].exists
        BY <2>1, <2>3 DEF TypeOK
      <3> QED BY <1>a, <3>1, <3>2, PlacedKept
    <2> QED BY <1>2, <1>b, <2>2, <2>3 DEF Upsert, Goto
  <1>3. ASSUME NEW w \in Requests, Place(w) PROVE Placed'
    <2>1. ASSUME Stop(w), row' = row PROVE Placed'
      BY <1>a, <1>b, <2>1, PlacedKept DEF Stop, IdleRun
    <2>2. ASSUME NEW r \in run[w].todo,
                 row' = [row EXCEPT ![r].exists = TRUE, ![r].recent = TRUE],
                 run' = [Overtaken(r) EXCEPT ![w] =
                           [@ EXCEPT !.pc = "queue", !.repo = r, !.todo = run[w].todo \ {r}]]
          PROVE  Placed'
      <3>1. r \in Repos
        BY <1>a, <1>b, RunType
      <3>2. row'[r].exists /\ \A q \in Repos : row[q].exists => row'[q].exists
        BY <2>2, <3>1 DEF TypeOK, Row
      <3>3. \A v \in Runners \ {w} : run'[v].pc = run[v].pc /\ run'[v].todo = run[v].todo
        BY <1>a, <1>b, <2>2, <3>1 DEF Overtaken, Run
      <3>4. run'[w].todo = run[w].todo \ {r}
        BY <1>a, <1>b, <2>2, <3>1, OvertakenType DEF Run
      <3> QED BY <1>3, <1>a, <3>2, <3>3, <3>4 DEF Placed, Place
    <2> QED BY <1>3, <2>1, <2>2 DEF Place
  <1>4. ASSUME NEW w \in Requests, Queue(w) PROVE Placed'
    BY <1>4, <1>a, <1>b, PlacedKept DEF Queue, Stop, Goto, IdleRun, Run
  <1>5. ASSUME NEW w \in Requests, StartAll(w) PROVE Placed'
    <2>1. run'[w].todo = Repos /\ \A v \in Runners \ {w} : run'[v] = run[v]
      BY <1>5, <1>a, <1>b DEF StartAll, IdleRun
    <2> QED BY <1>5, <1>a, <2>1 DEF StartAll, Placed
  <1>6. ASSUME NEW I, Crash(I) PROVE Placed'
    BY <1>6, <1>a, PlacedKept DEF Crash, IdleRun
  <1>7. ASSUME NEW r \in Repos, Age(r) PROVE Placed'
    <2>1. \A q \in Repos : row'[q].exists = row[q].exists
      BY <1>7 DEF Age, TypeOK, Row
    <2> QED BY <1>7, <2>1, PlacedKept DEF Age
  <1>8. ASSUME run' = run, row' = row PROVE Placed'
    BY <1>8 DEF Placed
  <1>9. ASSUME NEW w \in Syncing \cup Readers, row' = row, \A v \in Runners \ {w} : run'[v] = run[v]
        PROVE  Placed'
    BY <1>1, <1>9, <1>a, RunnersAssumption
  <1>10. \A w \in Syncing, r \in Repos :
           Take(w) \/ StartDirect(w, r) \/ Fetch(w) \/ Check(w) \/ Evict(w) \/ Store(w) \/ Settle(w)
             => row' = row /\ \A v \in Runners \ {w} : run'[v] = run[v]
    BY <1>b DEF Take, StartDirect, Fetch, Check, Evict, Store, Settle, Goto, Stop
  <1>11. \A w \in Readers, r \in Repos :
           ReadList(w) \/ FillList(w) \/ ReadRow(w, r) \/ FillRow(w)
             => row' = row /\ \A v \in Runners \ {w} : run'[v] = run[v]
    BY <1>b DEF ReadList, FillList, ReadRow, FillRow, Stop
  <1>12. \A r \in Repos :
           RequestSync(r) \/ Recover(r) \/ LoseLock(r) \/ Forget(r) \/ ExpireList \/ ExpireRow(r)
             \/ Push(r) => run' = run /\ row' = row
    BY DEF RequestSync, Recover, LoseLock, Forget, ExpireList, ExpireRow, Push
  <1>13. \E r \in Repos : TRUE
    BY BoundsAssumption
  <1> QED
    BY <1>2, <1>3, <1>4, <1>5, <1>6, <1>7, <1>8, <1>9, <1>10, <1>11, <1>12, <1>13, <1>a DEF Next

\* Every calm step serves: whoever stops caring for a repository leaves it filled in.
LEMMA StepServes ==
  ASSUME Serial, Served, Next, Unharmed, ~Fault, ~Spend("stalls")
  PROVE  FinalFilled' /\ NoneWaits'
  <1>a. /\ Syncing \subseteq Runners /\ Requests \subseteq Runners /\ Readers \subseteq Runners
        /\ Slots \subseteq Syncing /\ Callers \subseteq Syncing /\ Syncing \cap Requests = {}
        /\ Syncing \cap Readers = {} /\ Requests \cap Readers = {} /\ Slots \cap Callers = {}
    BY RunnersAssumption DEF Runners, Syncing
  <1>b. TypeOK /\ run \in [Runners -> Run] /\ RunsTell /\ FinalFilled /\ NoneWaits /\ SlotsHold
    BY DEF Serial, Served, Unharmed, TypeOK
  <1>c. /\ \A r \in Repos : remote[r] = Hidden => remote'[r] = Hidden
        /\ \A r \in Repos : Filled(r) => Filled(r)'
    BY <1>b, StepFilled
  <1>d. \A w \in Runners : run[w].repo \in Repos
    BY <1>b, RunType
  \* A step that leaves the queue's finals, the rows and who cares for them.
  <1>1. ASSUME \A r \in Repos : jobs[r].state \in Live => jobs'[r].state \in Live,
               \A r \in Repos : jobs'[r].state \in Finality => jobs[r].state \in Finality,
               \A r \in Repos : row'[r].exists => row[r].exists,
               \A w \in Callers, r \in Repos : Busy(w, r) => Busy(w, r)',
               \A w \in Requests : run[w].pc = "queue" =>
                 run'[w].pc = "queue" /\ run'[w].repo = run[w].repo
        PROVE  FinalFilled' /\ NoneWaits'
    BY <1>1, <1>b, <1>c, KeptServed
  \* In particular one that leaves the runs.
  <1>2. ASSUME run' = run,
               \A r \in Repos : jobs[r].state \in Live => jobs'[r].state \in Live,
               \A r \in Repos : jobs'[r].state \in Finality => jobs[r].state \in Finality,
               \A r \in Repos : row'[r].exists => row[r].exists
        PROVE  FinalFilled' /\ NoneWaits'
    BY <1>1, <1>2, <1>a DEF Busy
  \* Or takes one run on.
  <1>3. ASSUME NEW w \in Runners, \A v \in Runners \ {w} : run'[v] = run[v],
               run[w].pc # "queue",
               run[w].pc = "idle" \/ w \notin Callers
                 \/ (run'[w].pc # "idle" /\ run'[w].repo = run[w].repo),
               \A r \in Repos : jobs[r].state \in Live => jobs'[r].state \in Live,
               \A r \in Repos : jobs'[r].state \in Finality => jobs[r].state \in Finality,
               \A r \in Repos : row'[r].exists => row[r].exists
        PROVE  FinalFilled' /\ NoneWaits'
    <2>1. \A v \in Callers, r \in Repos : Busy(v, r) => Busy(v, r)'
      BY <1>3, <1>a DEF Busy
    <2>2. \A v \in Requests : run[v].pc = "queue" =>
            run'[v].pc = "queue" /\ run'[v].repo = run[v].repo
      BY <1>3, <1>a
    <2> QED BY <1>1, <1>3, <2>1, <2>2
  <1>4. ASSUME NEW r \in Repos, RequestSync(r) PROVE FinalFilled' /\ NoneWaits'
    BY <1>2, <1>4, <1>b, AddJobServes DEF RequestSync
  <1>5. ASSUME NEW w \in Callers, NEW r \in Repos, StartDirect(w, r)
        PROVE  FinalFilled' /\ NoneWaits'
    <2>1. run[w].pc = "idle" /\ run'[w].pc = "fetch" /\ \A v \in Runners \ {w} : run'[v] = run[v]
      BY <1>5, <1>a, <1>b DEF StartDirect, IdleRun
    <2> QED BY <1>3, <1>5, <1>a, <2>1 DEF StartDirect
  <1>6. ASSUME NEW w \in Requests, StartAll(w) PROVE FinalFilled' /\ NoneWaits'
    <2>1. run[w].pc = "idle" /\ \A v \in Runners \ {w} : run'[v] = run[v]
      BY <1>6, <1>a, <1>b DEF StartAll
    <2> QED BY <1>3, <1>6, <1>a, <2>1 DEF StartAll
  <1>7. ASSUME NEW w \in Requests, Place(w) PROVE FinalFilled' /\ NoneWaits'
    <2>1. PICK r \in run[w].todo :
            /\ row' = [row EXCEPT ![r].exists = TRUE, ![r].recent = TRUE]
            /\ run' = [Overtaken(r) EXCEPT ![w] =
                         [@ EXCEPT !.pc = "queue", !.repo = r, !.todo = run[w].todo \ {r}]]
      BY <1>7 DEF Place
    <2>2. r \in Repos
      BY <1>a, <1>b, RunType
    <2>3. \A v \in Runners \ {w} : run'[v].pc = run[v].pc /\ run'[v].repo = run[v].repo
      BY <1>b, <2>1, <2>2, OvertakenEffect DEF Overtaken
    <2>4. run'[w].pc = "queue" /\ run'[w].repo = r
      BY <1>a, <1>b, <2>1, <2>2, OvertakenType DEF Run
    <2>5. Attended(r)' /\ run[w].pc = "place"
      BY <1>7, <2>4 DEF Attended, Place
    <2>6. \A q \in Repos : row'[q].exists => row[q].exists \/ Attended(q)'
      BY <1>b, <2>1, <2>2, <2>5 DEF TypeOK, Row
    <2>7. jobs' = jobs /\ remote' = remote
      BY <1>7 DEF Place
    <2>8. \A v \in Callers, q \in Repos : Busy(v, q) => Busy(v, q)'
      BY <1>a, <2>3 DEF Busy
    <2>9. \A v \in Requests : run[v].pc = "queue" =>
             run'[v].pc = "queue" /\ run'[v].repo = run[v].repo
      BY <1>a, <2>3, <2>5
    <2> QED BY <1>b, <1>c, <2>6, <2>7, <2>8, <2>9, KeptServed
  <1>8. ASSUME NEW w \in Requests, Queue(w) PROVE FinalFilled' /\ NoneWaits'
    <2>0. PICK r \in Repos : r = run[w].repo
      BY <1>a, <1>d
    <2>1. r \in Repos /\ AddJob(r) /\ UNCHANGED <<remote, row, toEnrich>>
      BY <1>8, <2>0 DEF Queue
    <2>2. /\ \A q \in Repos : jobs[q].state \in Live => jobs'[q].state \in Live
          /\ \A q \in Repos : jobs'[q].state \in Finality => jobs[q].state \in Finality
          /\ jobs'[r].state \in Live \cup Finality
      BY <1>b, <2>1, AddJobServes
    <2>3. \A v \in Runners \ {w} : run'[v] = run[v]
      BY <1>8, <1>b DEF Queue, Stop, Goto
    <2>4. FinalFilled'
      BY <1>b, <1>c, <2>2 DEF FinalFilled
    <2>5. Filled(r)' \/ Attended(r)'
      BY <1>b, <1>c, <2>1, <2>2 DEF FinalFilled, Attended
    <2>6. ASSUME NEW q \in Repos \ {r}, Attended(q) PROVE Attended(q)'
      <3>1. CASE jobs[q].state \in Live
        BY <2>2, <3>1 DEF Attended
      <3>2. CASE \E v \in Callers : Busy(v, q)
        BY <1>a, <2>3, <3>2 DEF Attended, Busy
      <3>3. CASE \E v \in Requests : run[v].pc = "queue" /\ run[v].repo = q
        BY <1>a, <2>0, <2>3, <3>3 DEF Attended
      <3> QED BY <2>6, <3>1, <3>2, <3>3 DEF Attended
    <2>7. NoneWaits'
      BY <1>b, <1>c, <2>1, <2>5, <2>6 DEF NoneWaits
    <2> QED BY <2>4, <2>7
  <1>9. ASSUME NEW w \in Slots, Take(w) PROVE FinalFilled' /\ NoneWaits'
    <2>1. PICK r \in Repos :
            /\ jobs' = [jobs EXCEPT ![r] = [jobs[r] EXCEPT !.state = "active", !.owner = w]]
            /\ run' = [run EXCEPT ![w] = [IdleRun EXCEPT !.pc = "fetch", !.repo = r]]
      BY <1>9 DEF Take
    <2>2. jobs'[r].state = "active" /\ \A q \in Repos \ {r} : jobs'[q] = jobs[q]
      BY <1>b, <2>1 DEF TypeOK, Job
    <2>3. run[w].pc = "idle" /\ run'[w].pc = "fetch" /\ \A v \in Runners \ {w} : run'[v] = run[v]
      BY <1>9, <1>a, <1>b, <2>1 DEF Take, IdleRun
    <2> QED BY <1>3, <1>9, <1>a, <2>2, <2>3 DEF Take, Live, Finality
  <1>10. ASSUME NEW w \in Syncing, Fetch(w) \/ Check(w) \/ Evict(w) \/ Store(w)
         PROVE  FinalFilled' /\ NoneWaits'
    <2>1. run[w] \in Run /\ w \in Runners
      BY <1>a, <1>b
    <2>2. run'[w].pc # "idle" /\ run'[w].repo = run[w].repo
      <3>1. CASE Fetch(w)
        <4>1. CASE run' = [run EXCEPT ![w] = [@ EXCEPT !.pc = "check", !.seen = remote[run[w].repo]]]
          BY <1>b, <2>1, <4>1 DEF Goto, Run
        <4>2. CASE run' = [run EXCEPT ![w] = [@ EXCEPT !.pc = "check", !.seen = Blank]]
          BY <1>b, <2>1, <4>2 DEF Goto, Run
        <4>3. CASE remote[run[w].repo] = Hidden /\ Goto(w, "settleErr")
          BY <1>b, <2>1, <4>3 DEF Goto, Run
        <4> QED BY <3>1, <4>1, <4>2, <4>3 DEF Fetch
      <3>2. CASE Check(w)
        <4>1. CASE run' = [run EXCEPT ![w] = [@ EXCEPT !.pc = "evict", !.seen = row[run[w].repo].content]]
          BY <1>b, <2>1, <4>1 DEF Goto, Run
        <4>2. CASE run' = [run EXCEPT ![w] = [@ EXCEPT !.pc = "upsert", !.overtaken = FALSE]]
          BY <1>b, <2>1, <4>2 DEF Goto, Run
        <4> QED BY <3>2, <4>1, <4>2 DEF Check
      <3>3. CASE Evict(w) \/ Store(w)
        BY <1>b, <2>1, <3>3 DEF Evict, Store, Goto, Run
      <3> QED BY <1>10, <3>1, <3>2, <3>3
    <2>3. \A v \in Runners \ {w} : run'[v] = run[v]
      BY <1>10, <1>b DEF Fetch, Check, Evict, Store, Goto
    <2>4. jobs' = jobs /\ row' = row /\ run[w].pc # "queue"
      BY <1>10 DEF Fetch, Check, Evict, Store
    <2> QED BY <1>3, <2>1, <2>2, <2>3, <2>4
  <1>11. ASSUME NEW w \in Syncing, Upsert(w) PROVE FinalFilled' /\ NoneWaits'
    <2>0. PICK r \in Repos : r = run[w].repo
      BY <1>a, <1>d
    <2>1. /\ r \in Repos /\ w \in Runners
          /\ row' = [row EXCEPT ![r] = [exists |-> TRUE, content |-> run[w].seen, recent |-> TRUE]]
          /\ run' = [Overtaken(r) EXCEPT ![w].pc = "evict"]
          /\ jobs' = jobs /\ remote' = remote /\ run[w].pc = "upsert"
      BY <1>11, <1>a, <2>0 DEF Upsert
    <2>2. \A v \in Runners : run'[v].repo = run[v].repo
            /\ (v # w => run'[v].pc = run[v].pc) /\ (v = w => run'[v].pc = "evict")
      BY <1>b, <2>1, UpsertRuns
    <2>3. Attended(r)'
      <3>1. CASE w \in Callers
        BY <2>0, <2>1, <2>2, <3>1 DEF Attended, Busy
      <3>2. CASE w \in Slots
        BY <1>b, <2>0, <2>1, <3>2 DEF SlotsHold, Busy, Holds, Attended, Live
      <3> QED BY <3>1, <3>2 DEF Syncing
    <2>4. \A q \in Repos : row'[q].exists => row[q].exists \/ Attended(q)'
      BY <1>b, <2>1, <2>3 DEF TypeOK
    <2>5. /\ \A v \in Callers, q \in Repos : Busy(v, q) => Busy(v, q)'
          /\ \A v \in Requests : run[v].pc = "queue" =>
               run'[v].pc = "queue" /\ run'[v].repo = run[v].repo
      BY <1>a, <2>1, <2>2 DEF Busy
    <2> QED BY <1>b, <1>c, <2>1, <2>4, <2>5, KeptServed
  <1>12. ASSUME NEW w \in Syncing, Settle(w) PROVE FinalFilled' /\ NoneWaits'
    <2>0. PICK r \in Repos : r = run[w].repo
      BY <1>a, <1>d
    <2>1. /\ r \in Repos /\ w \in Runners
          /\ run'[w].pc = "idle" /\ \A v \in Runners \ {w} : run'[v] = run[v]
      BY <1>12, <1>a, <1>b DEF Settle, Stop, IdleRun
    <2>2. Filled(r)'
      <3>1. Filled(r)
        BY <1>12, <1>b, <2>0, <2>1 DEF Settle, RunsTell, Tells, Filled
      <3> QED BY <1>c, <2>1, <3>1
    <2>3. \A q \in Repos \ {r} : jobs'[q] = jobs[q]
      BY <1>12, <1>b, <2>0 DEF Settle, TypeOK
    <2>4. row' = row
      BY <1>12 DEF Settle
    <2>5. FinalFilled'
      BY <1>b, <1>c, <2>2, <2>3 DEF FinalFilled
    <2>6. ASSUME NEW q \in Repos \ {r}, Attended(q) PROVE Attended(q)'
      <3>1. CASE jobs[q].state \in Live
        BY <2>3, <3>1 DEF Attended
      <3>2. CASE \E v \in Callers : Busy(v, q)
        <4>1. PICK v \in Callers : Busy(v, q)
          BY <3>2
        <4>2. v # w
          BY <2>0, <2>6, <4>1 DEF Busy
        <4> QED BY <1>a, <2>1, <4>1, <4>2 DEF Attended, Busy
      <3>3. CASE \E v \in Requests : run[v].pc = "queue" /\ run[v].repo = q
        BY <1>a, <2>1, <3>3 DEF Attended
      <3> QED BY <2>6, <3>1, <3>2, <3>3 DEF Attended
    <2>7. NoneWaits'
      BY <1>b, <1>c, <2>2, <2>4, <2>6 DEF NoneWaits
    <2> QED BY <2>5, <2>7
  <1>13. ASSUME NEW w \in Readers, NEW r \in Repos,
                ReadList(w) \/ FillList(w) \/ ReadRow(w, r) \/ FillRow(w)
         PROVE  FinalFilled' /\ NoneWaits'
    <2>1. /\ \A v \in Runners \ {w} : run'[v] = run[v]
          /\ jobs' = jobs /\ row' = row /\ run[w].pc # "queue"
      BY <1>13, <1>b DEF ReadList, FillList, ReadRow, FillRow, Stop
    <2> QED BY <1>3, <1>a, <2>1
  <1>14. ASSUME NEW r \in Repos, Recover(r) PROVE FALSE
    BY <1>14, <1>b DEF Recover, Orphaned, SlotsHold, Busy
  <1>15. ASSUME NEW r \in Repos, Forget(r) PROVE FinalFilled' /\ NoneWaits'
    <2>1. /\ jobs'[r].state = "none" /\ jobs[r].state \in Finality
          /\ \A q \in Repos \ {r} : jobs'[q] = jobs[q]
      BY <1>15, <1>b DEF Forget, NoJob, TypeOK, Finality
    <2>2. \A q \in Repos : jobs[q].state \in Live => jobs'[q].state \in Live
      BY <2>1 DEF Live, Finality
    <2>3. \A q \in Repos : jobs'[q].state \in Finality => jobs[q].state \in Finality
      BY <2>1
    <2> QED BY <1>2, <1>15, <2>2, <2>3 DEF Forget
  <1>16. ASSUME NEW r \in Repos, ExpireList \/ ExpireRow(r) \/ Age(r) \/ Push(r)
         PROVE  FinalFilled' /\ NoneWaits'
    <2>1. \A q \in Repos : row'[q].exists => row[q].exists
      BY <1>16, <1>b DEF ExpireList, ExpireRow, Age, Push, TypeOK, Row
    <2>2. run' = run /\ jobs' = jobs
      BY <1>16 DEF ExpireList, ExpireRow, Age, Push
    <2> QED BY <1>2, <2>1, <2>2
  <1>17. \E r \in Repos : TRUE
    BY BoundsAssumption
  <1> QED
    BY <1>4, <1>5, <1>6, <1>7, <1>8, <1>9, <1>10, <1>11, <1>12, <1>13, <1>14, <1>15, <1>16, <1>17
       DEF Next, Crash, LoseLock

\* Where nothing fails, a public project stays blank with nobody about to fill it in only when
\* a sync skipped its fresh placeholder: no add ignored under a taken id and no job that runs
\* while the loop still places (projects.service.ts: syncAllReposForUser) is a second reason.
THEOREM AlwaysNobodyIsLeftOut == Spec => []NobodyIsLeftOut
  <1>1. Init => Served
    <2> SUFFICES ASSUME Init PROVE Served
      OBVIOUS
    <2>1. /\ Syncing \subseteq Runners /\ Requests \subseteq Runners
          /\ \A w \in Runners : run[w].pc = "idle"
      BY DEF Init, IdleRun, Runners, Syncing
    <2>2. left.faults <= Bounds.faults
      BY BoundsAssumption DEF Init, Budget
    <2> QED
      BY <2>1, <2>2 DEF Init, Served, Placed, RunsTell, Tells, FinalFilled, NoneWaits,
         NoJob, Finality
  <1>2. Serial /\ Served /\ [Next]_vars => Served'
    <2>1. ASSUME Serial, Served, Next PROVE Served'
      BY <2>1, StepCalm, StepPlaced, StepTells, StepServes DEF Serial, Served
    <2>2. ASSUME Served, UNCHANGED vars PROVE Served'
      BY <2>2 DEF vars, Served, Placed, Unharmed, RunsTell, Tells, FinalFilled, NoneWaits, Filled,
         Attended, Busy
    <2> QED BY <2>1, <2>2
  <1>3. Served => NobodyIsLeftOut
    BY DEF Served, Placed, Unharmed, NoneWaits, NobodyIsLeftOut
  <1> QED
    BY <1>1, <1>2, <1>3, SerialInvariant, PTL DEF Spec
=============================================================================
