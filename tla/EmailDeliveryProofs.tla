------------------------ MODULE EmailDeliveryProofs ------------------------
(* Theorems about EmailDelivery, for every value of its constants.         *)
EXTENDS EmailDelivery, TLAPS

-----------------------------------------------------------------------------
(* The starts of a job                                                     *)

\* A job is started once for each of its attempts, and once more each time that it stalled.
CountedJob(x) ==
  /\ x.state \in {"none", "waiting"} => x.failures < Attempts /\ x.starts <= x.failures + x.stalled
  /\ x.state = "active" => /\ x.failures < Attempts /\ x.starts > 0
                           /\ x.starts <= x.failures + x.stalled + 1

\* A step of a notification goes with its kind.
KindFits(x) == /\ x.pc = "suppress" => x.kind # "delivery"
               /\ x.pc = "count" => x.kind = "transient"
               /\ x.pc \in {"lookup", "lift"} => x.kind = "delivery"
               /\ x.mentions => x.pc # "none" /\ x.kind \in {"permanent", "transient"}

Sound == /\ TypeOK
         /\ \A j \in Jobs : CountedJob(job[j])
         /\ \A m \in Notes : KindFits(note[m])

\* What the queue may do to a job.
Queued(x)   == [x EXCEPT !.state = "waiting"]
Done(x)     == [x EXCEPT !.state = "completed", !.by = "none"]
Taken(x, w) == [x EXCEPT !.state = "active", !.by = w, !.starts = x.starts + 1]
Stalled(x)  == [x EXCEPT !.state = "waiting", !.by = "none", !.stalled = x.stalled + 1]
Lost(x)     == [x EXCEPT !.state = "failed", !.by = "none"]

\* A job that is queued, and one that is done.
LEMMA QueuedType ==
  ASSUME NEW x \in Job
  PROVE  /\ Queued(x) \in Job /\ Queued(x).state = "waiting" /\ Queued(x).starts = x.starts
         /\ Queued(x).failures = x.failures /\ Queued(x).stalled = x.stalled
         /\ Done(x) \in Job /\ Done(x).state = "completed" /\ Done(x).starts = x.starts
  BY DEF Job, Queued, Done

\* A job's failure is counted.
LEMMA FailureType ==
  ASSUME NEW x \in Job, CountedJob(x), x.state = "active"
  PROVE  /\ AfterFailure(x) \in Job /\ CountedJob(AfterFailure(x))
         /\ AfterFailure(x).state \in {"waiting", "failed"}
         /\ AfterFailure(x).starts = x.starts
  <1>1. PICK s : s = IF x.failures + 1 < Attempts THEN "waiting" ELSE "failed"
    OBVIOUS
  <1>2. PICK n : n = x.failures + 1
    OBVIOUS
  <1>3. s \in {"waiting", "failed"} /\ n \in 0..Attempts /\ x.failures \in Nat
    BY <1>1, <1>2, EmailAssumption DEF Job, CountedJob
  <1>4. AfterFailure(x) = [x EXCEPT !.state = s, !.by = "none", !.failures = n]
    BY <1>1, <1>2 DEF AfterFailure
  <1>5. AfterFailure(x) \in Job
    BY <1>3, <1>4 DEF Job
  <1>6. /\ AfterFailure(x).state = s /\ AfterFailure(x).failures = n
        /\ AfterFailure(x).starts = x.starts /\ AfterFailure(x).stalled = x.stalled
    BY <1>3, <1>4 DEF Job
  <1>7. x.starts \in Nat /\ x.stalled \in Nat /\ Attempts \in Nat
    BY EmailAssumption DEF Job
  <1>8. x.starts <= n + AfterFailure(x).stalled /\ (s = "waiting" => n < Attempts)
    BY <1>1, <1>2, <1>3, <1>6, <1>7 DEF CountedJob
  <1> QED
    BY <1>3, <1>5, <1>6, <1>8 DEF CountedJob

\* A job that stalls is started again, or lost.
LEMMA StallType ==
  ASSUME NEW x \in Job, CountedJob(x), x.state = "active"
  PROVE  /\ x.stalled < MaxStalled => /\ Stalled(x) \in Job /\ CountedJob(Stalled(x))
                                      /\ Stalled(x).state = "waiting" /\ Stalled(x).starts = x.starts
         /\ Lost(x) \in Job /\ CountedJob(Lost(x))
         /\ Lost(x).state = "failed" /\ Lost(x).starts = x.starts
  <1>1. x.starts \in Nat /\ x.failures \in Nat /\ x.stalled \in 0..MaxStalled /\ MaxStalled \in Nat
    BY EmailAssumption DEF Job
  <1>2. Lost(x) \in Job /\ Lost(x).state = "failed" /\ Lost(x).starts = x.starts
    BY DEF Lost, Job
  <1>3. ASSUME x.stalled < MaxStalled
        PROVE  /\ Stalled(x) \in Job /\ CountedJob(Stalled(x))
               /\ Stalled(x).state = "waiting" /\ Stalled(x).starts = x.starts
    <2>1. PICK n : n = x.stalled + 1
      OBVIOUS
    <2>2. n \in 0..MaxStalled
      BY <1>1, <1>3, <2>1
    <2>3. PICK y : y = [x EXCEPT !.state = "waiting", !.by = "none", !.stalled = n]
      OBVIOUS
    <2>4. y = Stalled(x)
      BY <2>1, <2>3 DEF Stalled
    <2>5. /\ y \in Job /\ y.state = "waiting" /\ y.starts = x.starts /\ y.failures = x.failures
          /\ y.stalled = n
      BY <2>2, <2>3 DEF Job
    <2>6. CountedJob(y)
      BY <1>1, <2>1, <2>5 DEF CountedJob
    <2> QED
      BY <2>4, <2>5, <2>6
  <1> QED
    BY <1>2, <1>3 DEF CountedJob

\* A job that waits has a start left.
LEMMA TakeType ==
  ASSUME NEW x \in Job, CountedJob(x), x.state = "waiting", NEW w \in Workers
  PROVE  /\ Taken(x, w) \in Job /\ CountedJob(Taken(x, w))
         /\ Taken(x, w).state = "active" /\ Taken(x, w).starts = x.starts + 1
         /\ x.starts + 1 \in Starts
  <1>1. x.starts \in Nat /\ x.failures \in Nat /\ x.stalled \in 0..MaxStalled
        /\ Attempts \in Nat /\ MaxStalled \in Nat
    BY EmailAssumption DEF Job
  <1>2. x.starts + 1 \in Starts /\ x.starts + 1 \in 0..(Attempts + MaxStalled)
    BY <1>1 DEF CountedJob, Starts
  <1>3. PICK n : n = x.starts + 1
    OBVIOUS
  <1>4. PICK y : y = [x EXCEPT !.state = "active", !.by = w, !.starts = n]
    OBVIOUS
  <1>5. y = Taken(x, w) /\ n \in 0..(Attempts + MaxStalled)
    BY <1>2, <1>3, <1>4 DEF Taken
  <1>6. y \in Job /\ y.state = "active" /\ y.starts = n /\ y.failures = x.failures /\ y.stalled = x.stalled
    BY <1>4, <1>5 DEF Job
  <1>7. CountedJob(y)
    BY <1>1, <1>3, <1>6 DEF CountedJob
  <1> QED
    BY <1>2, <1>3, <1>5, <1>6, <1>7

-----------------------------------------------------------------------------
(* Types                                                                   *)

\* What an attempt leaves of the jobs: one of three outcomes.
LEMMA Outcomes ==
  ASSUME Sound, NEW j \in Jobs, NEW n \in Starts,
         job' = job \/ Complete(j, n) \/ Throw(j, n)
  PROVE  /\ job' \in [Jobs -> Job] /\ \A i \in Jobs : CountedJob(job'[i])
         /\ \A i \in Jobs \ {j} : job'[i] = job[i]
         /\ \/ job' = job
            \/ /\ Current(j, n)
               /\ job'[j].state \in {"completed", "waiting", "failed"}
               /\ job'[j].starts = job[j].starts
               /\ job'[j].state = "completed" \/ Throw(j, n)
  <1>1. job \in [Jobs -> Job] /\ \A i \in Jobs : CountedJob(job[i])
    BY DEF Sound, TypeOK
  <1>2. CASE job' = job
    BY <1>1, <1>2
  <1>3. ASSUME NEW y \in Job, CountedJob(y), job' = [job EXCEPT ![j] = y]
        PROVE  /\ job' \in [Jobs -> Job] /\ \A i \in Jobs : CountedJob(job'[i])
               /\ \A i \in Jobs \ {j} : job'[i] = job[i]
               /\ job'[j] = y
    BY <1>1, <1>3
  <1>4. CASE Complete(j, n) /\ Current(j, n)
    <2>1. PICK y : y = Done(job[j])
      OBVIOUS
    <2>2. y \in Job /\ y.state = "completed" /\ y.starts = job[j].starts
      BY <1>1, <2>1, QueuedType
    <2>3. CountedJob(y)
      BY <2>2 DEF CountedJob
    <2>4. job' = [job EXCEPT ![j] = y]
      BY <1>4, <2>1 DEF Complete, Done
    <2> QED
      BY <1>3, <1>4, <2>2, <2>3, <2>4
  <1>5. CASE Throw(j, n) /\ Current(j, n)
    <2>1. PICK y : y = AfterFailure(job[j])
      OBVIOUS
    <2>2. /\ y \in Job /\ CountedJob(y) /\ y.state \in {"waiting", "failed"}
          /\ y.starts = job[j].starts
      BY <1>1, <1>5, <2>1, FailureType DEF Current
    <2>3. job' = [job EXCEPT ![j] = y]
      BY <1>5, <2>1 DEF Throw
    <2> QED
      BY <1>3, <1>5, <2>2, <2>3
  <1> QED
    BY <1>2, <1>4, <1>5 DEF Complete, Throw

\* A start's move keeps the attempts well-formed.
LEMMA GoType ==
  ASSUME Sound, NEW j \in Jobs, NEW n \in Starts, NEW pc \in Steps, Go(j, n, pc)
  PROVE  /\ attempt' \in [Jobs -> [Starts -> Steps]]
         /\ attempt'[j][n] = pc
         /\ \A i \in Jobs, k \in Starts : i # j \/ k # n => attempt'[i][k] = attempt[i][k]
  BY DEF Go, Sound, TypeOK

\* A start of a job, as the theorems see it: its job keeps its state or has an outcome.
LEMMA Runs ==
  ASSUME Sound, NEW j \in Jobs, NEW n \in Starts,
         Send(j, n) \/ Refuse(j, n) \/ ProgressFails(j, n) \/ Timeout(j, n)
  PROVE  /\ job' = job \/ Complete(j, n) \/ Throw(j, n)
         /\ attempt' = attempt \/ \E pc \in Steps : Go(j, n, pc)
         /\ UNCHANGED bounce
         /\ sent' \in [Jobs -> SUBSET Starts] /\ cut' \in [Jobs -> SUBSET Starts]
         /\ faults' \in 0..MaxFaults
  <1>1. Look(j, n) => job' = job \/ Complete(j, n)
    BY DEF Look
  <1>2. Check(j, n) => job' = job \/ Complete(j, n)
    BY DEF Check
  <1>3. job' = job \/ Complete(j, n) \/ Throw(j, n)
    BY <1>1, <1>2 DEF Send, Smtp, Finish, Refuse, ProgressFails, Timeout
  <1>4. attempt' = attempt \/ \E pc \in Steps : Go(j, n, pc)
    BY DEF Send, Look, Check, Smtp, Finish, Refuse, ProgressFails, Timeout, Steps
  <1>5. UNCHANGED bounce
    BY DEF Send, Look, Check, Smtp, Finish, Refuse, ProgressFails, Timeout
  <1>6. sent' \in [Jobs -> SUBSET Starts] /\ cut' \in [Jobs -> SUBSET Starts]
    <2>1. CASE Smtp(j, n)
      BY <2>1 DEF Smtp, Sound, TypeOK
    <2>2. CASE ProgressFails(j, n) \/ Timeout(j, n)
      BY <2>2 DEF ProgressFails, Timeout, Sound, TypeOK
    <2>3. CASE Look(j, n) \/ Check(j, n) \/ Finish(j, n) \/ Refuse(j, n)
      <3>1. UNCHANGED <<sent, cut>>
        BY <2>3 DEF Look, Check, Finish, Refuse
      <3> QED
        BY <3>1 DEF Sound, TypeOK
    <2> QED
      BY <2>1, <2>2, <2>3 DEF Send
  <1>7. faults' \in 0..MaxFaults
    BY EmailAssumption
       DEF Send, Look, Check, Smtp, Finish, Refuse, ProgressFails, Timeout, Fault, Sound, TypeOK
  <1> QED
    BY <1>3, <1>4, <1>5, <1>6, <1>7

\* A stall is an outcome too.
LEMMA Stalls ==
  ASSUME Sound, NEW j \in Jobs, NEW n \in Starts, Stall(j, n)
  PROVE  /\ job' \in [Jobs -> Job] /\ \A i \in Jobs : CountedJob(job'[i])
         /\ \A i \in Jobs \ {j} : job'[i] = job[i]
         /\ Current(j, n)
         /\ job'[j].state \in {"waiting", "failed"} /\ job'[j].starts = job[j].starts
  <1>1. job \in [Jobs -> Job] /\ \A i \in Jobs : CountedJob(job[i])
    BY DEF Sound, TypeOK
  <1>2. PICK y : /\ (y = Stalled(job[j]) /\ job[j].stalled < MaxStalled) \/ y = Lost(job[j])
                 /\ job' = [job EXCEPT ![j] = y]
    BY DEF Stall, Stalled, Lost
  <1>3. y \in Job /\ CountedJob(y) /\ y.state \in {"waiting", "failed"} /\ y.starts = job[j].starts
    BY <1>1, <1>2, StallType DEF Stall, Current
  <1> QED
    BY <1>1, <1>2, <1>3 DEF Stall

\* A job that a worker takes.
LEMMA Takes ==
  ASSUME Sound, NEW j \in Jobs, NEW w \in Workers, Take(j, w)
  PROVE  /\ job' \in [Jobs -> Job] /\ \A i \in Jobs : CountedJob(job'[i])
         /\ \A i \in Jobs \ {j} : job'[i] = job[i]
         /\ job[j].state = "waiting" /\ job[j].starts + 1 \in Starts
         /\ job'[j].state = "active" /\ job'[j].starts = job[j].starts + 1
         /\ Go(j, job[j].starts + 1, "look") \/ Go(j, job[j].starts + 1, "check")
  <1>1. job \in [Jobs -> Job] /\ \A i \in Jobs : CountedJob(job[i])
    BY DEF Sound, TypeOK
  <1>2. PICK y : y = Taken(job[j], w)
    OBVIOUS
  <1>3. /\ y \in Job /\ CountedJob(y) /\ y.state = "active" /\ y.starts = job[j].starts + 1
        /\ job[j].starts + 1 \in Starts
    BY <1>1, <1>2, TakeType DEF Take
  <1>4. job' = [job EXCEPT ![j] = y]
    BY <1>2 DEF Take, Taken
  <1> QED
    BY <1>1, <1>3, <1>4 DEF Take

\* A job that is put into the queue.
LEMMA Enqueues ==
  ASSUME Sound, NEW j \in Jobs, Enqueue(j)
  PROVE  /\ job' \in [Jobs -> Job] /\ \A i \in Jobs : CountedJob(job'[i])
         /\ \A i \in Jobs \ {j} : job'[i] = job[i]
         /\ job[j].state = "none" /\ job'[j].state = "waiting" /\ job'[j].starts = job[j].starts
  <1>1. job \in [Jobs -> Job] /\ \A i \in Jobs : CountedJob(job[i])
    BY DEF Sound, TypeOK
  <1>2. PICK y : y = Queued(job[j])
    OBVIOUS
  <1>3. /\ y \in Job /\ y.state = "waiting" /\ y.starts = job[j].starts
        /\ y.failures = job[j].failures /\ y.stalled = job[j].stalled
    BY <1>1, <1>2, QueuedType
  <1>4. CountedJob(y)
    BY <1>1, <1>3 DEF Enqueue, CountedJob
  <1>5. job' = [job EXCEPT ![j] = y]
    BY <1>2 DEF Enqueue, Queued
  <1> QED
    BY <1>1, <1>3, <1>4, <1>5 DEF Enqueue

\* A step of a job is sound.
LEMMA WorkSound == ASSUME Sound, NEW j \in Jobs, Work(j) PROVE Sound'
  <1>1. ASSUME job' \in [Jobs -> Job] /\ \A i \in Jobs : CountedJob(job'[i]),
               attempt' \in [Jobs -> [Starts -> Steps]], UNCHANGED bounce,
               sent' \in [Jobs -> SUBSET Starts] /\ cut' \in [Jobs -> SUBSET Starts],
               faults' \in 0..MaxFaults
        PROVE  Sound'
    BY <1>1 DEF Sound, TypeOK, bounce, CountedJob, KindFits
  <1>2. CASE Enqueue(j)
    BY <1>1, <1>2, Enqueues DEF Enqueue, Sound, TypeOK
  <1>3. ASSUME NEW w \in Workers, Take(j, w) PROVE Sound'
    <2>1. attempt' \in [Jobs -> [Starts -> Steps]]
      BY <1>3, Takes, GoType DEF Steps
    <2> QED
      BY <1>1, <1>3, <2>1, Takes DEF Take, Sound, TypeOK
  <1>4. ASSUME NEW n \in Starts, Send(j, n) \/ Refuse(j, n) \/ ProgressFails(j, n) \/ Timeout(j, n)
        PROVE  Sound'
    <2>1. attempt' \in [Jobs -> [Starts -> Steps]]
      BY <1>4, Runs, GoType DEF Sound, TypeOK
    <2> QED
      BY <1>1, <1>4, <2>1, Runs, Outcomes
  <1>5. ASSUME NEW n \in Starts, Stall(j, n) PROVE Sound'
    <2>1. attempt' \in [Jobs -> [Starts -> Steps]]
      BY <1>5, GoType DEF Stall, Steps, Sound, TypeOK
    <2>2. sent' \in [Jobs -> SUBSET Starts] /\ cut' \in [Jobs -> SUBSET Starts]
          /\ UNCHANGED bounce /\ faults' \in 0..MaxFaults
      BY <1>5 DEF Stall, Sound, TypeOK
    <2> QED
      BY <1>1, <1>5, <2>1, <2>2, Stalls
  <1> QED
    BY <1>2, <1>3, <1>4, <1>5 DEF Work

\* Where a notification goes.
Sent(x, pc)    == [x EXCEPT !.pc = pc]
NotePCs        == {"none", "told", "suppress", "count", "lookup", "lift", "answered", "lost"}

\* Such a step keeps the notification well-formed.
LEMMA NoteType ==
  ASSUME NEW x \in Note, NEW pc \in NotePCs
  PROVE  Sent(x, pc) \in Note /\ Sent(x, pc).pc = pc /\ Sent(x, pc).kind = x.kind
         /\ Sent(x, pc).mentions = x.mentions
  BY DEF Note, NotePCs, Sent

\* What the steps do to the notification they handle.
LEMMA NoteGoes ==
  ASSUME Sound, NEW m \in Notes, Handle(m) \/ HandlingFails(m) \/ Repeat(m)
  PROVE  \E pc \in NotePCs :
           /\ note' = [note EXCEPT ![m] = Sent(note[m], pc)]
           /\ pc = "suppress" => \/ note[m].kind \in {"permanent", "complaint"}
                                 \/ note[m].kind = "transient" /\ transients >= MaxTransient
           /\ pc = "count" => note[m].kind = "transient"
           /\ pc = "lookup" => note[m].kind = "delivery"
           /\ pc = "lift" => /\ note[m].kind = "delivery"
                             /\ suppression.isActive /\ suppression.mentions
           /\ pc = "answered" => \/ note[m].kind \in {"transient", "delivery"}
                                 \/ Suppress(m)
           /\ pc # "none"
  <1> DEFINE To(pc) == note' = [note EXCEPT ![m] = Sent(note[m], pc)]
  <1>1. note[m] \in Note /\ KindFits(note[m])
    BY DEF Sound, TypeOK
  <1>2. note[m].kind \in {"permanent", "transient", "complaint", "delivery"}
    BY <1>1 DEF Note, Reasons
  <1>3. CASE Record(m)
    <2>1. /\ note[m].kind = "transient" => To("count")
          /\ note[m].kind = "delivery" => To("lookup")
          /\ note[m].kind \in {"permanent", "complaint"} => To("suppress")
      BY <1>3 DEF Record, Sent
    <2> QED
      BY <1>2, <2>1 DEF NotePCs
  <1>4. CASE Suppress(m)
    BY <1>4 DEF Suppress, Sent, NotePCs
  <1>5. CASE Count(m)
    <2>1. note[m].kind = "transient"
      BY <1>1, <1>5 DEF Count, KindFits
    <2>2. (To("suppress") /\ transients >= MaxTransient) \/ To("answered")
      BY <1>5 DEF Count, Sent
    <2> QED
      BY <2>1, <2>2 DEF NotePCs
  <1>6. CASE Lookup(m)
    <2>1. note[m].kind = "delivery"
      BY <1>1, <1>6 DEF Lookup, KindFits
    <2>2. \/ To("lift") /\ suppression.isActive /\ suppression.mentions
          \/ To("answered")
      BY <1>6 DEF Lookup, Sent
    <2> QED
      BY <2>1, <2>2 DEF NotePCs
  <1>7. CASE Lift(m)
    <2>1. note[m].kind = "delivery" /\ To("answered")
      BY <1>1, <1>7 DEF Lift, KindFits, Sent
    <2> QED
      BY <2>1 DEF NotePCs
  <1>8. CASE HandlingFails(m) \/ Repeat(m)
    <2>1. To("lost") \/ To("told")
      BY <1>8 DEF HandlingFails, Repeat, Sent
    <2> QED
      BY <2>1 DEF NotePCs
  <1> QED
    BY <1>3, <1>4, <1>5, <1>6, <1>7, <1>8 DEF Handle

\* A notification about the suppression keeps the types of the tables.
LEMMA TableTypes ==
  ASSUME Sound, NEW m \in Notes, Notify(m)
  PROVE  /\ suppression' \in [isActive : BOOLEAN, reason : Reasons, mentions : BOOLEAN] /\ transients' \in Nat
         /\ faults' \in 0..MaxFaults /\ UNCHANGED queue
  <1>1. note[m] \in Note /\ KindFits(note[m])
    BY DEF Sound, TypeOK
  <1>2. UNCHANGED queue
    BY DEF Notify, Tell, Handle, Record, Suppress, Count, Lookup, Lift, HandlingFails, Repeat
  <1>3. transients' \in Nat
    BY DEF Notify, Tell, Handle, Record, Suppress, Count, Lookup, Lift, HandlingFails, Repeat,
           Sound, TypeOK
  <1>4. faults' \in 0..MaxFaults
    BY EmailAssumption
       DEF Notify, Tell, Handle, Record, Suppress, Count, Lookup, Lift, HandlingFails, Repeat, Fault,
           Sound, TypeOK
  <1>5. CASE Suppress(m)
    <2>1. note[m].kind \in Reasons /\ note[m].mentions \in BOOLEAN
      BY <1>1, <1>5 DEF Suppress, KindFits, Reasons, Note
    <2>2. suppression' = [isActive |-> TRUE, reason |-> note[m].kind, mentions |-> note[m].mentions]
      BY <1>5 DEF Suppress
    <2>3. suppression' \in [isActive : BOOLEAN, reason : Reasons, mentions : BOOLEAN]
      BY <2>1, <2>2
    <2> QED
      BY <1>2, <1>3, <1>4, <2>3
  <1>6. CASE Lift(m)
    <2>1. suppression' \in [isActive : BOOLEAN, reason : Reasons, mentions : BOOLEAN]
      BY <1>6 DEF Lift, Sound, TypeOK
    <2> QED
      BY <1>2, <1>3, <1>4, <2>1
  <1>7. CASE ~Suppress(m) /\ ~Lift(m)
    <2>1. suppression' = suppression
      BY <1>7 DEF Notify, Tell, Handle, Record, Count, Lookup, HandlingFails, Repeat
    <2> QED
      BY <1>2, <1>3, <1>4, <2>1 DEF Sound, TypeOK
  <1> QED
    BY <1>5, <1>6, <1>7

\* A step of a notification is sound.
LEMMA NotifySound == ASSUME Sound, NEW m \in Notes, Notify(m) PROVE Sound'
  <1>1. note \in [Notes -> Note] /\ \A i \in Notes : KindFits(note[i])
    BY DEF Sound, TypeOK
  <1>2. ASSUME NEW x \in Note, KindFits(x), note' = [note EXCEPT ![m] = x] PROVE Sound'
    <2>1. note' \in [Notes -> Note] /\ \A i \in Notes : KindFits(note'[i])
      BY <1>1, <1>2
    <2> QED
      BY <2>1, TableTypes DEF Sound, TypeOK, queue, CountedJob, KindFits
  <1>3. ASSUME NEW k \in Kinds, Tell(m, k) PROVE Sound'
    <2>a. PICK b \in Mentions(k) : note' = [note EXCEPT ![m] = [kind |-> k, mentions |-> b, pc |-> "told"]]
      BY <1>3 DEF Tell
    <2>b. b \in BOOLEAN /\ (b => k \in {"permanent", "transient"})
      BY <2>a, EmailAssumption DEF Mentions
    <2>1. PICK x : x = [kind |-> k, mentions |-> b, pc |-> "told"]
      OBVIOUS
    <2>2. x \in Note /\ KindFits(x)
      BY <2>b, <2>1, EmailAssumption DEF Note, Reasons, KindFits
    <2> QED
      BY <1>2, <2>a, <2>1, <2>2
  <1>4. CASE Handle(m) \/ HandlingFails(m) \/ Repeat(m)
    <2>1. PICK pc \in NotePCs :
            /\ note' = [note EXCEPT ![m] = Sent(note[m], pc)]
            /\ pc = "suppress" => note[m].kind \in {"permanent", "complaint", "transient"}
            /\ pc = "count" => note[m].kind = "transient"
            /\ pc \in {"lookup", "lift"} => note[m].kind = "delivery"
            /\ pc # "none"
      BY <1>4, NoteGoes
    <2>2. PICK x : x = Sent(note[m], pc)
      OBVIOUS
    <2>3. x \in Note /\ x.pc = pc /\ x.kind = note[m].kind /\ x.mentions = note[m].mentions
      BY <1>1, <2>2, NoteType
    <2>4. KindFits(x)
      BY <1>1, <2>1, <2>3 DEF KindFits
    <2> QED
      BY <1>2, <2>1, <2>2, <2>3, <2>4
  <1> QED
    BY <1>3, <1>4 DEF Notify

\* Every step is sound.
LEMMA StepSound == Sound /\ [Next]_vars => Sound'
  <1>1. ASSUME Sound, UNCHANGED vars PROVE Sound'
    BY <1>1 DEF vars, Sound, TypeOK, CountedJob, KindFits
  <1> QED
    BY <1>1, WorkSound, NotifySound DEF Next

\* The invariant on which the other theorems rest.
LEMMA AlwaysSound == Spec => []Sound
  <1>1. Init => Sound
    <2> SUFFICES ASSUME Init PROVE Sound
      OBVIOUS
    <2>1. NoJob \in Job /\ CountedJob(NoJob)
      BY EmailAssumption DEF NoJob, Job, CountedJob
    <2>2. \A m \in Notes : note[m] \in Note /\ KindFits(note[m])
      BY DEF Init, Note, Reasons, KindFits
    <2>3. attempt \in [Jobs -> [Starts -> Steps]]
      BY DEF Init, Steps
    <2>4. suppression \in [isActive : BOOLEAN, reason : Reasons, mentions : BOOLEAN]
      BY DEF Init, Reasons
    <2>5. note \in [Notes -> Note]
      BY <2>2 DEF Init
    <2> QED
      BY <2>1, <2>2, <2>3, <2>4, <2>5, EmailAssumption DEF Init, Sound, TypeOK
  <1> QED
    BY <1>1, StepSound, PTL DEF Spec

\* Every variable keeps its type: a job is not started more often than its attempts and one
\* stall allow (enqueue.service.ts: attempts; base-worker.service.ts: maxStalledCount).
THEOREM TypeCorrect == Spec => []TypeOK
  <1>1. Sound => TypeOK
    BY DEF Sound
  <1> QED
    BY <1>1, AlwaysSound, PTL

-----------------------------------------------------------------------------
(* One email a job                                                         *)

Running == {"look", "check", "smtp", "after"}

\* A start that runs although it is not the job's was cut; one that sent and was not cut is the
\* job's, and about to complete it or the one that did.
Told(j) ==
  /\ \A n \in Starts : attempt[j][n] \in Running /\ ~Current(j, n) => n \in cut[j]
  /\ \A n \in sent[j] \ cut[j] :
       /\ n = job[j].starts
       /\ \/ job[j].state = "active" /\ attempt[j][n] = "after"
          \/ job[j].state = "completed"

AllTold == \A j \in Jobs : Told(j)

\* A step of another job, or none.
LEMMA ToldStays ==
  ASSUME NEW i \in Jobs, Told(i), job'[i] = job[i], sent'[i] = sent[i], cut'[i] = cut[i],
         \A n \in Starts : attempt'[i][n] = attempt[i][n], Sound
  PROVE  Told(i)'
  <1>1. sent[i] \subseteq Starts
    BY DEF Sound, TypeOK
  <1> QED
    BY <1>1 DEF Told, Current

\* What each step of a start does to what the job's starts have told.
LEMMA StartTold ==
  ASSUME Sound, NEW j \in Jobs, Told(j), NEW n \in Starts,
         Send(j, n) \/ Refuse(j, n) \/ ProgressFails(j, n) \/ Timeout(j, n) \/ Stall(j, n)
  PROVE  Told(j)'
  <1>1. /\ sent \in [Jobs -> SUBSET Starts] /\ cut \in [Jobs -> SUBSET Starts]
        /\ attempt \in [Jobs -> [Starts -> Steps]]
    BY DEF Sound, TypeOK
  <1>2. ASSUME NEW pc \in Steps, Go(j, n, pc)
        PROVE  attempt'[j][n] = pc /\ \A k \in Starts \ {n} : attempt'[j][k] = attempt[j][k]
    BY <1>2, GoType
  \* The outcome of the job, where it has one.
  <1>3. ASSUME job' = job \/ Complete(j, n) \/ Throw(j, n)
        PROVE  \/ job' = job
               \/ /\ Current(j, n) /\ job'[j].state \in {"completed", "waiting", "failed"}
                  /\ job'[j].starts = job[j].starts
    BY <1>3, Outcomes
  <1>4. CASE Look(j, n) \/ Check(j, n) \/ Refuse(j, n)
    <2>1. UNCHANGED <<sent, cut>>
      BY <1>4 DEF Look, Check, Refuse
    <2>2. attempt[j][n] \in {"look", "check", "smtp"}
      BY <1>4 DEF Look, Check, Refuse, At
    <2>3. \/ Go(j, n, "over") /\ (job' = job \/ Complete(j, n) \/ Throw(j, n))
          \/ (Go(j, n, "check") \/ Go(j, n, "smtp")) /\ job' = job
      BY <1>4 DEF Look, Check, Refuse
    <2>4. CASE Go(j, n, "over") /\ (job' = job \/ Complete(j, n) \/ Throw(j, n))
      <3>1. attempt'[j][n] = "over" /\ \A k \in Starts \ {n} : attempt'[j][k] = attempt[j][k]
        BY <1>2, <2>4 DEF Steps
      <3>2. CASE job' = job
        BY <1>1, <2>1, <2>2, <3>1, <3>2 DEF Told, Current, Running
      <3>3. CASE /\ Current(j, n) /\ job'[j].state \in {"completed", "waiting", "failed"}
                 /\ job'[j].starts = job[j].starts
        <4>1. sent[j] \ cut[j] = {}
          BY <2>2, <3>3 DEF Told, Current
        <4>2. \A k \in Starts \ {n} : ~Current(j, k)
          BY <3>3 DEF Current
        <4> QED
          BY <1>1, <2>1, <3>1, <4>1, <4>2 DEF Told, Running
      <3> QED
        BY <1>3, <2>4, <3>2, <3>3
    <2>5. CASE (Go(j, n, "check") \/ Go(j, n, "smtp")) /\ job' = job
      <3>1. /\ attempt'[j][n] \in {"check", "smtp"}
            /\ \A k \in Starts \ {n} : attempt'[j][k] = attempt[j][k]
        BY <1>2, <2>5 DEF Steps
      <3> QED
        BY <1>1, <2>1, <2>2, <2>5, <3>1 DEF Told, Current, Running
    <2> QED
      BY <2>3, <2>4, <2>5
  <1>5. CASE Smtp(j, n)
    <2>1. /\ job' = job /\ cut' = cut /\ attempt[j][n] = "smtp"
          /\ sent'[j] = sent[j] \cup {n}
          /\ attempt'[j][n] = IF Current(j, n) THEN "after" ELSE "over"
          /\ \A k \in Starts \ {n} : attempt'[j][k] = attempt[j][k]
      BY <1>1, <1>2, <1>5 DEF Smtp, At, Steps
    <2> QED
      BY <1>1, <2>1 DEF Told, Current, Running
  <1>6. CASE Finish(j, n)
    <2>1. /\ UNCHANGED <<sent, cut>> /\ attempt[j][n] = "after" /\ attempt'[j][n] = "over"
          /\ \A k \in Starts \ {n} : attempt'[j][k] = attempt[j][k]
      BY <1>1, <1>2, <1>6 DEF Finish, At, Steps
    <2>2. CASE job' = job
      <3>1. ~Current(j, n)
        <4> SUFFICES ASSUME Current(j, n) PROVE FALSE
          OBVIOUS
        <4>1. job' = [job EXCEPT ![j] = Done(job[j])] /\ job \in [Jobs -> Job]
          BY <1>6 DEF Finish, Complete, Done, Sound, TypeOK
        <4>2. job'[j].state = "completed"
          BY <4>1, QueuedType
        <4> QED
          BY <2>2, <4>2 DEF Current
      <3> QED
        BY <1>1, <2>1, <2>2, <3>1 DEF Told, Current, Running
    <2>3. CASE Complete(j, n) /\ Current(j, n)
      <3>1. job' = [job EXCEPT ![j] = Done(job[j])] /\ job \in [Jobs -> Job]
        BY <2>3 DEF Complete, Done, Sound, TypeOK
      <3>2. job'[j].state = "completed" /\ job'[j].starts = job[j].starts
        BY <3>1, QueuedType
      <3> QED
        BY <1>1, <2>1, <2>3, <3>2 DEF Told, Current, Running
    <2> QED
      BY <1>6, <2>2, <2>3 DEF Finish, Complete
  <1>7. CASE ProgressFails(j, n) \/ Timeout(j, n) \/ Stall(j, n)
    <2>1. /\ sent' = sent /\ cut'[j] = cut[j] \cup {n} /\ Current(j, n)
      BY <1>1, <1>7 DEF ProgressFails, Timeout, Stall
    <2>2. \A k \in Starts \ {n} : attempt'[j][k] = attempt[j][k]
      BY <1>2, <1>7 DEF ProgressFails, Timeout, Stall, Steps
    <2>3. \A k \in Starts \ {n} : ~Current(j, k)
      BY <2>1 DEF Current
    <2>4. sent[j] \subseteq cut[j] \cup {n}
      BY <2>1 DEF Told, Current
    <2> QED
      BY <1>1, <2>1, <2>2, <2>3, <2>4 DEF Told, Running
  <1> QED
    BY <1>4, <1>5, <1>6, <1>7 DEF Send

\* A job sends one email, and one more at most for each start that was cut
\* (processor.service.ts: the race with the timeout; base-worker.service.ts: createJobProcessor).
THEOREM AlwaysOneEmailUnlessCut == Spec => []OneEmailUnlessCut
  <1>1. Init => AllTold
    <2> SUFFICES ASSUME Init, NEW j \in Jobs PROVE Told(j)
      BY DEF AllTold
    <2>1. sent[j] = {} /\ \A n \in Starts : attempt[j][n] = "none"
      BY DEF Init
    <2> QED
      BY <2>1 DEF Told, Running
  <1>2. Sound /\ AllTold /\ [Next]_vars => AllTold'
    <2> SUFFICES ASSUME Sound, \A j \in Jobs : Told(j), [Next]_vars, NEW i \in Jobs
                 PROVE  Told(i)'
      BY DEF AllTold
    <2>1. /\ sent \in [Jobs -> SUBSET Starts] /\ cut \in [Jobs -> SUBSET Starts]
          /\ attempt \in [Jobs -> [Starts -> Steps]]
      BY DEF Sound, TypeOK
    <2>2. CASE UNCHANGED queue
      BY <2>2, ToldStays DEF queue
    <2>3. CASE UNCHANGED vars
      BY <2>2, <2>3 DEF vars, queue
    <2>4. ASSUME NEW m \in Notes, Notify(m) PROVE Told(i)'
      BY <2>2, <2>4, TableTypes
    <2>5. ASSUME NEW j \in Jobs, Enqueue(j) PROVE Told(i)'
      <3>1. /\ UNCHANGED <<attempt, sent, cut>>
            /\ \A k \in Jobs \ {j} : job'[k] = job[k]
            /\ job[j].state = "none" /\ job'[j].state = "waiting" /\ job'[j].starts = job[j].starts
        BY <2>5, Enqueues DEF Enqueue
      <3> QED
        BY <2>1, <3>1 DEF Told, Current
    <2>6. ASSUME NEW j \in Jobs, NEW w \in Workers, Take(j, w) PROVE Told(i)'
      <3>1. PICK n \in Starts : n = job[j].starts + 1
        BY <2>6, Takes
      <3>2. /\ UNCHANGED <<sent, cut>>
            /\ \A k \in Jobs \ {j} : job'[k] = job[k]
            /\ job[j].state = "waiting" /\ job'[j].state = "active" /\ job'[j].starts = n
        BY <2>6, <3>1, Takes DEF Take
      <3>3. PICK pc \in Steps : Go(j, n, pc)
        BY <2>6, <3>1, Takes DEF Steps
      <3>4. \A h \in Jobs, k \in Starts : h # j \/ k # n => attempt'[h][k] = attempt[h][k]
        BY <3>3, GoType
      <3>5. CASE i # j
        BY <3>2, <3>4, <3>5, ToldStays
      <3>6. CASE i = j
        BY <2>1, <3>2, <3>4, <3>6 DEF Told, Current
      <3> QED
        BY <3>5, <3>6
    <2>7. ASSUME NEW j \in Jobs, NEW n \in Starts,
                 Send(j, n) \/ Refuse(j, n) \/ ProgressFails(j, n) \/ Timeout(j, n) \/ Stall(j, n)
          PROVE  Told(i)'
      <3>1. CASE i = j
        BY <2>7, <3>1, StartTold
      <3>2. CASE i # j
        <4>1. job'[i] = job[i]
          BY <2>7, <3>2, Runs, Outcomes, Stalls
        <4>2. sent'[i] = sent[i] /\ cut'[i] = cut[i]
          BY <2>1, <2>7, <3>2 DEF Send, Look, Check, Smtp, Finish, Refuse, ProgressFails, Timeout, Stall
        <4>3. attempt' = attempt \/ \E pc \in Steps : Go(j, n, pc)
          BY <2>7, Runs DEF Stall, Steps
        <4>4. \A k \in Starts : attempt'[i][k] = attempt[i][k]
          BY <3>2, <4>3, GoType
        <4> QED
          BY <4>1, <4>2, <4>4, ToldStays
      <3> QED
        BY <3>1, <3>2
    <2> QED
      BY <2>3, <2>4, <2>5, <2>6, <2>7 DEF Next, Work
  <1>3. AllTold => OneEmailUnlessCut
    <2>1. ASSUME NEW j \in Jobs, Told(j), NEW n \in sent[j] \ cut[j] PROVE n = job[j].starts
      BY <2>1 DEF Told
    <2> QED
      BY <2>1 DEF AllTold, OneEmailUnlessCut
  <1> QED
    BY <1>1, <1>2, <1>3, AlwaysSound, PTL DEF Spec

-----------------------------------------------------------------------------
(* The suppression                                                         *)

Enough == transients >= MaxTransient

\* Only enough transient bounces let a suppression be for them, and only they or a permanent
\* bounce that was called transient let one be lifted.
Earned == /\ suppression.reason = "transient" => Enough
          /\ suppression.mentions => Enough \/ Misnamed
          /\ \A m \in Notes : /\ note[m].pc = "suppress" /\ note[m].kind = "transient" => Enough
                              /\ note[m].pc = "lift" => Enough \/ Misnamed

\* A transient bounce is never forgotten.
LEMMA EnoughStays == Sound /\ [Next]_vars /\ Enough => Enough'
  <1> SUFFICES ASSUME Sound, [Next]_vars, Enough PROVE Enough'
    OBVIOUS
  <1>1. transients \in Nat /\ MaxTransient \in Nat
    BY EmailAssumption DEF Sound, TypeOK
  <1>2. ASSUME NEW j \in Jobs, Work(j) PROVE transients' = transients
    <2>1. ASSUME NEW n \in Starts,
                 Send(j, n) \/ Refuse(j, n) \/ ProgressFails(j, n) \/ Timeout(j, n)
          PROVE  transients' = transients
      BY <2>1, Runs DEF bounce
    <2> QED
      BY <1>2, <2>1 DEF Work, Enqueue, Take, Stall, bounce
  <1>3. ASSUME NEW m \in Notes, Notify(m) PROVE transients' = transients \/ transients' = transients + 1
    BY <1>3 DEF Notify, Tell, Handle, Record, Suppress, Count, Lookup, Lift, HandlingFails, Repeat
  <1>4. transients' = transients \/ transients' = transients + 1
    BY <1>2, <1>3 DEF Next, vars
  <1> QED
    BY <1>1, <1>4 DEF Enough

\* A step of a job leaves the suppression alone.
LEMMA WorkKeeps == ASSUME Sound, NEW j \in Jobs, Work(j) PROVE UNCHANGED bounce
  <1>1. ASSUME NEW n \in Starts,
               Send(j, n) \/ Refuse(j, n) \/ ProgressFails(j, n) \/ Timeout(j, n)
        PROVE  UNCHANGED bounce
    BY <1>1, Runs
  <1> QED
    BY <1>1 DEF Work, Enqueue, Take, Stall

\* What a step does to the notifications and the suppression.
LEMMA NoteSteps ==
  ASSUME Sound, NEW m \in Notes, Notify(m)
  PROVE  /\ note' \in [Notes -> Note] /\ \A i \in Notes \ {m} : note'[i] = note[i]
         /\ note'[m].pc \in {"suppress", "lift", "answered"} => note'[m].kind = note[m].kind
         /\ note'[m].pc = "suppress" /\ note'[m].kind = "transient" => Enough
         /\ note'[m].pc = "lift" => suppression.mentions
         /\ note'[m].pc = "answered" /\ note'[m].kind \in {"complaint", "permanent"} => Suppress(m)
         /\ suppression' = suppression \/ Suppress(m) \/ Lift(m)
         /\ Misnamed => Misnamed'
  <1>1. note \in [Notes -> Note] /\ note' \in [Notes -> Note]
    BY NotifySound DEF Sound, TypeOK
  <1>2. suppression' = suppression \/ Suppress(m) \/ Lift(m)
    BY DEF Notify, Tell, Handle, Record, Count, Lookup, HandlingFails, Repeat
  <1>3. ASSUME NEW k \in Kinds, Tell(m, k)
        PROVE  /\ \A i \in Notes \ {m} : note'[i] = note[i]
               /\ note'[m].pc = "told"
               /\ Misnamed => Misnamed'
    <2>1. /\ \A i \in Notes \ {m} : note'[i] = note[i]
          /\ note'[m].pc = "told"
      BY <1>1, <1>3 DEF Tell
    <2>2. ~note[m].mentions
      BY <1>3 DEF Tell, Sound, KindFits
    <2> QED
      BY <2>1, <2>2 DEF Misnamed
  <1>4. CASE Handle(m) \/ HandlingFails(m) \/ Repeat(m)
    <2>1. PICK pc \in NotePCs :
           /\ note' = [note EXCEPT ![m] = Sent(note[m], pc)]
           /\ pc = "suppress" => \/ note[m].kind \in {"permanent", "complaint"}
                                 \/ note[m].kind = "transient" /\ transients >= MaxTransient
           /\ pc = "lift" => suppression.mentions
           /\ pc # "none"
           /\ pc = "answered" => \/ note[m].kind \in {"transient", "delivery"}
                                 \/ Suppress(m)
      BY <1>4, NoteGoes
    <2>2. /\ Sent(note[m], pc).pc = pc /\ Sent(note[m], pc).kind = note[m].kind
          /\ Sent(note[m], pc).mentions = note[m].mentions
      BY <1>1, NoteType
    <2>3. /\ note'[m].pc = pc /\ note'[m].kind = note[m].kind
          /\ note'[m].mentions = note[m].mentions
          /\ \A i \in Notes \ {m} : note'[i] = note[i]
      BY <1>1, <2>1, <2>2
    <2>4. Misnamed => Misnamed'
      BY <2>3 DEF Misnamed
    <2> QED
      BY <1>1, <1>2, <2>1, <2>3, <2>4 DEF Enough
  <1> QED
    BY <1>1, <1>2, <1>3, <1>4 DEF Notify

\* The invariant of the suppression.
LEMMA AlwaysEarned == Spec => [](Earned /\ SuppressionHolds)
  <1>1. Init => Earned /\ SuppressionHolds
    BY DEF Init, Earned, SuppressionHolds
  <1>2. Sound /\ Earned /\ SuppressionHolds /\ [Next]_vars => (Earned /\ SuppressionHolds)'
    <2> SUFFICES ASSUME Sound, Earned, SuppressionHolds, [Next]_vars
                 PROVE  (Earned /\ SuppressionHolds)'
      OBVIOUS
    <2>1. Enough => Enough'
      BY EnoughStays
    <2>2. transients \in Nat /\ MaxTransient \in Nat /\ transients' \in Nat
      BY StepSound, EmailAssumption DEF Sound, TypeOK
    <2>3. CASE UNCHANGED bounce
      BY <2>3 DEF bounce, Earned, SuppressionHolds, Enough, Misnamed
    <2>4. ASSUME NEW m \in Notes, Notify(m) PROVE (Earned /\ SuppressionHolds)'
      <3>1. CASE Suppress(m)
        <4>1. suppression' = [isActive |-> TRUE, reason |-> note[m].kind, mentions |-> note[m].mentions]
              /\ (note[m].kind = "transient" => Enough)
          BY <3>1 DEF Suppress, Earned
        <4>2. note[m].mentions => Enough \/ Misnamed
          BY <4>1 DEF Sound, KindFits, Misnamed
        <4>3. Earned'
          BY <2>1, <2>4, <4>1, <4>2, NoteSteps DEF Earned
        <4> QED
          BY <4>1, <4>3 DEF SuppressionHolds
      <3>2. CASE Lift(m)
        <4>1. /\ suppression'.reason = suppression.reason /\ suppression'.mentions = suppression.mentions
              /\ Enough \/ Misnamed
          BY <3>2 DEF Lift, Earned, Sound, TypeOK
        <4>2. ~(transients' < MaxTransient) \/ Misnamed'
          BY <2>1, <2>2, <2>4, <4>1, NoteSteps DEF Enough
        <4>a. /\ Misnamed => Misnamed'
              /\ \A i \in Notes \ {m} : note'[i] = note[i]
              /\ note'[m].pc = "answered"
          BY <2>4, <3>2, NoteSteps DEF Lift, Sound, TypeOK
        <4>3. Earned'
          BY <2>1, <4>1, <4>a DEF Earned
        <4> QED
          BY <4>2, <4>3 DEF SuppressionHolds
      <3>3. CASE suppression' = suppression /\ ~Suppress(m)
        <4>1. Earned'
          BY <2>1, <2>4, <3>3, NoteSteps DEF Earned
        <4>2. SuppressionHolds'
          <5> SUFFICES ASSUME NEW i \in Notes, note'[i].pc = "answered",
                              note'[i].kind \in {"complaint", "permanent"},
                              transients' < MaxTransient, ~Misnamed'
                       PROVE  suppression.isActive
            BY <3>3 DEF SuppressionHolds
          <5>1. note'[i] = note[i]
            BY <2>4, <3>3, NoteSteps
          <5>2. transients < MaxTransient /\ ~Misnamed
            BY <2>1, <2>2, <2>4, NoteSteps DEF Enough
          <5> QED
            BY <5>1, <5>2 DEF SuppressionHolds
        <4> QED
          BY <4>1, <4>2
      <3> QED
        BY <2>4, <3>1, <3>2, <3>3, NoteSteps
    <2>5. ASSUME NEW j \in Jobs, Work(j) PROVE (Earned /\ SuppressionHolds)'
      BY <2>3, <2>5, WorkKeeps
    <2>6. CASE UNCHANGED vars
      BY <2>3, <2>6 DEF vars, bounce
    <2> QED
      BY <2>4, <2>5, <2>6 DEF Next
  <1> QED
    BY <1>1, <1>2, AlwaysSound, PTL DEF Spec

\* A complaint or a permanent bounce that was answered keeps the address suppressed while the
\* address has had fewer transient bounces than suppress it and no provider has called a permanent
\* bounce transient (email-bounce.service.ts: suppressEmail, clearTransientBounceFlags).
THEOREM AlwaysSuppressionHolds == Spec => []SuppressionHolds
  BY AlwaysEarned, PTL

\* The address is suppressed for its transient bounces only when it has had enough of them
\* (email-bounce.service.ts: handleTransientBounce).
THEOREM AlwaysTransientIsEarned == Spec => []TransientIsEarned
  <1>1. Earned => TransientIsEarned
    BY DEF Earned, Enough, TransientIsEarned
  <1> QED
    BY <1>1, AlwaysEarned, PTL
=============================================================================
