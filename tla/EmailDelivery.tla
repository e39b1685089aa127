---------------------------- MODULE EmailDelivery ----------------------------
(***************************************************************************)
(* The emails to one address: the jobs of the queue 'email', which two     *)
(* kinds of worker take, and the address's row of EmailSuppression, which  *)
(* the notifications of the email providers write and the senders read.    *)
(* An attempt that times out goes on sending while the job is tried again. *)
(***************************************************************************)
EXTENDS Naturals

CONSTANTS
  Jobs,         \* jobs that send to the address
  Notes,        \* notifications about the address
  Kinds,        \* the kinds of notification that come
  Attempts,     \* EMAIL_MAX_ATTEMPTS
  MaxStalled,   \* maxStalledCount of EmailWorkerService; ProcessorService leaves BullMQ's, 1
  MaxTransient, \* EMAIL_MAX_TRANSIENT_BOUNCES
  MaxFaults     \* bound: database calls that throw, and answers that are lost

ASSUME EmailAssumption == /\ Kinds \subseteq {"permanent", "transient", "complaint", "delivery"}
                          /\ Attempts \in Nat \ {0} /\ MaxStalled \in Nat \ {0}
                          /\ MaxTransient \in Nat \ {0} /\ MaxFaults \in Nat

VARIABLES
  job,         \* the jobs in Redis
  attempt,     \* what each start of a job is executing
  sent,        \* the starts of each job whose email the server took
  cut,         \* the starts that ended for the queue before they had told it that they sent
  suppression, \* the row of EmailSuppression, with what its reason mentions; isActive is FALSE for no row
  transients,  \* the rows of EmailBounce with bounceType transient
  note,        \* the notifications
  faults

vars == <<job, attempt, sent, cut, suppression, transients, note, faults>>

queue  == <<job, attempt, sent, cut>>
bounce == <<suppression, transients, note>>

-----------------------------------------------------------------------------
(* Data                                                                    *)

\* A job is started once more for each time that it stalled.
Starts  == 1..(Attempts + MaxStalled)
Workers == {"processor", "worker"}

Job == [state : {"none", "waiting", "active", "completed", "failed"}, by : Workers \cup {"none"},
        starts : 0..(Attempts + MaxStalled), failures : 0..Attempts, stalled : 0..MaxStalled]

NoJob == [state |-> "none", by |-> "none", starts |-> 0, failures |-> 0, stalled |-> 0]

\* "look" is the processor's own query, "check" the one of sendMail.
Steps == {"none", "look", "check", "smtp", "after", "over"}

Reasons == {"permanent", "transient", "complaint"}

\* Whether the text that a suppression gets for its reason says 'transient': one for transient
\* bounces always does, and one for a permanent bounce repeats the provider's own words.
Mentions(kind) == CASE kind = "transient" -> {TRUE}
                    [] kind = "permanent" -> BOOLEAN
                    [] OTHER              -> {FALSE}

\* "lost" is a notification answered although its handling had failed.
Note == [kind : Reasons \cup {"delivery"}, mentions : BOOLEAN,
         pc : {"none", "told", "suppress", "count", "lookup", "lift", "answered", "lost"}]

Current(j, n) == job[j].state = "active" /\ n = job[j].starts

-----------------------------------------------------------------------------
(* Helpers                                                                 *)

Init ==
  /\ job = [j \in Jobs |-> NoJob]
  /\ attempt = [j \in Jobs |-> [n \in Starts |-> "none"]]
  /\ sent = [j \in Jobs |-> {}]
  /\ cut = [j \in Jobs |-> {}]
  /\ suppression = [isActive |-> FALSE, reason |-> "permanent", mentions |-> FALSE]
  /\ transients = 0
  /\ note = [n \in Notes |-> [kind |-> "delivery", mentions |-> FALSE, pc |-> "none"]]
  /\ faults = 0

Fault == faults < MaxFaults /\ faults' = faults + 1

At(j, n, pc) == attempt[j][n] = pc
Go(j, n, pc) == attempt' = [attempt EXCEPT ![j][n] = pc]

\* Mutant of AfterFailure: the attempt that failed is not counted.
AfterFailureUncounted(x) == [x EXCEPT !.state = "waiting", !.by = "none"]

\* The queue tries a job again, after a delay, until its attempts are used up.
AfterFailure(x) ==
  [x EXCEPT !.state = IF x.failures + 1 < Attempts THEN "waiting" ELSE "failed",
            !.by = "none", !.failures = x.failures + 1]

\* The outcome of a start reaches the queue only while the job is still this start's.
Complete(j, n) ==
  job' = IF Current(j, n) THEN [job EXCEPT ![j].state = "completed", ![j].by = "none"] ELSE job
Throw(j, n) ==
  job' = IF Current(j, n) THEN [job EXCEPT ![j] = AfterFailure(job[j])] ELSE job

-----------------------------------------------------------------------------
(* The queue and its workers                                               *)

Enqueue(j) ==
  /\ job[j].state = "none"
  /\ job' = [job EXCEPT ![j].state = "waiting"]
  /\ UNCHANGED <<attempt, sent, cut, bounce, faults>>

\* ProcessorService asks for the suppression itself; EmailWorkerService leaves it to sendMail.
Take(j, w) ==
  LET n == job[j].starts + 1
  IN /\ job[j].state = "waiting"
     /\ job' = [job EXCEPT ![j].state = "active", ![j].by = w, ![j].starts = n]
     /\ Go(j, n, IF w = "processor" THEN "look" ELSE "check")
     /\ UNCHANGED <<sent, cut, bounce, faults>>

\* isEmailSuppressed answers no when its query throws.
Look(j, n) ==
  /\ At(j, n, "look")
  /\ \/ suppression.isActive /\ Go(j, n, "over") /\ Complete(j, n) /\ UNCHANGED faults
     \/ ~suppression.isActive /\ Go(j, n, "check") /\ UNCHANGED <<job, faults>>
     \/ Fault /\ Go(j, n, "check") /\ UNCHANGED job
  /\ UNCHANGED <<sent, cut, bounce>>

\* A suppressed address makes sendMail return, and the job is done.
Check(j, n) ==
  /\ At(j, n, "check")
  /\ \/ suppression.isActive /\ Go(j, n, "over") /\ Complete(j, n) /\ UNCHANGED faults
     \/ ~suppression.isActive /\ Go(j, n, "smtp") /\ UNCHANGED <<job, faults>>
     \/ Fault /\ Go(j, n, "smtp") /\ UNCHANGED job
  /\ UNCHANGED <<sent, cut, bounce>>

\* transporter.sendMail: the server takes the email; nobody waits for a start that was cut.
Smtp(j, n) ==
  /\ At(j, n, "smtp")
  /\ sent' = [sent EXCEPT ![j] = @ \cup {n}]
  /\ Go(j, n, IF Current(j, n) THEN "after" ELSE "over")
  /\ UNCHANGED <<job, cut, bounce, faults>>

\* The server refuses it, or a progress update before it throws.
Refuse(j, n) ==
  /\ attempt[j][n] \in {"look", "check", "smtp"}
  /\ Go(j, n, "over")
  /\ Throw(j, n)
  /\ UNCHANGED <<sent, cut, bounce, faults>>

\* Mutant of Finish: the result of sendMail is lost on the way.
FinishThrowing(j, n) ==
  /\ At(j, n, "after")
  /\ Go(j, n, "over")
  /\ Throw(j, n)
  /\ UNCHANGED <<sent, cut, bounce, faults>>

Finish(j, n) ==
  /\ At(j, n, "after")
  /\ Go(j, n, "over")
  /\ Complete(j, n)
  /\ UNCHANGED <<sent, cut, bounce, faults>>

\* The progress update after the email throws.
ProgressFails(j, n) ==
  /\ At(j, n, "after")
  /\ Current(j, n)
  /\ Go(j, n, "over")
  /\ Throw(j, n)
  /\ cut' = [cut EXCEPT ![j] = @ \cup {n}]
  /\ UNCHANGED <<sent, bounce, faults>>

\* The race of ProcessorService ends, its work does not.
Timeout(j, n) ==
  /\ Current(j, n)
  /\ job[j].by = "processor"
  /\ attempt[j][n] \in {"check", "smtp", "after"}
  /\ Throw(j, n)
  /\ cut' = [cut EXCEPT ![j] = @ \cup {n}]
  /\ UNCHANGED <<attempt, sent, bounce, faults>>

\* Mutant of Stall: nobody looks for the jobs of a worker that is gone.
StallHeld(j, n) ==
  /\ Current(j, n)
  /\ cut' = [cut EXCEPT ![j] = @ \cup {n}]
  /\ Go(j, n, "over") \/ UNCHANGED attempt
  /\ UNCHANGED <<job, sent, bounce, faults>>

\* The worker's lock on the job runs out, with its process or without.  Whichever worker looks
\* for stalled jobs starts the job again, unless it stalled more often than that one allows.
Stall(j, n) ==
  /\ Current(j, n)
  /\ \/ /\ job[j].stalled < MaxStalled
        /\ job' = [job EXCEPT ![j].state = "waiting", ![j].by = "none", ![j].stalled = @ + 1]
     \/ /\ job[j].stalled >= 1
        /\ job' = [job EXCEPT ![j].state = "failed", ![j].by = "none"]
  /\ cut' = [cut EXCEPT ![j] = @ \cup {n}]
  /\ Go(j, n, "over") \/ UNCHANGED attempt
  /\ UNCHANGED <<sent, bounce, faults>>

-----------------------------------------------------------------------------
(* The notifications of the providers                                      *)

\* AWS, SendGrid or Mailgun sends a notification, which the controller turns into an event.
Tell(m, k) ==
  /\ note[m].pc = "none"
  /\ \E j \in Jobs : sent[j] # {}
  /\ \E b \in Mentions(k) :
       note' = [note EXCEPT ![m] = [kind |-> k, mentions |-> b, pc |-> "told"]]
  /\ UNCHANGED <<queue, suppression, transients, faults>>

\* handleBounce, handleComplaint and handleDelivery begin with a row of their own.
Record(m) ==
  /\ note[m].pc = "told"
  /\ transients' = IF note[m].kind = "transient" THEN transients + 1 ELSE transients
  /\ note' = [note EXCEPT ![m].pc = CASE note[m].kind = "transient" -> "count"
                                      [] note[m].kind = "delivery"  -> "lookup"
                                      [] OTHER                      -> "suppress"]
  /\ UNCHANGED <<queue, suppression, faults>>

\* suppressEmail: an upsert, whatever the row said.
Suppress(m) ==
  /\ note[m].pc = "suppress"
  /\ suppression' = [isActive |-> TRUE, reason |-> note[m].kind, mentions |-> note[m].mentions]
  /\ note' = [note EXCEPT ![m].pc = "answered"]
  /\ UNCHANGED <<queue, transients, faults>>

\* Mutant of Count: the bounce that is being handled is enough.
CountAny(m) ==
  /\ note[m].pc = "count"
  /\ note' = [note EXCEPT ![m].pc = "suppress"]
  /\ UNCHANGED <<queue, suppression, transients, faults>>

\* handleTransientBounce counts every row of the address; the count is 0 when its query throws.
Count(m) ==
  /\ note[m].pc = "count"
  /\ \/ /\ note' = [note EXCEPT ![m].pc = IF transients >= MaxTransient THEN "suppress" ELSE "answered"]
        /\ UNCHANGED faults
     \/ Fault /\ note' = [note EXCEPT ![m].pc = "answered"]
  /\ UNCHANGED <<queue, suppression, transients>>

\* Mutant of Lookup: every suppression is lifted.
LookupAny(m) ==
  /\ note[m].pc = "lookup"
  /\ note' = [note EXCEPT ![m].pc = IF suppression.isActive THEN "lift" ELSE "answered"]
  /\ UNCHANGED <<queue, suppression, transients, faults>>

\* clearTransientBounceFlags looks for the word in the reason.
Lookup(m) ==
  /\ note[m].pc = "lookup"
  /\ note' = [note EXCEPT ![m].pc = IF suppression.isActive /\ suppression.mentions
                                      THEN "lift" ELSE "answered"]
  /\ UNCHANGED <<queue, suppression, transients, faults>>

\* unsuppressEmail, whatever the row says by now.
Lift(m) ==
  /\ note[m].pc = "lift"
  /\ suppression' = [suppression EXCEPT !.isActive = FALSE]
  /\ note' = [note EXCEPT ![m].pc = "answered"]
  /\ UNCHANGED <<queue, transients, faults>>

\* Mutant of HandlingFails: the error of every handler is swallowed.
HandlingFailsSwallowed(m) ==
  /\ note[m].pc \in {"told", "suppress", "lookup", "lift"}
  /\ Fault
  /\ note' = [note EXCEPT ![m].pc = "answered"]
  /\ UNCHANGED <<queue, suppression, transients>>

\* A write throws.  handleSendGrid goes on to its next event and handleDelivery swallows the
\* error; the others answer with an error, and the provider sends the notification again.
HandlingFails(m) ==
  /\ note[m].pc \in {"told", "suppress", "lookup", "lift"}
  /\ Fault
  /\ \/ note' = [note EXCEPT ![m].pc = "lost"]
     \/ note[m].kind # "delivery" /\ note' = [note EXCEPT ![m].pc = "told"]
  /\ UNCHANGED <<queue, suppression, transients>>

\* The answer was lost, or another recipient's part of the notification failed.
Repeat(m) ==
  /\ note[m].pc = "answered"
  /\ Fault
  /\ note' = [note EXCEPT ![m].pc = "told"]
  /\ UNCHANGED <<queue, suppression, transients>>

-----------------------------------------------------------------------------

Send(j, n) == Look(j, n) \/ Check(j, n) \/ Smtp(j, n) \/ Finish(j, n)

Work(j) == \/ Enqueue(j)
           \/ \E w \in Workers : Take(j, w)
           \/ \E n \in Starts : \/ Send(j, n) \/ Refuse(j, n)
                                \/ ProgressFails(j, n) \/ Timeout(j, n) \/ Stall(j, n)

Handle(m) == Record(m) \/ Suppress(m) \/ Count(m) \/ Lookup(m) \/ Lift(m)

Notify(m) == \/ \E k \in Kinds : Tell(m, k)
             \/ Handle(m) \/ HandlingFails(m) \/ Repeat(m)

Next == (\E j \in Jobs : Work(j)) \/ (\E m \in Notes : Notify(m))

Spec == Init /\ [][Next]_vars

\* BullMQ hands out a waiting job, a running attempt ends one way or another, and a provider
\* sends a notification again until it is answered.
Fairness ==
  /\ \A j \in Jobs : /\ WF_vars(\E w \in Workers : Take(j, w))
                     /\ WF_vars(\E n \in Starts : Send(j, n))
  /\ \A m \in Notes : WF_vars(Handle(m))

FairSpec == Spec /\ Fairness

-----------------------------------------------------------------------------
(* Properties                                                              *)

TypeOK ==
  /\ job \in [Jobs -> Job]
  /\ attempt \in [Jobs -> [Starts -> Steps]]
  /\ sent \in [Jobs -> SUBSET Starts]
  /\ cut \in [Jobs -> SUBSET Starts]
  /\ suppression \in [isActive : BOOLEAN, reason : Reasons, mentions : BOOLEAN]
  /\ transients \in Nat
  /\ note \in [Notes -> Note]
  /\ faults \in 0..MaxFaults

\* A job sends one email, however often it is started, and one more at most for each start
\* that timed out, stalled or failed after it had sent.
OneEmailUnlessCut ==
  \A j \in Jobs : \A m, n \in sent[j] \ cut[j] : m = n

\* A permanent bounce whose text says 'transient' was told of.
Misnamed == \E m \in Notes : note[m].kind = "permanent" /\ note[m].mentions

\* A complaint or a permanent bounce that was answered keeps the address suppressed, whatever
\* else is handled at the same time or twice, as long as the address had fewer transient
\* bounces than suppress it and no provider called a permanent bounce transient: from either
\* on, a delivery may lift the suppression, whatever it is for.
SuppressionHolds ==
  \A m \in Notes :
    /\ note[m].pc = "answered" /\ note[m].kind \in {"complaint", "permanent"}
    /\ transients < MaxTransient /\ ~Misnamed
    => suppression.isActive

\* The address is suppressed for its transient bounces only when it has had enough of them.
TransientIsEarned ==
  suppression.reason = "transient" => transients >= MaxTransient

\* A job that waits is completed or failed in the end.
EveryJobEnds ==
  \A j \in Jobs : job[j].state = "waiting" ~> job[j].state \in {"completed", "failed"}

\* A complaint or a permanent bounce leads to a suppression although handlers fail, unless the
\* failure itself was answered.
ComplaintsSuppress ==
  \A m \in Notes :
    note[m].pc = "told" /\ note[m].kind \in {"complaint", "permanent"}
    ~> suppression.isActive \/ note[m].pc = "lost"
=============================================================================
