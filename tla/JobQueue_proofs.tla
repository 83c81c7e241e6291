-------------------------- MODULE JobQueue_proofs --------------------------
(***************************************************************************)
(* First, no job that was claimed is forgotten, for every number of jobs   *)
(* and of overlapping ticks: what has to be known of a tick is only that   *)
(* it has a current job exactly while a handler works.  Then the e-mails   *)
(* that the queue carries.                                                 *)
(***************************************************************************)
EXTENDS Notifications, TLAPS

HandlerBusy == \A p \in Pollers : IF pollers[p].step = "work" THEN pollers[p].job \in Jobs
                                  ELSE pollers[p].job = NoJob

JobInv == JobTypeOK /\ HandlerBusy

-----------------------------------------------------------------------------
LEMMA RestingType == Resting \in Poller /\ Resting.step = "idle" /\ Resting.job = NoJob
BY DEF Resting, Poller

\* A tick that moves to a well-formed record keeps the invariant.
LEMMA MoveType ==
  ASSUME JobInv, NEW p \in Pollers, NEW r \in Poller, pollers' = [pollers EXCEPT ![p] = r],
         IF r.step = "work" THEN r.job \in Jobs ELSE r.job = NoJob,
         jobs' \in [Jobs -> JobRow]
  PROVE  JobInv'
BY DEF JobInv, JobTypeOK, HandlerBusy

LEMMA JobsInit == JobInit => JobInv
BY RestingType DEF JobInit, JobInv, JobTypeOK, HandlerBusy, NoRow, JobRow, Resting

LEMMA OutcomeType ==
  ASSUME JobInv, NEW p \in Pollers, Working(p), NEW row \in JobRow, Outcome(p, row)
  PROVE  JobInv'
<1>1. pollers[p] \in Poller
  BY DEF JobInv, JobTypeOK
<1> DEFINE r == IF pollers[p].batch = {} THEN Resting
                ELSE [pollers[p] EXCEPT !.step = "run", !.job = NoJob]
<1>2. r \in Poller /\ r.step # "work" /\ r.job = NoJob
  BY <1>1, RestingType DEF Poller
<1>3. pollers' = [pollers EXCEPT ![p] = r]
  BY DEF Outcome
<1> HIDE DEF r
<1>4. jobs' \in [Jobs -> JobRow]
  BY DEF Outcome, JobInv, JobTypeOK
<1> QED BY <1>2, <1>3, <1>4, MoveType

LEMMA JobTypeStep == JobInv /\ [JobNext]_jobVars => JobInv'
<1> SUFFICES ASSUME JobInv, [JobNext]_jobVars PROVE JobInv'
  OBVIOUS
<1>1. ASSUME NEW j \in Jobs, Enqueue(j) \/ BackoffOver(j)
      PROVE  JobInv'
  <2>1. \E row : jobs' = [jobs EXCEPT ![j] = row] /\ row \in JobRow
    <3>1. CASE Enqueue(j)
      <4> DEFINE row == IF jobs[j].status = "ABSENT"
                        THEN [status |-> "PENDING", attempts |-> 0, due |-> TRUE] ELSE jobs[j]
      <4>1. row \in JobRow
        BY DEF JobInv, JobTypeOK, JobRow
      <4>2. jobs' = [jobs EXCEPT ![j] = row]
        BY <3>1 DEF Enqueue
      <4> QED BY <4>1, <4>2
    <3>2. CASE BackoffOver(j)
      <4> DEFINE row == [jobs[j] EXCEPT !.due = TRUE]
      <4>1. row \in JobRow
        BY DEF JobInv, JobTypeOK, JobRow
      <4>2. jobs' = [jobs EXCEPT ![j] = row]
        BY <3>2 DEF BackoffOver
      <4> QED BY <4>1, <4>2
    <3> QED BY <1>1, <3>1, <3>2
  <2>2. jobs' \in [Jobs -> JobRow] /\ UNCHANGED pollers
    BY <1>1, <2>1 DEF Enqueue, BackoffOver, JobInv, JobTypeOK
  <2> QED BY <2>2 DEF JobInv, JobTypeOK, HandlerBusy
<1>2. ASSUME NEW p \in Pollers, PollRead(p)
      PROVE  JobInv'
  <2>1. PICK batch \in SUBSET DueJobs :
          pollers' = [pollers EXCEPT ![p] = [Resting EXCEPT !.step = "claim", !.batch = batch]]
    BY <1>2 DEF PollRead
  <2> DEFINE r == [Resting EXCEPT !.step = "claim", !.batch = batch]
  <2>2. r \in Poller /\ r.step = "claim" /\ r.job = NoJob
    BY <2>1, RestingType DEF Poller, DueJobs
  <2> HIDE DEF r
  <2> QED BY <1>2, <2>1, <2>2, MoveType DEF PollRead, r, JobInv, JobTypeOK
<1>3. ASSUME NEW p \in Pollers, PollClaim(p)
      PROVE  JobInv'
  <2> DEFINE mine == {j \in pollers[p].batch : jobs[j].status = "PENDING"}
             r == IF mine = {} THEN Resting ELSE [pollers[p] EXCEPT !.step = "fetch"]
  <2>1. pollers[p] \in Poller /\ pollers[p].job = NoJob
    BY <1>3 DEF PollClaim, JobInv, JobTypeOK, HandlerBusy
  <2>2. r \in Poller /\ r.step # "work" /\ r.job = NoJob
    BY <2>1, RestingType DEF Poller
  <2>3. pollers' = [pollers EXCEPT ![p] = r] /\ jobs' \in [Jobs -> JobRow]
    BY <1>3 DEF PollClaim, JobInv, JobTypeOK, JobRow
  <2> HIDE DEF r
  <2> QED BY <2>2, <2>3, MoveType
<1>4. ASSUME NEW p \in Pollers, PollFetch(p)
      PROVE  JobInv'
  <2> DEFINE running == {j \in pollers[p].batch : jobs[j].status = "RUNNING"}
             seen == [j \in Jobs |-> IF j \in running THEN jobs[j].attempts ELSE 0]
             r == IF running = {} THEN Resting
                  ELSE [pollers[p] EXCEPT !.step = "run", !.batch = running, !.seen = seen]
  <2>1. pollers[p] \in Poller /\ pollers[p].job = NoJob
    BY <1>4 DEF PollFetch, JobInv, JobTypeOK, HandlerBusy
  <2>2. running \in SUBSET Jobs /\ seen \in [Jobs -> Nat]
    BY <2>1 DEF Poller, JobInv, JobTypeOK, JobRow
  <2>3. pollers' = [pollers EXCEPT ![p] = r] /\ jobs' \in [Jobs -> JobRow]
    BY <1>4 DEF PollFetch, JobInv, JobTypeOK
  <2> HIDE DEF running, seen
  <2>4. r \in Poller /\ r.step # "work" /\ r.job = NoJob
    BY <2>1, <2>2, RestingType DEF Poller
  <2> HIDE DEF r
  <2> QED BY <2>3, <2>4, MoveType
<1>5. ASSUME NEW p \in Pollers, RunOne(p)
      PROVE  JobInv'
  <2>1. PICK j \in pollers[p].batch :
          pollers' = [pollers EXCEPT ![p].step = "work", ![p].job = j, ![p].batch = @ \ {j}]
    BY <1>5 DEF RunOne
  <2> DEFINE r == [pollers[p] EXCEPT !.step = "work", !.job = j, !.batch = pollers[p].batch \ {j}]
  <2>2. pollers[p] \in Poller /\ j \in Jobs
    BY <2>1 DEF JobInv, JobTypeOK, Poller
  <2>3. r \in Poller /\ r.step = "work" /\ r.job = j
    BY <2>2 DEF Poller
  <2>4. pollers' = [pollers EXCEPT ![p] = r]
    BY <2>1 DEF JobInv, JobTypeOK
  <2> HIDE DEF r
  <2> QED BY <1>5, <2>2, <2>3, <2>4, MoveType DEF RunOne, JobInv, JobTypeOK
<1>6. ASSUME NEW p \in Pollers, Succeed(p) \/ FailPermanent(p) \/ FailTransient(p)
      PROVE  JobInv'
  <2>1. Working(p) /\ pollers[p].job \in Jobs /\ pollers[p].seen \in [Jobs -> Nat]
    BY <1>6 DEF Succeed, FailPermanent, FailTransient, Working, JobInv, JobTypeOK, HandlerBusy, Poller
  <2>2. JobAtHand(p) \in JobRow /\ FailedAttempts(p) \in Nat
    BY <2>1 DEF JobAtHand, FailedAttempts, JobInv, JobTypeOK
  <2>3. /\ [JobAtHand(p) EXCEPT !.status = "SUCCEEDED", !.attempts = @ + 1] \in JobRow
        /\ [JobAtHand(p) EXCEPT !.status = "FAILED", !.attempts = FailedAttempts(p)] \in JobRow
        /\ [status |-> "PENDING", attempts |-> FailedAttempts(p), due |-> FALSE] \in JobRow
    <3> DEFINE row == JobAtHand(p)
               n == FailedAttempts(p)
    <3>1. row \in JobRow /\ n \in Nat
      BY <2>2
    <3> HIDE DEF row, n
    <3>2. [row EXCEPT !.status = "SUCCEEDED", !.attempts = row.attempts + 1] \in JobRow
      <4>1. row.attempts + 1 \in Nat
        BY <3>1 DEF JobRow
      <4> QED BY <3>1, <4>1 DEF JobRow
    <3>3. [row EXCEPT !.status = "FAILED", !.attempts = n] \in JobRow
      BY <3>1 DEF JobRow
    <3>4. [status |-> "PENDING", attempts |-> n, due |-> FALSE] \in JobRow
      BY <3>1 DEF JobRow
    <3> QED BY <3>2, <3>3, <3>4 DEF row, n
  <2>4. CASE Succeed(p)
    BY <2>1, <2>3, <2>4, OutcomeType DEF Succeed
  <2>5. CASE FailPermanent(p)
    BY <2>1, <2>3, <2>5, OutcomeType DEF FailPermanent
  <2>6. CASE FailTransient(p)
    <3> DEFINE row == IF FailedAttempts(p) < MaxAttempts
                      THEN [status |-> "PENDING", attempts |-> FailedAttempts(p), due |-> FALSE]
                      ELSE [JobAtHand(p) EXCEPT !.status = "FAILED", !.attempts = FailedAttempts(p)]
    <3>1. row \in JobRow
      BY <2>3
    <3>2. Outcome(p, row)
      BY <2>6 DEF FailTransient
    <3> HIDE DEF row
    <3> QED BY <2>1, <3>1, <3>2, OutcomeType
  <2> QED BY <1>6, <2>4, <2>5, <2>6
<1>7. ASSUME NEW p \in Pollers, PollerDies(p)
      PROVE  JobInv'
  BY <1>7, RestingType, MoveType DEF PollerDies, JobInv, JobTypeOK
<1>8. CASE UNCHANGED jobVars
  BY <1>8 DEF jobVars, JobInv, JobTypeOK, HandlerBusy
<1> QED BY <1>1, <1>2, <1>3, <1>4, <1>5, <1>6, <1>7, <1>8 DEF JobNext, PollerNext

\* The rows of the queue and the ticks keep their types.
THEOREM JobTypeCorrect == JobSpec => []JobTypeOK
<1>1. JobSpec => []JobInv
  BY JobsInit, JobTypeStep, PTL DEF JobSpec
<1>2. JobInv => JobTypeOK
  BY DEF JobInv
<1> QED BY <1>1, <1>2, PTL

-----------------------------------------------------------------------------
\* A tick that keeps what it has to run, and gives up the job k only when k is
\* not RUNNING, leaves k attended.
LEMMA KeepRunner ==
  ASSUME JobInv, NEW k \in Jobs, Attended(k), NEW p \in Pollers,
         \A q \in Pollers \ {p} : pollers'[q] = pollers[q],
         jobs'[k].status = "RUNNING" =>
           \/ /\ pollers'[p].step \in {"fetch", "run", "work"}
              /\ k \in pollers'[p].batch
           \/ pollers'[p].job = k
           \/ /\ jobs[k].status = "RUNNING"
              /\ ~(pollers[p].step \in {"fetch", "run", "work"} /\ k \in pollers[p].batch)
              /\ pollers[p].job # k
  PROVE  Attended(k)'
<1> SUFFICES ASSUME jobs'[k].status = "RUNNING"
             PROVE  OnItsWay(k)'
  BY DEF Attended
<1>1. CASE /\ jobs[k].status = "RUNNING"
           /\ ~(pollers[p].step \in {"fetch", "run", "work"} /\ k \in pollers[p].batch)
           /\ pollers[p].job # k
  <2>1. PICK q \in Pollers : \/ pollers[q].step \in {"fetch", "run", "work"} /\ k \in pollers[q].batch
                             \/ pollers[q].job = k
    BY <1>1 DEF Attended, OnItsWay
  <2>2. q # p
    BY <1>1, <2>1
  <2> QED BY <2>1, <2>2 DEF OnItsWay
<1>2. CASE \/ pollers'[p].step \in {"fetch", "run", "work"} /\ k \in pollers'[p].batch
           \/ pollers'[p].job = k
  BY <1>2 DEF OnItsWay
<1> QED BY <1>1, <1>2

LEMMA RunnerStep ==
  ASSUME JobInv, JobInv', [JobNext]_jobVars, \A p \in Pollers : ~PollerDies(p),
         NEW k \in Jobs, Attended(k)
  PROVE  Attended(k)'
<1>0. \A j \in Jobs : jobs'[j] \in JobRow
  BY DEF JobInv, JobTypeOK
<1>1. ASSUME NEW j \in Jobs, Enqueue(j) \/ BackoffOver(j)
      PROVE  Attended(k)'
  <2>1. \A i \in Jobs : jobs'[i].status = "RUNNING" => jobs[i].status = "RUNNING"
    BY <1>1 DEF Enqueue, BackoffOver, JobInv, JobTypeOK, JobRow
  <2> QED BY <1>1, <2>1 DEF Enqueue, BackoffOver, Attended, OnItsWay
<1>2. ASSUME NEW p \in Pollers, PollRead(p)
      PROVE  Attended(k)'
  <2>1. pollers[p].step = "idle" /\ pollers[p].job = NoJob /\ UNCHANGED jobs
    BY <1>2 DEF PollRead, JobInv, HandlerBusy
  <2>2. \A q \in Pollers \ {p} : pollers'[q] = pollers[q]
    BY <1>2 DEF PollRead, JobInv, JobTypeOK
  <2> QED BY <2>1, <2>2, KeepRunner, JobAssumption
<1>3. ASSUME NEW p \in Pollers, PollClaim(p)
      PROVE  Attended(k)'
  <2> DEFINE mine == {j \in pollers[p].batch : jobs[j].status = "PENDING"}
  <2>1. pollers[p] \in Poller /\ pollers[p].step = "claim" /\ pollers[p].job = NoJob
    BY <1>3 DEF PollClaim, JobInv, JobTypeOK, HandlerBusy
  <2>2. \A q \in Pollers \ {p} : pollers'[q] = pollers[q]
    BY <1>3 DEF PollClaim, JobInv, JobTypeOK
  <2>3. \A j \in Jobs : jobs'[j].status = "RUNNING" => j \in mine \/ jobs[j].status = "RUNNING"
    BY <1>3 DEF PollClaim
  <2>4. mine # {} => pollers'[p].step = "fetch" /\ pollers'[p].batch = pollers[p].batch
    <3>1. mine # {} => pollers'[p] = [pollers[p] EXCEPT !.step = "fetch"]
      BY <1>3 DEF PollClaim, JobInv, JobTypeOK
    <3> QED BY <2>1, <3>1 DEF Poller
  <2> QED BY <2>1, <2>2, <2>3, <2>4, KeepRunner, JobAssumption
<1>4. ASSUME NEW p \in Pollers, PollFetch(p)
      PROVE  Attended(k)'
  <2> DEFINE running == {j \in pollers[p].batch : jobs[j].status = "RUNNING"}
             seen == [j \in Jobs |-> IF j \in running THEN jobs[j].attempts ELSE 0]
  <2>1. /\ pollers[p] \in Poller /\ pollers[p].step = "fetch" /\ pollers[p].job = NoJob
        /\ UNCHANGED jobs
    BY <1>4 DEF PollFetch, JobInv, JobTypeOK, HandlerBusy
  <2>2. \A q \in Pollers \ {p} : pollers'[q] = pollers[q]
    BY <1>4 DEF PollFetch, JobInv, JobTypeOK
  <2>3. running # {} => pollers'[p] = [pollers[p] EXCEPT !.step = "run", !.batch = running, !.seen = seen]
    BY <1>4 DEF PollFetch, JobInv, JobTypeOK
  <2> HIDE DEF seen
  <2>4. running # {} => pollers'[p].step = "run" /\ pollers'[p].batch = running
    BY <2>1, <2>3 DEF Poller
  <2> QED BY <2>1, <2>2, <2>4, KeepRunner, JobAssumption
<1>5. ASSUME NEW p \in Pollers, RunOne(p)
      PROVE  Attended(k)'
  <2>1. PICK j \in pollers[p].batch :
          pollers' = [pollers EXCEPT ![p].step = "work", ![p].job = j, ![p].batch = @ \ {j}]
    BY <1>5 DEF RunOne
  <2>2. pollers[p] \in Poller /\ pollers[p].job = NoJob /\ UNCHANGED jobs
    BY <1>5 DEF RunOne, JobInv, JobTypeOK, HandlerBusy
  <2>3. \A q \in Pollers \ {p} : pollers'[q] = pollers[q]
    BY <2>1 DEF JobInv, JobTypeOK
  <2>4. pollers'[p] = [pollers[p] EXCEPT !.step = "work", !.job = j, !.batch = pollers[p].batch \ {j}]
    BY <2>1 DEF JobInv, JobTypeOK
  <2>5. pollers'[p].step = "work" /\ pollers'[p].job = j /\ pollers'[p].batch = pollers[p].batch \ {j}
    BY <2>2, <2>4 DEF Poller
  <2> QED BY <1>5, <2>2, <2>3, <2>5, KeepRunner, JobAssumption DEF RunOne
<1>6. ASSUME NEW p \in Pollers, Working(p), NEW row, row.status # "RUNNING", Outcome(p, row)
      PROVE  Attended(k)'
  <2>1. pollers[p] \in Poller /\ pollers[p].step = "work" /\ pollers[p].job \in Jobs
    BY <1>6 DEF Working, JobInv, JobTypeOK, HandlerBusy
  <2>2. \A q \in Pollers \ {p} : pollers'[q] = pollers[q]
    BY <1>6 DEF Outcome, JobInv, JobTypeOK
  <2>3. \A j \in Jobs : jobs'[j] = IF j = pollers[p].job THEN row ELSE jobs[j]
    BY <1>6, <2>1 DEF Outcome, JobInv, JobTypeOK
  <2>4. pollers[p].batch # {} =>
          pollers'[p].step = "run" /\ pollers'[p].batch = pollers[p].batch
    <3>1. pollers[p].batch # {} => pollers'[p] = [pollers[p] EXCEPT !.step = "run", !.job = NoJob]
      BY <1>6 DEF Outcome, JobInv, JobTypeOK
    <3> QED BY <2>1, <3>1 DEF Poller
  <2> QED BY <1>6, <2>1, <2>2, <2>3, <2>4, KeepRunner
<1>7. ASSUME NEW p \in Pollers, Succeed(p) \/ FailPermanent(p) \/ FailTransient(p)
      PROVE  Attended(k)'
  <2>1. Working(p) /\ JobAtHand(p) \in JobRow
    BY <1>7 DEF Succeed, FailPermanent, FailTransient, Working, JobAtHand, JobInv, JobTypeOK, HandlerBusy
  <2> DEFINE good == [JobAtHand(p) EXCEPT !.status = "SUCCEEDED", !.attempts = @ + 1]
             bad == [JobAtHand(p) EXCEPT !.status = "FAILED", !.attempts = FailedAttempts(p)]
             again == [status |-> "PENDING", attempts |-> FailedAttempts(p), due |-> FALSE]
  <2>2. good.status # "RUNNING" /\ bad.status # "RUNNING" /\ again.status # "RUNNING"
    BY <2>1 DEF JobRow
  <2>3. Outcome(p, good) \/ Outcome(p, bad) \/ Outcome(p, again)
    <3>1. CASE Succeed(p)
      BY <3>1 DEF Succeed
    <3>2. CASE FailPermanent(p)
      BY <3>2 DEF FailPermanent
    <3>3. CASE FailTransient(p)
      <4>1. CASE FailedAttempts(p) < MaxAttempts
        BY <3>3, <4>1, Zenon DEF FailTransient
      <4>2. CASE ~(FailedAttempts(p) < MaxAttempts)
        BY <3>3, <4>2, Zenon DEF FailTransient
      <4> QED BY <4>1, <4>2
    <3> QED BY <1>7, <3>1, <3>2, <3>3
  <2> HIDE DEF good, bad, again
  <2>4. CASE Outcome(p, good)
    BY <1>6, <2>1, <2>2, <2>4
  <2>5. CASE Outcome(p, bad)
    BY <1>6, <2>1, <2>2, <2>5
  <2>6. CASE Outcome(p, again)
    BY <1>6, <2>1, <2>2, <2>6
  <2> QED BY <2>3, <2>4, <2>5, <2>6
<1>8. CASE UNCHANGED jobVars
  BY <1>8 DEF jobVars, Attended, OnItsWay
<1> QED BY <1>1, <1>2, <1>3, <1>4, <1>5, <1>7, <1>8 DEF JobNext, PollerNext

\* However many ticks overlap, and whatever they write over each other, only the
\* death of a tick leaves a RUNNING job without a tick that is going to run it
\* (job-runner.service.ts:64-86).
THEOREM NoJobIsForgotten == JobSpec => OnlyDeathsAbandon
<1>1. JobSpec => []JobInv
  BY JobsInit, JobTypeStep, PTL DEF JobSpec
<1>2. JobInv /\ JobInv' /\ [JobNext]_jobVars =>
        [\A j \in Jobs : Attended(j) => Attended(j)' \/ \E p \in Pollers : PollerDies(p)]_jobVars
  BY RunnerStep
<1> QED BY <1>1, <1>2, PTL DEF JobSpec, OnlyDeathsAbandon

-----------------------------------------------------------------------------
(***************************************************************************)
(* The e-mails of one application instance whose ticks do not overlap, for *)
(* every number of events, callers and retries.  A tick that nobody writes *)
(* over holds its jobs as they are: RUNNING, with the attempts it fetched, *)
(* and, but for the one whose handler is past the send, not mailed.        *)
(***************************************************************************)

OneTick == \A p, q \in Pollers : p = q

Unmailed(j) == jobs[j].status = "RUNNING" /\ mailed[j] = 0 /\ jobs[j].attempts < MaxAttempts

\* What a tick relies on.
TickHeld(p) ==
  LET t == pollers[p]
  IN  /\ t.step = "claim" => \A j \in t.batch : jobs[j].status = "PENDING"
      /\ t.step \in {"fetch", "run", "work"} => \A j \in t.batch : Unmailed(j)
      /\ t.step \in {"run", "work"} => \A j \in t.batch : t.seen[j] = jobs[j].attempts

\* What the handler of a tick relies on.
WorkHeld(p) ==
  LET j == pollers[p].job
  IN  Working(p) =>
        /\ j \notin pollers[p].batch
        /\ jobs[j].status = "RUNNING"
        /\ pollers[p].seen[j] = jobs[j].attempts /\ jobs[j].attempts < MaxAttempts
        /\ dispatch[p] = "send" => mailed[j] = 0
        /\ dispatch[p] = "mark" => mailed[j] = 1
        /\ dispatch[p] = "finish" => emails[j] = "SENT"

RowTrue(e) ==
  /\ mailed[e] <= 1
  /\ emails[e] = "SENT" => mailed[e] > 0
  /\ jobs[e].status = "SUCCEEDED" => emails[e] = "SENT"
  /\ jobs[e].status \in {"ABSENT", "PENDING"} => mailed[e] = 0
  /\ jobs[e].status = "PENDING" => jobs[e].attempts < MaxAttempts
  /\ jobs[e].attempts <= MaxAttempts

MailType == NotificationTypeOK /\ HandlerBusy
              /\ \A c \in Callers : calls[c].step # "idle" => calls[c].event \in Jobs

MailInv == /\ MailType
           /\ \A e \in Jobs : RowTrue(e)
           /\ \A p \in Pollers : TickHeld(p) /\ WorkHeld(p)

-----------------------------------------------------------------------------
\* A step of the notifications is a step of the job queue, or leaves it alone.
LEMMA MailRunsJobs == ASSUME MailType, MailNext PROVE [JobNext]_jobVars
<1>1. ASSUME NEW p \in Pollers, DispatchNext(p) PROVE [JobNext]_jobVars
  <2>1. CASE PollRead(p) \/ PollClaim(p) \/ PollFetch(p) \/ PollerDies(p)
    BY <2>1 DEF JobNext, PollerNext
  <2>2. CASE StartDispatch(p) \/ SendFails(p) \/ DispatchSucceeds(p) \/ DispatchFails(p)
    BY <2>2 DEF StartDispatch, SendFails, DispatchSucceeds, DispatchFails, JobNext, PollerNext
  <2>3. CASE SendEmail(p) \/ MarkEmailSent(p)
    BY <2>3 DEF SendEmail, MarkEmailSent
  <2> QED BY <1>1, <2>1, <2>2, <2>3 DEF DispatchNext
<1>2. ASSUME NEW c \in Callers, EnqueueEmail(c) PROVE [JobNext]_jobVars
  <2>1. calls[c].event \in Jobs
    BY <1>2 DEF EnqueueEmail, MailType
  <2> QED BY <1>2, <2>1 DEF EnqueueEmail, JobNext
<1>3. ASSUME NEW e \in Jobs, BackoffOver(e) PROVE [JobNext]_jobVars
  BY <1>3 DEF JobNext
<1>4. CASE \/ \E c \in Callers, e \in Jobs : BeginCall(c, e)
           \/ \E c \in Callers : NotifyInApp(c) \/ NotifyEmail(c) \/ CallerDies(c)
  BY <1>4 DEF BeginCall, NotifyInApp, NotifyEmail, CallerDies
<1> QED BY <1>1, <1>2, <1>3, <1>4 DEF MailNext

LEMMA MailTypeInit == MailInit => MailType
<1> SUFFICES ASSUME MailInit PROVE MailType
  OBVIOUS
<1>1. JobInv
  BY JobsInit DEF MailInit
<1>2. NotificationTypeOK
  BY <1>1, CallAssumption DEF MailInit, JobInv, NotificationTypeOK, Call
<1> QED BY <1>1, <1>2 DEF MailInit, MailType, JobInv

\* What calls and dispatch become.
LEMMA CallTypes ==
  ASSUME MailType, NEW c \in Callers
  PROVE  /\ \A step \in {"inApp", "email", "enqueue"} : calls[c].step # "idle" /\ Goto(c, step) =>
              /\ calls' \in [Callers -> Call]
              /\ \A d \in Callers : calls'[d].step # "idle" => calls'[d].event \in Jobs
         /\ CallReturns(c) => /\ calls' \in [Callers -> Call]
                              /\ \A d \in Callers : calls'[d].step # "idle" => calls'[d].event \in Jobs
BY DEF MailType, NotificationTypeOK, Goto, CallReturns, Call

LEMMA MailTypeStep == ASSUME MailType, [MailNext]_mailVars PROVE MailType'
<1>1. CASE UNCHANGED mailVars
  BY <1>1 DEF mailVars, jobVars, MailType, NotificationTypeOK, JobTypeOK, HandlerBusy
<1>2. CASE MailNext
  <2>1. JobInv'
    BY <1>2, MailRunsJobs, JobTypeStep DEF JobInv, MailType, NotificationTypeOK
  <2>2. ASSUME NEW c \in Callers, NEW e \in Jobs, BeginCall(c, e) PROVE MailType'
    <3>1. calls[c].begun + 1 \in 0..MaxCalls /\ calls[c].begun \in 0..MaxCalls
      BY <2>2, CallAssumption DEF BeginCall, MailType, NotificationTypeOK, Call
    <3>2. calls' = [calls EXCEPT ![c] = [step |-> "inApp", event |-> e, begun |-> calls[c].begun + 1]]
      BY <2>2 DEF BeginCall
    <3>3. /\ calls' \in [Callers -> Call]
          /\ \A d \in Callers : calls'[d].step # "idle" => calls'[d].event \in Jobs
      BY <3>1, <3>2 DEF MailType, NotificationTypeOK, Call
    <3> QED BY <2>1, <2>2, <3>3 DEF BeginCall, JobInv, MailType, NotificationTypeOK
  <2>3. ASSUME NEW c \in Callers, NotifyInApp(c) \/ NotifyEmail(c) \/ EnqueueEmail(c) \/ CallerDies(c) PROVE MailType'
    <3>1. calls[c].step # "idle" /\ calls[c].event \in Jobs
      BY <2>3 DEF NotifyInApp, NotifyEmail, EnqueueEmail, CallerDies, MailType
    <3>2. CASE NotifyInApp(c)
      <4>1. inbox' \in SUBSET Jobs
        BY <3>1, <3>2 DEF NotifyInApp, MailType, NotificationTypeOK
      <4> QED BY <2>1, <3>1, <3>2, <4>1, CallTypes DEF NotifyInApp, JobInv, MailType, NotificationTypeOK
    <3>3. CASE NotifyEmail(c)
      <4>1. emails' \in [Jobs -> {"ABSENT", "UNSENT", "SENT"}]
        BY <3>3 DEF NotifyEmail, MailType, NotificationTypeOK
      <4> QED BY <2>1, <3>1, <3>3, <4>1, CallTypes DEF NotifyEmail, JobInv, MailType, NotificationTypeOK
    <3>4. CASE EnqueueEmail(c) \/ CallerDies(c)
      BY <2>1, <3>1, <3>4, CallTypes DEF EnqueueEmail, CallerDies, JobInv, MailType, NotificationTypeOK
    <3> QED BY <2>3, <3>2, <3>3, <3>4
  <2>4. ASSUME NEW p \in Pollers, DispatchNext(p) PROVE MailType'
    <3>1. UNCHANGED <<inbox, calls>>
      BY <2>4 DEF DispatchNext, StartDispatch, SendEmail, SendFails, MarkEmailSent, DispatchSucceeds, DispatchFails, Unsent
    <3>2. /\ emails' \in [Jobs -> {"ABSENT", "UNSENT", "SENT"}]
          /\ dispatch' \in [Pollers -> {"send", "mark", "finish"}]
      BY <2>4 DEF DispatchNext, StartDispatch, SendEmail, SendFails, MarkEmailSent, DispatchSucceeds, DispatchFails,
                  Unsent, MailType, NotificationTypeOK
    <3>3. mailed' \in [Jobs -> Nat]
      <4>1. CASE SendEmail(p)
        <5>1. pollers[p].job \in Jobs /\ mailed' = [mailed EXCEPT ![pollers[p].job] = @ + 1]
          BY <4>1 DEF SendEmail, Working, MailType, HandlerBusy
        <5> QED BY <5>1 DEF MailType, NotificationTypeOK
      <4>2. CASE ~SendEmail(p)
        BY <2>4, <4>2 DEF DispatchNext, StartDispatch, SendFails, MarkEmailSent, DispatchSucceeds, DispatchFails,
                    Unsent, MailType, NotificationTypeOK
      <4> QED BY <4>1, <4>2
    <3> QED BY <2>1, <3>1, <3>2, <3>3 DEF JobInv, MailType, NotificationTypeOK
  <2>5. ASSUME NEW e \in Jobs, BackoffOver(e), Unsent, UNCHANGED dispatch PROVE MailType'
    BY <2>1, <2>5 DEF Unsent, JobInv, MailType, NotificationTypeOK
  <2> QED BY <1>2, <2>2, <2>3, <2>4, <2>5 DEF MailNext
<1> QED BY <1>1, <1>2

-----------------------------------------------------------------------------
\* What a step leaves of its one tick, and of every row.
LEMMA MailKept ==
  ASSUME OneTick, NEW p \in Pollers, MailType', TickHeld(p)', WorkHeld(p)', \A e \in Jobs : RowTrue(e)'
  PROVE  MailInv'
BY DEF MailInv, OneTick

LEMMA AtWork ==
  ASSUME MailInv, NEW p \in Pollers, Working(p)
  PROVE  /\ pollers[p].job \in Jobs /\ pollers[p].job # NoJob
         /\ jobs[pollers[p].job] \in JobRow
         /\ pollers[p].batch \in SUBSET Jobs
BY JobAssumption DEF MailInv, MailType, NotificationTypeOK, JobTypeOK, HandlerBusy, Working, Poller

\* Callers put jobs and rows there; what a tick has before it does not change.
LEMMA CallersKeep ==
  ASSUME MailInv, MailType', UNCHANGED <<pollers, mailed, dispatch>>,
         \A e \in Jobs : emails'[e] = "SENT" <=> emails[e] = "SENT",
         \A e \in Jobs : \/ jobs'[e] = jobs[e]
                         \/ /\ jobs[e].status = "ABSENT"
                            /\ jobs'[e].status = "PENDING" /\ jobs'[e].attempts = 0
                         \/ /\ jobs[e].status = "PENDING"
                            /\ jobs'[e].status = "PENDING" /\ jobs'[e].attempts = jobs[e].attempts
  PROVE  MailInv'
<1>1. \A e \in Jobs : RowTrue(e)'
  BY JobAssumption DEF MailInv, RowTrue
<1>2. ASSUME NEW p \in Pollers PROVE TickHeld(p)' /\ WorkHeld(p)'
  <2>1. pollers[p] \in Poller
    BY DEF MailInv, MailType, NotificationTypeOK, JobTypeOK
  <2>2. TickHeld(p)'
    BY <2>1 DEF MailInv, TickHeld, Unmailed, Poller
  <2>3. WorkHeld(p)'
    BY <2>1, AtWork DEF MailInv, WorkHeld, Working
  <2> QED BY <2>2, <2>3
<1> QED BY <1>1, <1>2 DEF MailInv

LEMMA CallersStep ==
  ASSUME MailInv, MailType',
         \/ \E c \in Callers, e \in Jobs : BeginCall(c, e)
         \/ \E c \in Callers : NotifyInApp(c) \/ NotifyEmail(c) \/ EnqueueEmail(c) \/ CallerDies(c)
         \/ \E e \in Jobs : BackoffOver(e) /\ Unsent /\ UNCHANGED dispatch
  PROVE  MailInv'
<1>a. jobs \in [Jobs -> JobRow] /\ emails \in [Jobs -> {"ABSENT", "UNSENT", "SENT"}]
  BY DEF MailInv, MailType, NotificationTypeOK, JobTypeOK
<1>1. CASE \/ \E c \in Callers, e \in Jobs : BeginCall(c, e)
           \/ \E c \in Callers : NotifyInApp(c) \/ CallerDies(c)
  BY <1>1, CallersKeep DEF BeginCall, NotifyInApp, CallerDies, jobVars
<1>2. ASSUME NEW c \in Callers, NotifyEmail(c) PROVE MailInv'
  <2>1. \A e \in Jobs : emails'[e] = "SENT" <=> emails[e] = "SENT"
    BY <1>2, <1>a DEF NotifyEmail
  <2> QED BY <1>2, <2>1, CallersKeep DEF NotifyEmail, jobVars
<1>3. ASSUME NEW c \in Callers, EnqueueEmail(c) PROVE MailInv'
  <2>1. PICK j \in Jobs : j = calls[c].event
    BY <1>3 DEF EnqueueEmail, MailInv, MailType
  <2>2. jobs' = [jobs EXCEPT ![j] = IF @.status = "ABSENT"
                                    THEN [status |-> "PENDING", attempts |-> 0, due |-> TRUE] ELSE @]
    BY <1>3, <2>1 DEF EnqueueEmail, Enqueue
  <2>3. \A e \in Jobs : \/ jobs'[e] = jobs[e]
                        \/ /\ jobs[e].status = "ABSENT"
                           /\ jobs'[e].status = "PENDING" /\ jobs'[e].attempts = 0
    BY <1>a, <2>2
  <2> QED BY <1>3, <2>3, CallersKeep DEF EnqueueEmail, Enqueue
<1>4. ASSUME NEW j \in Jobs, BackoffOver(j), Unsent, UNCHANGED dispatch PROVE MailInv'
  <2>1. \A e \in Jobs : \/ jobs'[e] = jobs[e]
                        \/ /\ jobs[e].status = "PENDING"
                           /\ jobs'[e].status = "PENDING" /\ jobs'[e].attempts = jobs[e].attempts
    BY <1>4, <1>a DEF BackoffOver, JobRow
  <2> QED BY <1>4, <2>1, CallersKeep DEF BackoffOver, Unsent
<1> QED BY <1>1, <1>2, <1>3, <1>4

\* The outcome of the job at hand, which nobody else holds.
LEMMA OutcomeKeeps ==
  ASSUME OneTick, MailInv, MailType', NEW p \in Pollers, Working(p), NEW row, Outcome(p, row), Unsent, UNCHANGED dispatch,
         row.status # "RUNNING", row.attempts <= MaxAttempts,
         row.status = "SUCCEEDED" => emails[pollers[p].job] = "SENT",
         row.status \in {"ABSENT", "PENDING"} => mailed[pollers[p].job] = 0 /\ row.attempts < MaxAttempts
  PROVE  MailInv'
<1> PICK j \in Jobs : j = pollers[p].job
  BY AtWork
<1>1. jobs'[j] = row /\ \A e \in Jobs \ {j} : jobs'[e] = jobs[e]
  BY DEF Outcome, MailInv, MailType, NotificationTypeOK, JobTypeOK
<1>2. \A e \in Jobs : RowTrue(e)'
  BY <1>1 DEF MailInv, RowTrue, Unsent
<1>3. pollers'[p].step \in {"idle", "run"} /\ (pollers'[p].step = "run" =>
          pollers'[p].batch = pollers[p].batch /\ pollers'[p].seen = pollers[p].seen)
  BY DEF Outcome, MailInv, MailType, NotificationTypeOK, JobTypeOK, Poller, Resting
<1>4. j \notin pollers[p].batch /\ pollers[p].batch \subseteq Jobs /\ TickHeld(p)
  BY AtWork DEF MailInv, WorkHeld
<1>5. TickHeld(p)'
  BY <1>1, <1>3, <1>4 DEF TickHeld, Unmailed, Working, Unsent
<1>6. WorkHeld(p)'
  BY <1>3 DEF WorkHeld, Working
<1> QED BY <1>2, <1>5, <1>6, MailKept

LEMMA HandlerKeeps ==
  ASSUME OneTick, MailInv, MailType', NEW p \in Pollers,
         SendEmail(p) \/ SendFails(p) \/ MarkEmailSent(p) \/ DispatchSucceeds(p) \/ DispatchFails(p)
  PROVE  MailInv'
<1>a. Working(p)
  BY DEF SendEmail, SendFails, MarkEmailSent, DispatchSucceeds, DispatchFails, FailTransient, FailPermanent, Succeed
<1> PICK j \in Jobs : j = pollers[p].job
  BY <1>a, AtWork
<1>b. /\ j \notin pollers[p].batch /\ jobs[j].status = "RUNNING" /\ jobs[j].attempts < MaxAttempts
      /\ FailedAttempts(p) = jobs[j].attempts + 1
      /\ dispatch[p] = "send" => mailed[j] = 0
      /\ dispatch[p] = "mark" => mailed[j] = 1
      /\ dispatch[p] = "finish" => emails[j] = "SENT"
  BY <1>a DEF MailInv, WorkHeld, FailedAttempts
<1>c. jobs[j] \in JobRow /\ pollers[p].batch \in SUBSET Jobs /\ MaxAttempts \in Nat /\ jobs[j].attempts \in Nat
  BY <1>a, AtWork, JobAssumption DEF JobRow
<1>d. mailed \in [Jobs -> Nat] /\ emails \in [Jobs -> {"ABSENT", "UNSENT", "SENT"}]
      /\ dispatch \in [Pollers -> {"send", "mark", "finish"}]
  BY DEF MailInv, MailType, NotificationTypeOK
<1>e. RowTrue(j) /\ TickHeld(p) /\ \A e \in Jobs : RowTrue(e)
  BY DEF MailInv
<1>1. CASE SendEmail(p)
  <2>1. /\ mailed' = [mailed EXCEPT ![j] = @ + 1] /\ dispatch' = [dispatch EXCEPT ![p] = "mark"]
        /\ UNCHANGED <<jobs, pollers, emails>> /\ dispatch[p] = "send"
    BY <1>1 DEF SendEmail, jobVars
  <2>2. mailed'[j] = 1 /\ dispatch'[p] = "mark" /\ \A e \in Jobs \ {j} : mailed'[e] = mailed[e]
    BY <1>b, <1>d, <2>1
  <2>3. \A e \in Jobs : RowTrue(e)'
    BY <1>b, <1>e, <2>1, <2>2 DEF RowTrue
  <2>4. TickHeld(p)'
    BY <1>a, <1>b, <1>c, <1>e, <2>1, <2>2 DEF TickHeld, Unmailed, Working
  <2>5. WorkHeld(p)'
    BY <1>b, <2>1, <2>2, <1>a DEF MailInv, WorkHeld, Working
  <2> QED BY <2>3, <2>4, <2>5, MailKept
<1>2. CASE MarkEmailSent(p)
  <2>1. /\ emails' = [emails EXCEPT ![j] = "SENT"] /\ dispatch' = [dispatch EXCEPT ![p] = "finish"]
        /\ UNCHANGED <<jobs, pollers, mailed>> /\ dispatch[p] = "mark"
    BY <1>2 DEF MarkEmailSent, jobVars
  <2>2. emails'[j] = "SENT" /\ dispatch'[p] = "finish" /\ \A e \in Jobs \ {j} : emails'[e] = emails[e]
    BY <1>d, <2>1
  <2>3. \A e \in Jobs : RowTrue(e)'
    BY <1>b, <1>e, <2>1, <2>2 DEF RowTrue
  <2>4. TickHeld(p)'
    BY <1>e, <2>1 DEF TickHeld, Unmailed
  <2>5. WorkHeld(p)'
    BY <1>b, <2>1, <2>2, <1>a DEF MailInv, WorkHeld, Working
  <2> QED BY <2>3, <2>4, <2>5, MailKept
<1> DEFINE row == JobAtHand(p)
           good == [row EXCEPT !.status = "SUCCEEDED", !.attempts = @ + 1]
           bad == [row EXCEPT !.status = "FAILED", !.attempts = FailedAttempts(p)]
           again == [status |-> "PENDING", attempts |-> FailedAttempts(p), due |-> FALSE]
<1>f. /\ good.status = "SUCCEEDED" /\ good.attempts = jobs[j].attempts + 1
      /\ bad.status = "FAILED" /\ bad.attempts = jobs[j].attempts + 1
      /\ again.status = "PENDING" /\ again.attempts = jobs[j].attempts + 1
  BY <1>b, <1>c DEF JobAtHand, JobRow
<1>g. jobs[j].attempts + 1 <= MaxAttempts
  BY <1>b, <1>c
<1> HIDE DEF row, good, bad, again
<1>3. CASE SendFails(p)
  <2>1. dispatch[p] = "send" /\ Unsent /\ UNCHANGED dispatch
    BY <1>3 DEF SendFails
  <2>2. \/ FailedAttempts(p) < MaxAttempts /\ Outcome(p, again)
        \/ Outcome(p, bad)
    BY <1>3, Zenon DEF SendFails, FailTransient, again, bad, row
  <2> QED BY <1>a, <1>b, <1>f, <1>g, <2>1, <2>2, OutcomeKeeps
<1>4. CASE DispatchSucceeds(p)
  <2>1. dispatch[p] = "finish" /\ Unsent /\ UNCHANGED dispatch /\ Outcome(p, good)
    BY <1>4 DEF DispatchSucceeds, Succeed, good, row
  <2> QED BY <1>a, <1>b, <1>f, <1>g, <2>1, OutcomeKeeps
<1>5. CASE DispatchFails(p)
  <2>1. Unsent /\ UNCHANGED dispatch /\ Outcome(p, bad)
    BY <1>5 DEF DispatchFails, FailPermanent, bad, row
  <2> QED BY <1>a, <1>b, <1>f, <1>g, <2>1, OutcomeKeeps
<1> QED BY <1>1, <1>2, <1>3, <1>4, <1>5

LEMMA TickKeeps ==
  ASSUME OneTick, MailInv, MailType', NEW p \in Pollers,
         \/ (PollRead(p) \/ PollClaim(p) \/ PollFetch(p) \/ PollerDies(p)) /\ Unsent /\ UNCHANGED dispatch
         \/ StartDispatch(p)
  PROVE  MailInv'
<1>a. pollers \in [Pollers -> Poller] /\ jobs \in [Jobs -> JobRow] /\ pollers[p].batch \in SUBSET Jobs
  BY DEF MailInv, MailType, NotificationTypeOK, JobTypeOK, Poller
<1>b. TickHeld(p) /\ \A e \in Jobs : RowTrue(e)
  BY DEF MailInv
<1>c. Resting.step = "idle" /\ Resting.batch = {} /\ Resting.job = NoJob
  BY DEF Resting
<1>d. UNCHANGED <<emails, mailed>>
  BY DEF StartDispatch, Unsent
<1>e. ASSUME jobs' = jobs PROVE \A e \in Jobs : RowTrue(e)'
  BY <1>b, <1>d, <1>e DEF RowTrue
<1>1. CASE PollRead(p)
  <2>1. PICK batch \in SUBSET DueJobs :
          pollers' = [pollers EXCEPT ![p] = [Resting EXCEPT !.step = "claim", !.batch = batch]]
    BY <1>1 DEF PollRead
  <2>2. pollers'[p].step = "claim" /\ pollers'[p].batch = batch /\ jobs' = jobs
    BY <1>1, <1>a, <2>1 DEF Resting, PollRead
  <2>3. TickHeld(p)' /\ WorkHeld(p)'
    BY <2>2 DEF TickHeld, WorkHeld, Working, DueJobs
  <2> QED BY <1>e, <2>2, <2>3, MailKept
<1>2. CASE PollClaim(p)
  <2>1. /\ pollers[p].step = "claim" /\ \A j \in pollers[p].batch : jobs[j].status = "PENDING"
        /\ {j \in pollers[p].batch : jobs[j].status = "PENDING"} = pollers[p].batch
    BY <1>2, <1>b DEF PollClaim, TickHeld
  <2>2. /\ jobs' = [j \in Jobs |-> IF j \in pollers[p].batch THEN [jobs[j] EXCEPT !.status = "RUNNING"] ELSE jobs[j]]
        /\ pollers' = [pollers EXCEPT ![p] = IF pollers[p].batch = {} THEN Resting
                                             ELSE [pollers[p] EXCEPT !.step = "fetch"]]
    BY <1>2, <2>1 DEF PollClaim
  <2>3. \A j \in Jobs : IF j \in pollers[p].batch
                        THEN jobs'[j].status = "RUNNING" /\ jobs'[j].attempts = jobs[j].attempts
                        ELSE jobs'[j] = jobs[j]
    BY <1>a, <2>2 DEF JobRow
  <2>4. pollers'[p].step \in {"idle", "fetch"} /\ (pollers'[p].step = "fetch" => pollers'[p].batch = pollers[p].batch)
    BY <1>a, <1>c, <2>2 DEF Poller
  <2>5. \A e \in Jobs : RowTrue(e)'
    BY <1>b, <1>d, <2>1, <2>3 DEF RowTrue
  <2>6. TickHeld(p)' /\ WorkHeld(p)'
    BY <1>a, <1>b, <1>d, <2>1, <2>3, <2>4 DEF TickHeld, WorkHeld, Working, Unmailed, RowTrue
  <2> QED BY <2>5, <2>6, MailKept
<1>3. CASE PollFetch(p)
  <2>1. /\ pollers[p].step = "fetch" /\ \A j \in pollers[p].batch : Unmailed(j)
        /\ {j \in pollers[p].batch : jobs[j].status = "RUNNING"} = pollers[p].batch
    BY <1>3, <1>b DEF PollFetch, TickHeld, Unmailed
  <2> DEFINE seen == [j \in Jobs |-> IF j \in pollers[p].batch THEN jobs[j].attempts ELSE 0]
  <2>2. pollers' = [pollers EXCEPT ![p] = IF pollers[p].batch = {} THEN Resting
                                          ELSE [pollers[p] EXCEPT !.step = "run", !.batch = pollers[p].batch, !.seen = seen]]
    BY <1>3, <2>1 DEF PollFetch
  <2>3. \A j \in pollers[p].batch : seen[j] = jobs[j].attempts
    BY <1>a
  <2> HIDE DEF seen
  <2>4. pollers'[p].step \in {"idle", "run"} /\ (pollers'[p].step = "run" =>
            pollers'[p].batch = pollers[p].batch /\ pollers'[p].seen = seen)
    BY <1>a, <1>c, <2>2 DEF Poller
  <2>5. jobs' = jobs
    BY <1>3 DEF PollFetch
  <2>6. TickHeld(p)' /\ WorkHeld(p)'
    BY <1>d, <2>1, <2>3, <2>4, <2>5 DEF TickHeld, WorkHeld, Working, Unmailed
  <2> QED BY <1>e, <2>5, <2>6, MailKept
<1>4. CASE PollerDies(p)
  <2>1. jobs' = jobs /\ pollers'[p].step = "idle"
    BY <1>4, <1>a, <1>c DEF PollerDies
  <2>2. TickHeld(p)' /\ WorkHeld(p)'
    BY <2>1 DEF TickHeld, WorkHeld, Working
  <2> QED BY <1>e, <2>1, <2>2, MailKept
<1>5. CASE StartDispatch(p)
  <2>1. PICK j \in pollers[p].batch :
          pollers' = [pollers EXCEPT ![p].step = "work", ![p].job = j, ![p].batch = @ \ {j}]
    BY <1>5 DEF StartDispatch, RunOne
  <2>2. /\ pollers'[p].step = "work" /\ pollers'[p].job = j /\ pollers'[p].batch = pollers[p].batch \ {j}
        /\ pollers'[p].seen = pollers[p].seen
    BY <1>a, <2>1 DEF Poller
  <2>3. jobs' = jobs /\ dispatch'[p] = "send" /\ pollers[p].step = "run"
    BY <1>5 DEF StartDispatch, RunOne, MailInv, MailType, NotificationTypeOK
  <2>4. TickHeld(p)' /\ WorkHeld(p)'
    BY <1>b, <1>d, <2>2, <2>3 DEF TickHeld, WorkHeld, Working, Unmailed
  <2> QED BY <1>e, <2>3, <2>4, MailKept
<1> QED BY <1>1, <1>2, <1>3, <1>4, <1>5

LEMMA MailInvInit == MailInit => MailInv
<1> SUFFICES ASSUME MailInit PROVE MailInv
  OBVIOUS
<1>1. MailType
  BY MailTypeInit
<1>2. \A e \in Jobs : RowTrue(e)
  BY JobAssumption DEF MailInit, JobInit, NoRow, RowTrue
<1>3. \A p \in Pollers : pollers[p].step = "idle"
  BY DEF MailInit, JobInit, Resting
<1> QED BY <1>1, <1>2, <1>3 DEF MailInv, TickHeld, WorkHeld, Working

LEMMA MailInvStep == ASSUME OneTick, MailInv, [MailNext]_mailVars PROVE MailInv'
<1>1. MailType'
  BY MailTypeStep DEF MailInv
<1>2. CASE UNCHANGED mailVars
  BY <1>1, <1>2 DEF mailVars, jobVars, MailInv, TickHeld, WorkHeld, Working, Unmailed, RowTrue
<1> QED BY <1>1, <1>2, CallersStep, TickKeeps, HandlerKeeps DEF MailNext, DispatchNext

LEMMA MailInvariant == ASSUME OneTick PROVE MailSpec => []MailInv
<1>1. MailInv /\ [MailNext]_mailVars => MailInv'
  BY MailInvStep
<1> QED BY <1>1, MailInvInit, PTL DEF MailSpec

\* Where ticks do not overlap, retries of the event, of the job and of the tick never
\* send an e-mail twice, wherever a process dies (notifications.service.ts:33-34).
THEOREM EmailsGoOutOnce == ASSUME OneTick PROVE MailSpec => []EmailAtMostOnce
<1>1. MailInv => EmailAtMostOnce
  BY DEF MailInv, RowTrue, EmailAtMostOnce
<1> QED BY <1>1, MailInvariant, PTL

\* Where ticks do not overlap, the rows say what happened to the e-mail
\* (notifications.module.ts:26-45, job-runner.service.ts:109-125).
THEOREM RowsAreTrue == ASSUME OneTick PROVE MailSpec => []RowsTellTheTruth
<1>1. MailInv => RowsTellTheTruth
  BY DEF MailInv, RowTrue, RowsTellTheTruth
<1> QED BY <1>1, MailInvariant, PTL

\* Where ticks do not overlap, a job that was settled is never run or rescheduled again
\* (job-runner.service.ts:64-86).
THEOREM SettledStays == ASSUME OneTick PROVE MailSpec => SettledForGood
<1>1. ASSUME MailInv, [MailNext]_mailVars, NEW e \in Jobs, e \in Settled PROVE jobs'[e] = jobs[e]
  <2>a. jobs \in [Jobs -> JobRow] /\ jobs[e].status \in {"SUCCEEDED", "FAILED"}
    BY <1>1 DEF MailInv, MailType, NotificationTypeOK, JobTypeOK, Settled
  <2>1. CASE UNCHANGED jobs
    BY <2>1
  <2>2. ASSUME NEW c \in Callers, EnqueueEmail(c) PROVE jobs'[e] = jobs[e]
    BY <2>2, <2>a DEF EnqueueEmail, Enqueue
  <2>3. ASSUME NEW j \in Jobs, BackoffOver(j) PROVE jobs'[e] = jobs[e]
    BY <2>3, <2>a DEF BackoffOver
  <2>4. ASSUME NEW p \in Pollers, PollClaim(p) PROVE jobs'[e] = jobs[e]
    BY <2>4, <2>a DEF PollClaim
  <2>5. ASSUME NEW p \in Pollers, Working(p), NEW row, Outcome(p, row) PROVE jobs'[e] = jobs[e]
    BY <1>1, <2>5, <2>a DEF Outcome, MailInv, WorkHeld
  <2>6. ASSUME NEW p \in Pollers, SendFails(p) \/ DispatchSucceeds(p) \/ DispatchFails(p) PROVE jobs'[e] = jobs[e]
    BY <2>5, <2>6 DEF SendFails, DispatchSucceeds, DispatchFails, FailTransient, Succeed, FailPermanent
  <2>7. CASE UNCHANGED mailVars
    BY <2>1, <2>7 DEF mailVars, jobVars
  <2>8. ASSUME NEW p \in Pollers,
               \/ PollRead(p) \/ PollFetch(p) \/ PollerDies(p)
               \/ StartDispatch(p) \/ SendEmail(p) \/ MarkEmailSent(p)
        PROVE  jobs'[e] = jobs[e]
    BY <2>8 DEF PollRead, PollFetch, PollerDies, StartDispatch, RunOne, SendEmail, MarkEmailSent, jobVars
  <2>9. ASSUME NEW c \in Callers, (\E j \in Jobs : BeginCall(c, j)) \/ NotifyInApp(c) \/ NotifyEmail(c) \/ CallerDies(c)
        PROVE  jobs'[e] = jobs[e]
    BY <2>9 DEF BeginCall, NotifyInApp, NotifyEmail, CallerDies, jobVars
  <2> QED BY <1>1, <2>2, <2>3, <2>4, <2>6, <2>7, <2>8, <2>9 DEF MailNext, DispatchNext
<1>2. MailInv /\ [MailNext]_mailVars => \A e \in Jobs : e \in Settled => jobs'[e] = jobs[e]
  BY <1>1
<1> QED BY <1>2, MailInvariant, PTL DEF MailSpec, SettledForGood
=============================================================================
