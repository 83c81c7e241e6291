------------------------------ MODULE JobQueue ------------------------------
(***************************************************************************)
(* The background jobs: JobsService puts rows into background_jobs, and    *)
(* ticks of JobRunnerService take them in batches, run them one after the  *)
(* other and write the outcome.  A poller p is one tick that may be under  *)
(* way: nothing keeps a tick from starting while an earlier one, or one of *)
(* another application instance, is still running its batch.               *)
(*                                                                         *)
(* Jobs        dedupe keys; each has at most one row                       *)
(* BatchSize   CLAIM_BATCH_SIZE                                            *)
(* Failures    what goes wrong in this instance: "transient", "permanent", *)
(*             "crash"                                                     *)
(***************************************************************************)
EXTENDS Integers, FiniteSets

CONSTANTS Jobs, Pollers, MaxAttempts, BatchSize, Failures, NoJob

ASSUME JobAssumption ==
  /\ MaxAttempts \in Nat \ {0} /\ BatchSize \in Nat \ {0}
  /\ Failures \subseteq {"transient", "permanent", "crash"}
  /\ NoJob \notin Jobs

VARIABLES jobs, pollers

jobVars == <<jobs, pollers>>

JobRow == [status : {"ABSENT", "PENDING", "RUNNING", "SUCCEEDED", "FAILED"},
           attempts : Nat,
           due : BOOLEAN]       \* scheduledFor has passed

Poller == [step : {"idle", "claim", "fetch", "run", "work"},
           batch : SUBSET Jobs,          \* candidates, then the jobs still to run
           seen : [Jobs -> Nat],         \* attempts of the jobs as fetched
           job : Jobs \cup {NoJob}]      \* the job that the handler works on

NoRow   == [status |-> "ABSENT", attempts |-> 0, due |-> FALSE]
Resting == [step |-> "idle", batch |-> {}, seen |-> [j \in Jobs |-> 0], job |-> NoJob]

\* A job row holds a BackgroundJobStatus and a count of attempts; a tick is at a
\* step of processPendingJobs() or runOne().
JobTypeOK ==
  /\ jobs \in [Jobs -> JobRow]
  /\ pollers \in [Pollers -> Poller]

JobInit ==
  /\ jobs = [j \in Jobs |-> NoRow]
  /\ pollers = [p \in Pollers |-> Resting]

DueJobs == {j \in Jobs : jobs[j].status = "PENDING" /\ jobs[j].due}
Settled == {j \in Jobs : jobs[j].status \in {"SUCCEEDED", "FAILED"}}

-----------------------------------------------------------------------------
\* enqueue(): whoever comes second finds the row, by findUnique or by the
\* unique constraint on dedupeKey, and leaves it as it is.
Enqueue(j) ==
  /\ jobs' = [jobs EXCEPT ![j] = IF @.status = "ABSENT"
                                 THEN [status |-> "PENDING", attempts |-> 0, due |-> TRUE] ELSE @]
  /\ UNCHANGED pollers

\* The candidates of a tick: BatchSize of the due jobs, all when there are fewer.
PollRead(p) ==
  /\ pollers[p].step = "idle"
  /\ \E batch \in SUBSET DueJobs :
       /\ batch # {}
       /\ IF Cardinality(DueJobs) <= BatchSize THEN batch = DueJobs ELSE Cardinality(batch) = BatchSize
       /\ pollers' = [pollers EXCEPT ![p] = [Resting EXCEPT !.step = "claim", !.batch = batch]]
  /\ UNCHANGED jobs

\* Faulty: the claim is not limited to the candidates.
PollClaimAll(p) ==
  LET mine == DueJobs
  IN  /\ pollers[p].step = "claim"
      /\ jobs' = [j \in Jobs |-> IF j \in mine THEN [jobs[j] EXCEPT !.status = "RUNNING"] ELSE jobs[j]]
      /\ pollers' = [pollers EXCEPT ![p] = IF mine = {} THEN Resting ELSE [@ EXCEPT !.step = "fetch"]]

\* updateMany: those of the candidates that are still PENDING turn RUNNING.
PollClaim(p) ==
  LET mine == {j \in pollers[p].batch : jobs[j].status = "PENDING"}
  IN  /\ pollers[p].step = "claim"
      /\ jobs' = [j \in Jobs |-> IF j \in mine THEN [jobs[j] EXCEPT !.status = "RUNNING"] ELSE jobs[j]]
      /\ pollers' = [pollers EXCEPT ![p] = IF mine = {} THEN Resting ELSE [@ EXCEPT !.step = "fetch"]]

\* All the candidates that are RUNNING by now, whoever claimed them.
PollFetch(p) ==
  LET running == {j \in pollers[p].batch : jobs[j].status = "RUNNING"}
  IN  /\ pollers[p].step = "fetch"
      /\ pollers' = [pollers EXCEPT ![p] =
           IF running = {} THEN Resting
           ELSE [@ EXCEPT !.step = "run", !.batch = running,
                          !.seen = [j \in Jobs |-> IF j \in running THEN jobs[j].attempts ELSE 0]]]
      /\ UNCHANGED jobs

\* Faulty: the job stays in the batch.
RunOneKept(p) ==
  /\ pollers[p].step = "run"
  /\ \E j \in pollers[p].batch :
       pollers' = [pollers EXCEPT ![p].step = "work", ![p].job = j]
  /\ UNCHANGED jobs

RunOne(p) ==
  /\ pollers[p].step = "run"
  /\ \E j \in pollers[p].batch :
       pollers' = [pollers EXCEPT ![p].step = "work", ![p].job = j, ![p].batch = @ \ {j}]
  /\ UNCHANGED jobs

-----------------------------------------------------------------------------
\* runOne() writes the outcome of its job and the tick goes on with its batch.
Outcome(p, row) ==
  /\ jobs' = [jobs EXCEPT ![pollers[p].job] = row]
  /\ pollers' = [pollers EXCEPT ![p] = IF @.batch = {} THEN Resting
                                       ELSE [@ EXCEPT !.step = "run", !.job = NoJob]]

Working(p) == pollers[p].step = "work"
JobAtHand(p) == jobs[pollers[p].job]

\* attempts: { increment: 1 } on the row as it is ...
Succeed(p) ==
  /\ Working(p)
  /\ Outcome(p, [JobAtHand(p) EXCEPT !.status = "SUCCEEDED", !.attempts = @ + 1])

\* ... but a failure counts from the row as it was fetched.
FailedAttempts(p) == pollers[p].seen[pollers[p].job] + 1

FailPermanent(p) ==
  /\ Working(p)
  /\ Outcome(p, [JobAtHand(p) EXCEPT !.status = "FAILED", !.attempts = FailedAttempts(p)])

\* Faulty: a retry is not counted.
FailTransientUncounted(p) ==
  /\ Working(p)
  /\ Outcome(p, [JobAtHand(p) EXCEPT !.status = "PENDING", !.due = FALSE])

FailTransient(p) ==
  /\ Working(p)
  /\ Outcome(p, IF FailedAttempts(p) < MaxAttempts
                THEN [status |-> "PENDING", attempts |-> FailedAttempts(p), due |-> FALSE]
                ELSE [JobAtHand(p) EXCEPT !.status = "FAILED", !.attempts = FailedAttempts(p)])

\* The backoff of a rescheduled job is over.
BackoffOver(j) ==
  /\ jobs[j].status = "PENDING" /\ ~jobs[j].due
  /\ jobs' = [jobs EXCEPT ![j].due = TRUE]
  /\ UNCHANGED pollers

\* The process of the tick dies, or a query of the tick throws: what is left of
\* its batch stays as it is, and nothing ever resets a RUNNING row.
PollerDies(p) ==
  /\ "crash" \in Failures
  /\ pollers[p].step # "idle"
  /\ pollers' = [pollers EXCEPT ![p] = Resting]
  /\ UNCHANGED jobs

PollerNext(p) ==
  \/ PollRead(p) \/ PollClaim(p) \/ PollFetch(p) \/ RunOne(p)
  \/ Succeed(p)
  \/ "transient" \in Failures /\ FailTransient(p)
  \/ "permanent" \in Failures /\ FailPermanent(p)

JobNext ==
  \/ \E j \in Jobs : Enqueue(j) \/ BackoffOver(j)
  \/ \E p \in Pollers : PollerNext(p) \/ PollerDies(p)

JobSpec == JobInit /\ [][JobNext]_jobVars

\* The poll timer keeps firing, queries and handlers return, and time passes;
\* from some point on no tick dies.
FairJobs ==
  /\ \A p \in Pollers : WF_jobVars(PollerNext(p))
  /\ \A j \in Jobs : WF_jobVars(BackoffOver(j))
  /\ <>[][\A p \in Pollers : ~PollerDies(p)]_jobVars

FairJobSpec == JobSpec /\ FairJobs

-----------------------------------------------------------------------------
OnItsWay(j) ==
  \E p \in Pollers : \/ pollers[p].step \in {"fetch", "run", "work"} /\ j \in pollers[p].batch
                     \/ pollers[p].job = j
Attended(j) == jobs[j].status = "RUNNING" => OnItsWay(j)

\* Only the death of a tick leaves a RUNNING job without a tick that is going to
\* run it, also when overlapping ticks chose the same candidates, each claimed
\* some of them, and they write over each other (job-runner.service.ts:64-86).
OnlyDeathsAbandon ==
  [][\A j \in Jobs : Attended(j) => Attended(j)' \/ \E p \in Pollers : PollerDies(p)]_jobVars

\* Every job that was enqueued is in the end settled for good, or a dying tick
\* left it RUNNING for good; also when overlapping ticks run it more than once and
\* write attempts over each other, a retry never goes on for ever
\* (job-runner.service.ts:109-125, docs/phase-status/PHASE_12.md:546-547).
JobsAreSettled ==
  \A j \in Jobs : jobs[j].status # "ABSENT" ~> [](j \in Settled) \/ [](~Attended(j))

\* A row that was RUNNING when the process ended: "the existing retry/backoff
\* logic [...] resolves it" (docs/production/DISASTER_RECOVERY.md:79).
RunningIsResolved == \A j \in Jobs : jobs[j].status = "RUNNING" ~> jobs[j].status # "RUNNING"

\* "two overlapping poll ticks can never double-process the same job"
\* (docs/database/DATA_DICTIONARY.md:406).
NoDoubleProcessing ==
  \A p, q \in Pollers :
    p # q /\ pollers[p].step = "work" /\ pollers[q].step = "work" => pollers[p].job # pollers[q].job
=============================================================================
